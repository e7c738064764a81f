------------------------------ MODULE RtcmObs ------------------------------
(***************************************************************************)
(* rtcm/rtcm3.c: how the observations of an epoch are put together from    *)
(* the messages of a stream, and rtcm_encode_obs (rtcm/encoder.c), which   *)
(* takes an epoch apart.  Each message has the satellites of one system;   *)
(* a bit says whether more of the epoch follow.  Messages may be lost      *)
(* (their parity does not fit), the stream may pause and change over to    *)
(* another station.                                                        *)
(*                                                                         *)
(* Kinds of messages: "basic" (1001, 1003, 1009, 1011: not decoded), "l1"  *)
(* (1002, 1010), "l12" (1004, 1012) and "msm" (MSM4-7).  They carry the    *)
(* time of the week or, for GLONASS, of the day; that these begin at       *)
(* different hours is left out.  What is observed of a satellite is the    *)
(* epoch and the station it really comes from.                             *)
(***************************************************************************)
EXTENDS Integers, Sequences, FiniteSets

CONSTANTS
  Sats, System(_),  \* satellites and their systems, "GLO" one of them
  Layouts,          \* epochs of the stations: sequences of [kind, glo, sats]
  Coded,            \* sets of satellites that the server encodes
  TypeOrder,        \* the systems in the order of out_vrs_obsrtcm
  MaxObs,           \* MAXOBS
  MaxCell,          \* satellites of an MSM message with at most 64 cells
  Gaps,             \* times from an epoch to the next
  Week, Day,
  Stations,         \* their ids
  MaxEpoch          \* bound: epochs

ASSUME RtcmObsAssumption ==
  /\ Week \in Nat \ {0} /\ Day \in Nat \ {0} /\ MaxObs \in Nat \ {0} /\ MaxCell \in Nat
  /\ Gaps \subseteq Nat \ {0} /\ MaxEpoch \in Nat /\ Stations \subseteq Nat \ {0}
  /\ IsFiniteSet(Sats) /\ TypeOrder \in Seq(STRING)
  /\ \A S \in Coded : S \subseteq Sats
  /\ \A l \in Layouts :
       /\ l \in Seq([kind : {"basic", "l1", "l12", "msm"}, glo : BOOLEAN, sats : SUBSET Sats])
       /\ \A i \in DOMAIN l : l[i].kind = "msm" => \A s, r \in l[i].sats : System(s) = System(r)

VARIABLES
  now, epochs,        \* the time of the epoch on its way, and how many there were
  sta,                \* the station that sends
  todo,               \* the rest of the epoch's messages
  time,               \* rtcm->time, 0 before the first message
  first,              \* the time of rtcm->obs.data[0]
  obs, obsflag, staid,
  given,              \* the epoch handed on last
  \* histories of the epoch on its way
  sent,               \* its satellites
  took,               \* those the decoder took
  whole,              \* no message was lost, and the one before was of its station
  crowded,            \* the epoch before filled the observations
  heard, speaker,     \* the time and the station of the last message, 0 before it
  calm,               \* every message came within less than half a period of the one before
  torn                \* a station took over with more than the last message of an epoch

decoder == <<time, first, obs, obsflag, staid, given>>
histories == <<sent, took, whole, crowded, heard, speaker, calm, torn>>
vars == <<now, epochs, sta, todo, decoder, histories>>

Nothing == [n |-> 0, time |-> 0, obs |-> {}]

Init == /\ now = 2 * Week /\ epochs = 0 /\ sta \in Stations /\ todo = <<>>
        /\ time = 0 /\ first = 0 /\ obs = {} /\ obsflag = FALSE /\ staid = 0
        /\ given = Nothing
        /\ sent = {} /\ took = {} /\ whole = FALSE /\ crowded = FALSE
        /\ heard = 0 /\ speaker = 0 /\ calm = TRUE /\ torn = FALSE

-----------------------------------------------------------------------------
\* The stream

\* Mutant: every message says that it is the last.
EncodeSingle(S) ==
  [i \in 1 .. Len(TypeOrder) |->
     [kind |-> "msm", glo |-> TypeOrder[i] = "GLO", sats |-> {s \in S : System(s) = TypeOrder[i]},
      sync |-> FALSE]]

\* rtcm_encode_obs: a message for every system, also for those without satellites.
Encode(S) ==
  [i \in 1 .. Len(TypeOrder) |->
     [kind |-> "msm", glo |-> TypeOrder[i] = "GLO", sats |-> {s \in S : System(s) = TypeOrder[i]},
      sync |-> i # Len(TypeOrder)]]

Messages(layout) ==
  [i \in DOMAIN layout |->
     [kind |-> layout[i].kind, glo |-> layout[i].glo, sats |-> layout[i].sats,
      sync |-> i # Len(layout)]]

Legacy(m) == m.kind \in {"l1", "l12"}
SatsOf(ms) == UNION {ms[i].sats : i \in {j \in DOMAIN ms : ms[j].kind # "basic"}}

NewEpoch ==
  /\ todo = <<>> /\ epochs < MaxEpoch
  /\ \E g \in Gaps : now' = now + g
  /\ \E ms \in {Messages(l) : l \in Layouts} \union {Encode(S) : S \in Coded} :
       /\ todo' = ms /\ sent' = SatsOf(ms)
       /\ crowded' = (Cardinality(obs) = MaxObs /\ \E i \in DOMAIN ms : Legacy(ms[i]))
  /\ sta' \in Stations
  /\ epochs' = epochs + 1 /\ took' = {} /\ whole' = (speaker \in {0, sta'})
  /\ UNCHANGED <<decoder, heard, speaker, calm, torn>>

\* Another station goes on with its messages of the same epoch.
ChangeOver ==
  /\ todo # <<>> /\ ~torn
  /\ sta' \in Stations \ {sta}
  /\ torn' = (Len(todo) > 1) /\ whole' = FALSE
  /\ UNCHANGED <<now, epochs, todo, decoder, sent, took, crowded, heard, speaker, calm>>

Lose ==
  /\ todo # <<>>
  /\ todo' = Tail(todo) /\ whole' = FALSE
  /\ UNCHANGED <<now, epochs, sta, decoder, sent, took, crowded, heard, speaker, calm, torn>>

-----------------------------------------------------------------------------
\* The decoder

\* Mutant: the time goes back at most.
NearestBack(t, period) ==
  LET p == time % period
      x == t % period
      b == (time \div period) * period IN
  IF time = 0 THEN t
  ELSE IF 2 * x > 2 * p + period THEN b + x - period
  ELSE b + x

\* adjweek, adjday_glot: the time of a message, which has it within a period
\* only, is the one nearest to the last; the first is near the clock.
Nearest(t, period) ==
  LET p == time % period
      x == t % period
      b == (time \div period) * period IN
  IF time = 0 THEN t
  ELSE IF 2 * x + period < 2 * p THEN b + x + period
  ELSE IF 2 * x > 2 * p + period THEN b + x - period
  ELSE b + x

TimeOf(m) == Nearest(now, IF m.glo THEN Day ELSE Week)
Calm(m) == calm /\ (heard = 0 \/ 2 * (now - heard) < IF m.glo THEN Day ELSE Week)

\* test_staid
StationFits == staid = 0 \/ obsflag \/ staid = sta

\* Mutant: observations of an epoch are kept until one was handed on.
StaleUntilGiven(t) == obsflag

\* What is left of another epoch goes with the first satellite.
Stale(t) == obsflag \/ first # t

Obs(S, t) == [sat : S, time : {t}, at : {now}, from : {sta}]

\* obsindex: those that are there already are overwritten, new ones come in as
\* long as there is room.
Room(m, had, got) ==
  LET there == {o.sat : o \in had} IN
  /\ Cardinality(there \union got) <= MaxObs
  /\ got = m.sats \/ Cardinality(there \union got) = MaxObs
  /\ m.kind = "msm" => m.sats \intersect there \subseteq got

\* The loop over the satellites of a message at time t; that of the older kinds
\* is not entered when the observations are full, of whichever epoch.
Save(m, t) ==
  IF m.kind = "basic" \/ m.sats = {} \/ (Legacy(m) /\ Cardinality(obs) >= MaxObs)
  THEN UNCHANGED <<first, obs, took>>
  ELSE LET had == IF Stale(t) THEN {} ELSE obs IN
       \E got \in SUBSET m.sats :
         /\ Room(m, had, got)
         /\ obs' = {o \in had : o.sat \notin got} \union Obs(got, t)
         /\ first' = t /\ took' = took \union got

\* rtcm->obsflag is left at 0 by a reset and by the kind "l1".
Flag(m, t) ==
  IF m.kind = "l1"
  THEN obsflag /\ (m.sats = {} \/ Cardinality(obs) >= MaxObs)
  ELSE ~m.sync

\* Mutant: an epoch is handed on with every message.
GiveAll(m, t) == given' = [n |-> (given.n + 1) % 2, time |-> first', obs |-> obs']

\* upd_rtcm_data, ret==1
Give(m, t) ==
  IF m.sync THEN UNCHANGED given
  ELSE given' = [n |-> (given.n + 1) % 2, time |-> first', obs |-> obs']

Receive ==
  LET m == Head(todo)
      t == TimeOf(m) IN
  /\ todo # <<>> /\ todo' = Tail(todo) /\ speaker' = sta
  /\ IF StationFits /\ (m.kind = "msm" => Cardinality(m.sats) <= MaxCell)
     THEN /\ time' = t /\ staid' = (IF staid = 0 \/ obsflag THEN sta ELSE staid)
          /\ Save(m, t) /\ obsflag' = Flag(m, t) /\ Give(m, t)
          /\ heard' = now /\ calm' = Calm(m)
     ELSE \* an MSM message has set the time when it is turned away
          /\ staid' = IF ~StationFits THEN 0 ELSE IF staid = 0 \/ obsflag THEN sta ELSE staid
          /\ IF m.kind = "msm"
             THEN time' = t /\ heard' = now /\ calm' = Calm(m)
             ELSE UNCHANGED <<time, heard, calm>>
          /\ UNCHANGED <<first, obs, obsflag, given, took>>
  /\ UNCHANGED <<now, epochs, sta, sent, whole, crowded, torn>>

Next == NewEpoch \/ ChangeOver \/ Lose \/ Receive

Spec == Init /\ [][Next]_vars

-----------------------------------------------------------------------------
Message == [kind : {"basic", "l1", "l12", "msm"}, glo : BOOLEAN, sats : SUBSET Sats, sync : BOOLEAN]
Seen == [sat : Sats, time : Int, at : Nat, from : Stations]

TypeOK ==
  /\ now \in Nat /\ epochs \in 0 .. MaxEpoch /\ sta \in Stations
  /\ todo \in Seq(Message) /\ time \in Int /\ first \in Int
  /\ obs \subseteq Seen /\ Cardinality(obs) <= MaxObs
  /\ \A o, p \in obs : o.sat = p.sat => o = p
  /\ obsflag \in BOOLEAN /\ staid \in Stations \union {0}
  /\ given.n \in 0 .. 1 /\ given.time \in Int /\ given.obs \subseteq Seen
  /\ sent \subseteq Sats /\ took \subseteq Sats
  /\ whole \in BOOLEAN /\ crowded \in BOOLEAN
  /\ heard \in Nat /\ speaker \in Stations \union {0}
  /\ calm \in BOOLEAN /\ torn \in BOOLEAN

\* The week and the day are right as long as the stream does not pause for half of
\* one or more.  After that they stay wrong.
TimeRight == calm => time = heard

\* An epoch that is handed on is of one time, whatever was lost before or in it.
OneEpoch == calm => \A o, p \in given.obs : o.at = p.at /\ o.time = given.time

\* It is of one station also when the last message comes from another: the test
\* of the ids turns the first message of a station away, but not the second.
OneStation == (calm /\ ~torn) => \A o, p \in given.obs : o.from = p.from

\* What every epoch that is handed on is marked with is right: its time, and its
\* station (rtcm3.c:128, :213).
EpochSound == TypeOK /\ TimeRight /\ OneStation

\* An epoch none of whose messages was lost is handed on with all its satellites,
\* unless it does not fit, the one before was full and there are messages of the
\* older kinds, which are then skipped, or a system fills more than the cells of
\* one message, over which rtcm_encode_obs does not go (encoder.c:167).
Complete ==
  (todo = <<>> /\ epochs > 0 /\ whole /\ calm /\ ~torn /\ ~crowded
     /\ sent # {} /\ Cardinality(sent) <= MaxObs
     /\ \A s \in sent : Cardinality({r \in sent : System(r) = System(s)}) <= MaxCell)
  => given.time = now /\ {o.sat : o \in given.obs} = sent

\* No epoch is handed on again, unless one ends of which no satellite was taken.
OnceEach ==
  [][(given' # given /\ calm') => given'.time > given.time \/ took' = {}]_vars

=============================================================================
