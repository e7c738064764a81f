---------------------------- MODULE RtcmObsProofs ----------------------------
(***************************************************************************)
(* Proofs about what the server makes of the messages of a stream: the     *)
(* epochs of RtcmObs, the ephemerides of EphStore and the slips of         *)
(* SlipChain.  The theorems hold for any satellites, stations, streams,    *)
(* layouts of epochs and bounds.                                           *)
(***************************************************************************)
EXTENDS RtcmObs, FiniteSetTheorems, TLAPS

\* The messages of an epoch that are still to come: all but the last one say that
\* more follow, and those of the MSM kinds have satellites of one system each.
Announced ==
  \A i \in DOMAIN todo :
    /\ todo[i].sync <=> i # Len(todo)
    /\ todo[i].kind = "msm" => \A s, r \in todo[i].sats : System(s) = System(r)

\* Times: with no pause, what is in the observations is of the time and the moment
\* that they are marked with, and that is the present once a satellite was taken.
Times ==
  /\ now > 0 /\ heard <= now
  /\ \A o \in obs : o.at <= now
  /\ calm => /\ time = heard
             /\ first <= now /\ given.time <= now
             /\ todo # <<>> => given.time < now
             /\ \A o \in obs : o.time = first /\ o.at = first
             /\ took # {} => first = now

\* Observations of the epoch on its way are kept for its next message.
Kept == \A o \in obs : todo # <<>> /\ o.at = now => ~obsflag

\* And with one station for an epoch but for its last message, they are those of the
\* station that the decoder knows.
Marked ==
  calm /\ ~torn =>
    /\ \A o, p \in obs : o.from = p.from
    /\ \A o \in obs : todo # <<>> /\ o.at = now =>
         o.from = staid /\ (o.from # sta => Len(todo) = 1)

\* The decoder knows the station of the last message or none.
Known == staid \in {0, speaker} /\ (whole => speaker \in {0, sta})

\* The epoch handed on last.
Handed ==
  /\ calm => \A o \in given.obs : o.at = given.time /\ o.time = given.time
  /\ OneStation

\* The satellites of the epoch on its way that are in the observations.
Here == {o.sat : o \in {x \in obs : x.at = now}}

\* An epoch that Complete is about.
Fits == /\ Cardinality(sent) <= MaxObs
        /\ \A s \in sent : Cardinality({r \in sent : System(r) = System(s)}) <= MaxCell
Undisturbed == whole /\ calm /\ ~torn /\ ~crowded /\ Fits

\* Nothing of it is missing: what is not in the observations is still to come, room
\* is left for it, and after the last message all of it was handed on.
Progress ==
  Undisturbed =>
    /\ sent = Here \union SatsOf(todo)
    /\ \/ Cardinality(obs) < MaxObs
       \/ \A o \in obs : o.at = now
       \/ \A i \in DOMAIN todo : ~Legacy(todo[i])
    /\ todo = <<>> /\ sent # {} => given.time = now /\ {o.sat : o \in given.obs} = sent

ObsInv == /\ TypeOK
          /\ Announced /\ Times /\ Kept /\ Marked /\ Known /\ Handed /\ Progress

-----------------------------------------------------------------------------
(* The times of messages.                                                  *)

LEMMA Numbers ==
  /\ Week \in Nat \ {0} /\ Day \in Nat \ {0} /\ MaxObs \in Nat \ {0}
  /\ MaxCell \in Nat /\ MaxEpoch \in Nat
  /\ \A g \in Gaps : g \in Nat /\ g > 0
  /\ \A s \in Stations : s \in Nat /\ s > 0
<1>1. Gaps \subseteq Nat \ {0} /\ Stations \subseteq Nat \ {0}
  BY RtcmObsAssumption, Zenon
<1> QED BY ONLY <1>1, RtcmObsAssumption DEF RtcmObsAssumption

\* An integer of which a multiple is between the negative and twice the factor.
LEMMA NoOrOne ==
  ASSUME NEW P \in Nat \ {0}, NEW d \in Int, P * d > -P, P * d < 2 * P
  PROVE  d \in {0, 1}
<1>1. CASE d >= 2
  <2>1. P * d >= P * 2
    BY <1>1
  <2> QED BY <2>1
<1>2. CASE d <= -1
  <2>1. P * d <= P * (-1)
    BY <1>2
  <2> QED BY <2>1
<1> QED BY <1>1, <1>2

\* The quotient and the rest.
LEMMA Division ==
  ASSUME NEW P \in Nat \ {0}, NEW t \in Int
  PROVE  /\ t \div P \in Int /\ t % P \in 0 .. P - 1
         /\ t = P * (t \div P) + (t % P)
OBVIOUS

\* adjweek and adjday_glot (rtcm3.c:121-132): the time of a message is right if the
\* last one is less than half a period ago.
LEMMA NearestRight ==
  ASSUME NEW P \in Nat \ {0}, time \in Int, NEW t \in Int,
         time <= t, 2 * (t - time) < P
  PROVE  Nearest(t, P) = t
<1> DEFINE q == time \div P
           r == t \div P
           p == time % P
           x == t % P
<1>1. /\ q \in Int /\ r \in Int /\ p \in 0 .. P - 1 /\ x \in 0 .. P - 1
      /\ time = P * q + p /\ t = P * r + x
  BY Division
<1>2. P * (r - q) = (t - time) + p - x
  BY <1>1
<1> HIDE DEF q, r, p, x
<1>3. P * (r - q) > -P /\ P * (r - q) < 2 * P
  BY <1>1, <1>2
<1>4. r - q \in {0, 1}
  BY <1>1, <1>3, NoOrOne
<1>5. Nearest(t, P) = IF time = 0 THEN t
                      ELSE IF 2 * x + P < 2 * p THEN q * P + x + P
                      ELSE IF 2 * x > 2 * p + P THEN q * P + x - P
                      ELSE q * P + x
  BY DEF Nearest, q, p, x
<1>6. CASE r = q
  <2>1. P * (r - q) = 0
    BY <1>1, <1>6
  <2>2. x - p = t - time /\ q * P + x = t
    BY <1>1, <1>2, <1>6, <2>1
  <2>3. ~(2 * x + P < 2 * p) /\ ~(2 * x > 2 * p + P)
    BY <1>1, <2>2
  <2> QED BY <1>5, <2>2, <2>3
<1>7. CASE r = q + 1
  <2>1. P * (r - q) = P
    BY <1>1, <1>7
  <2>2. P + x - p = t - time
    BY <1>1, <1>2, <2>1
  <2>3. 2 * x + P < 2 * p
    BY <1>1, <2>2
  <2>4. q * P + x + P = t
    <3>1. q * P = time - p
      BY <1>1
    <3> QED BY <1>1, <2>2, <3>1
  <2> QED BY <1>5, <2>3, <2>4
<1> QED BY <1>1, <1>4, <1>6, <1>7

\* It is an integer in any case.
LEMMA NearestType ==
  ASSUME NEW P \in Nat \ {0}, time \in Int, NEW t \in Int
  PROVE  Nearest(t, P) \in Int
<1> DEFINE q == time \div P
           p == time % P
           x == t % P
<1>1. q \in Int /\ p \in 0 .. P - 1 /\ x \in 0 .. P - 1 /\ q * P \in Int
  BY Division
<1> HIDE DEF q, p, x
<1>2. Nearest(t, P) = IF time = 0 THEN t
                      ELSE IF 2 * x + P < 2 * p THEN q * P + x + P
                      ELSE IF 2 * x > 2 * p + P THEN q * P + x - P
                      ELSE q * P + x
  BY DEF Nearest, q, p, x
<1> QED BY <1>1, <1>2

\* The time of a message.
LEMMA TimeOfMessage ==
  ASSUME TypeOK, Times, NEW m
  PROVE  /\ TimeOf(m) \in Int
         /\ Calm(m) => calm /\ TimeOf(m) = now
<1> DEFINE P == IF m.glo THEN Day ELSE Week
<1>1. P \in Nat \ {0}
  BY RtcmObsAssumption
<1>2. time \in Int /\ now \in Nat /\ heard \in Nat /\ TimeOf(m) = Nearest(now, P)
  BY DEF TypeOK, TimeOf
<1> HIDE DEF P
<1>3. TimeOf(m) \in Int
  BY <1>1, <1>2, NearestType
<1>4. ASSUME Calm(m) PROVE calm /\ TimeOf(m) = now
  <2>1. calm /\ (heard = 0 \/ 2 * (now - heard) < P)
    BY <1>4 DEF Calm, P
  <2>2. time = heard /\ heard <= now
    BY <2>1 DEF Times
  <2>3. CASE time = 0
    <3>1. Nearest(now, P) = now
      BY <2>3 DEF Nearest
    <3> QED BY <1>2, <2>1, <3>1
  <2>4. CASE time # 0
    BY <1>1, <1>2, <2>1, <2>2, <2>4, NearestRight
  <2> QED BY <2>3, <2>4
<1> QED BY <1>3, <1>4

-----------------------------------------------------------------------------
(* The messages of an epoch.                                               *)

LEMMA MessageType ==
  ASSUME NEW k \in {"basic", "l1", "l12", "msm"}, NEW g \in BOOLEAN,
         NEW C \in SUBSET Sats, NEW y \in BOOLEAN,
         NEW m, m = [kind |-> k, glo |-> g, sats |-> C, sync |-> y]
  PROVE  m \in Message /\ m.kind = k /\ m.sats = C /\ (m.sync <=> y)
BY DEF Message

LEMMA FunctionIsSeq ==
  ASSUME NEW T, NEW n \in Nat, NEW f \in [1 .. n -> T]
  PROVE  f \in Seq(T) /\ Len(f) = n
OBVIOUS

\* What the stations and the server send says of every message but the last that
\* more follow (encoder.c:147-170).
LEMMA EpochMessages ==
  ASSUME NEW ms \in {Messages(l) : l \in Layouts} \union {Encode(C) : C \in Coded}
  PROVE  /\ ms \in Seq(Message)
         /\ \A i \in DOMAIN ms :
              /\ ms[i].sync <=> i # Len(ms)
              /\ ms[i].kind = "msm" => \A s, r \in ms[i].sats : System(s) = System(r)
<1>1. ASSUME NEW l \in Layouts, ms = Messages(l)
      PROVE  /\ ms \in Seq(Message)
             /\ \A i \in DOMAIN ms :
                  /\ ms[i].sync <=> i # Len(ms)
                  /\ ms[i].kind = "msm" => \A s, r \in ms[i].sats : System(s) = System(r)
  <2> DEFINE Item == [kind : {"basic", "l1", "l12", "msm"}, glo : BOOLEAN, sats : SUBSET Sats]
  <2>1. /\ l \in Seq(Item)
        /\ \A i \in DOMAIN l : l[i].kind = "msm" => \A s, r \in l[i].sats : System(s) = System(r)
    BY RtcmObsAssumption
  <2>2. /\ Len(l) \in Nat /\ DOMAIN l = 1 .. Len(l)
        /\ \A i \in DOMAIN l : l[i] \in Item
    <3> HIDE DEF Item
    <3> QED BY <2>1
  <2>3. /\ DOMAIN ms = DOMAIN l
        /\ \A i \in DOMAIN l : ms[i] = [kind |-> l[i].kind, glo |-> l[i].glo,
                                         sats |-> l[i].sats, sync |-> i # Len(l)]
    BY <1>1 DEF Messages
  <2>4. \A i \in DOMAIN l : /\ ms[i] \in Message
                            /\ ms[i].sync <=> i # Len(l)
                            /\ ms[i].kind = l[i].kind /\ ms[i].sats = l[i].sats
    <3> SUFFICES ASSUME NEW i \in DOMAIN l
                 PROVE  /\ ms[i] \in Message
                        /\ ms[i].sync <=> i # Len(l)
                        /\ ms[i].kind = l[i].kind /\ ms[i].sats = l[i].sats
      OBVIOUS
    <3>1. /\ l[i].kind \in {"basic", "l1", "l12", "msm"} /\ l[i].glo \in BOOLEAN
          /\ l[i].sats \in SUBSET Sats /\ (i # Len(l)) \in BOOLEAN
      BY <2>2
    <3>2. ms[i] = [kind |-> l[i].kind, glo |-> l[i].glo, sats |-> l[i].sats,
                   sync |-> i # Len(l)]
      BY <2>3
    <3> DEFINE y == i # Len(l)
    <3>3. y \in BOOLEAN /\ ms[i] = [kind |-> l[i].kind, glo |-> l[i].glo, sats |-> l[i].sats,
                                   sync |-> y]
      BY <3>2
    <3> HIDE DEF y
    <3>4. ms[i] \in Message /\ ms[i].kind = l[i].kind /\ ms[i].sats = l[i].sats
          /\ (ms[i].sync <=> y)
      BY <3>1, <3>3, MessageType
    <3> QED BY <3>4 DEF y
  <2>5. ms \in [1 .. Len(l) -> Message]
    <3>1. ms = [i \in DOMAIN l |-> ms[i]]
      BY <1>1 DEF Messages
    <3> QED BY <2>2, <2>4, <3>1
  <2>6. ms \in Seq(Message) /\ Len(ms) = Len(l)
    BY <2>2, <2>5
  <2> QED BY <2>1, <2>3, <2>4, <2>6
<1>2. ASSUME NEW C \in Coded, ms = Encode(C)
      PROVE  /\ ms \in Seq(Message)
             /\ \A i \in DOMAIN ms :
                  /\ ms[i].sync <=> i # Len(ms)
                  /\ ms[i].kind = "msm" => \A s, r \in ms[i].sats : System(s) = System(r)
  <2> DEFINE n == Len(TypeOrder)
  <2>1. n \in Nat /\ C \subseteq Sats
    BY RtcmObsAssumption
  <2>2. /\ DOMAIN ms = 1 .. n
        /\ \A i \in 1 .. n : ms[i] = [kind |-> "msm", glo |-> TypeOrder[i] = "GLO",
                                      sats |-> {s \in C : System(s) = TypeOrder[i]},
                                      sync |-> i # n]
    BY <1>2 DEF Encode
  <2>3. \A i \in 1 .. n : /\ ms[i] \in Message
                          /\ ms[i].sync <=> i # n
                          /\ ms[i].sats = {s \in C : System(s) = TypeOrder[i]}
    <3> SUFFICES ASSUME NEW i \in 1 .. n
                 PROVE  /\ ms[i] \in Message
                        /\ ms[i].sync <=> i # n
                        /\ ms[i].sats = {s \in C : System(s) = TypeOrder[i]}
      OBVIOUS
    <3> DEFINE G == {s \in C : System(s) = TypeOrder[i]}
    <3>1. G \in SUBSET Sats
      BY <2>1
    <3>2. ms[i] = [kind |-> "msm", glo |-> TypeOrder[i] = "GLO", sats |-> G, sync |-> i # n]
      BY <2>2
    <3> HIDE DEF G
    <3>3. ms[i] \in Message /\ (ms[i].sync <=> i # n) /\ ms[i].sats = G
      <4> DEFINE g == TypeOrder[i] = "GLO"
                 y == i # n
      <4>1. g \in BOOLEAN /\ y \in BOOLEAN /\ "msm" \in {"basic", "l1", "l12", "msm"}
        OBVIOUS
      <4>2. ms[i] = [kind |-> "msm", glo |-> g, sats |-> G, sync |-> y]
        BY <3>2
      <4> HIDE DEF g, y
      <4>3. ms[i] \in Message /\ (ms[i].sync <=> y) /\ ms[i].sats = G
        BY <3>1, <4>1, <4>2, MessageType
      <4> QED BY <4>3 DEF y
    <3> QED BY <3>3 DEF G
  <2>4. ms \in [1 .. n -> Message]
    <3>1. ms = [i \in 1 .. n |-> ms[i]]
      BY <1>2 DEF Encode
    <3> QED BY <2>3, <3>1
  <2>5. ms \in Seq(Message) /\ Len(ms) = n
    BY <2>1, <2>4, FunctionIsSeq
  <2> HIDE DEF n
  <2>6. \A i \in 1 .. n : \A s, r \in ms[i].sats : System(s) = System(r)
    BY <2>3
  <2> QED BY <2>2, <2>3, <2>5, <2>6
<1> QED BY <1>1, <1>2

\* The satellites of messages that are decoded.
Decoded(m) == IF m.kind = "basic" THEN {} ELSE m.sats

LEMMA SatsAre ==
  ASSUME NEW ms \in Seq(Message)
  PROVE  SatsOf(ms) = UNION {Decoded(ms[i]) : i \in DOMAIN ms} /\ SatsOf(ms) \subseteq Sats
<1>1. \A i \in DOMAIN ms : ms[i] \in Message
  OBVIOUS
<1>2. SatsOf(ms) \subseteq Sats
  BY <1>1 DEF SatsOf, Message
<1>3. ASSUME NEW s PROVE s \in SatsOf(ms) <=> \E i \in DOMAIN ms : s \in Decoded(ms[i])
  BY DEF SatsOf, Decoded
<1> QED BY <1>2, <1>3

\* The first message and the others.
LEMMA HeadTail ==
  ASSUME NEW ms \in Seq(Message), ms # <<>>
  PROVE  /\ Head(ms) \in Message /\ Tail(ms) \in Seq(Message)
         /\ Head(ms) = ms[1] /\ Len(Tail(ms)) = Len(ms) - 1 /\ Len(ms) \in Nat \ {0}
         /\ \A i \in DOMAIN Tail(ms) : i + 1 \in DOMAIN ms /\ Tail(ms)[i] = ms[i + 1]
         /\ Tail(ms) = <<>> <=> Len(ms) = 1
         /\ SatsOf(ms) = Decoded(Head(ms)) \union SatsOf(Tail(ms))
<1>1. /\ Head(ms) \in Message /\ Tail(ms) \in Seq(Message)
      /\ Head(ms) = ms[1] /\ Len(Tail(ms)) = Len(ms) - 1 /\ Len(ms) \in Nat \ {0}
  OBVIOUS
<1>2. \A i \in DOMAIN Tail(ms) : i + 1 \in DOMAIN ms /\ Tail(ms)[i] = ms[i + 1]
  OBVIOUS
<1>3. Tail(ms) = <<>> <=> Len(ms) = 1
  BY <1>1
<1>4. \A i \in DOMAIN ms : i # 1 => i - 1 \in DOMAIN Tail(ms) /\ Tail(ms)[i - 1] = ms[i]
  OBVIOUS
<1>5. 1 \in DOMAIN ms
  OBVIOUS
<1>6. ASSUME NEW s
      PROVE  s \in SatsOf(ms) <=> s \in Decoded(Head(ms)) \/ s \in SatsOf(Tail(ms))
  <2>1. /\ s \in SatsOf(ms) <=> \E i \in DOMAIN ms : s \in Decoded(ms[i])
        /\ s \in SatsOf(Tail(ms)) <=> \E i \in DOMAIN Tail(ms) : s \in Decoded(Tail(ms)[i])
    <3>1. \A q \in Seq(Message) : s \in SatsOf(q) <=> \E i \in DOMAIN q : s \in Decoded(q[i])
      BY SatsAre
    <3> QED BY <1>1, <3>1
  <2>2. ASSUME NEW i \in DOMAIN ms, s \in Decoded(ms[i])
        PROVE  s \in Decoded(Head(ms)) \/ s \in SatsOf(Tail(ms))
    BY <1>1, <1>4, <2>1, <2>2
  <2>3. s \in Decoded(Head(ms)) => s \in SatsOf(ms)
    BY <1>1, <1>5, <2>1
  <2>4. s \in SatsOf(Tail(ms)) => s \in SatsOf(ms)
    BY <1>2, <2>1
  <2> QED BY <2>1, <2>2, <2>3, <2>4
<1> QED BY <1>1, <1>2, <1>3, <1>6

-----------------------------------------------------------------------------
(* Observations, one of a satellite.                                       *)

SatsIn(O) == {o.sat : o \in O}

LEMMA OnePerSat ==
  ASSUME NEW O \in SUBSET Seen, \A o, p \in O : o.sat = p.sat => o = p
  PROVE  /\ IsFiniteSet(O) /\ Cardinality(O) \in Nat
         /\ SatsIn(O) \subseteq Sats /\ IsFiniteSet(SatsIn(O)) /\ Cardinality(SatsIn(O)) \in Nat
         /\ Cardinality(O) <= Cardinality(SatsIn(O))
<1>1. \A o \in O : o.sat \in Sats
  BY DEF Seen
<1>2. SatsIn(O) \subseteq Sats
  BY <1>1 DEF SatsIn
<1>3. IsFiniteSet(SatsIn(O)) /\ Cardinality(SatsIn(O)) \in Nat
  BY <1>2, RtcmObsAssumption, FS_Subset, FS_CardinalityType
<1> DEFINE f == [o \in O |-> o.sat]
<1>4. f \in [O -> SatsIn(O)]
  BY DEF SatsIn
<1>5. \A o, p \in O : f[o] = f[p] => o = p
  OBVIOUS
<1>6. f \in Injection(O, SatsIn(O))
  BY <1>4, <1>5 DEF Injection, IsInjective
<1> HIDE DEF f
<1>7. IsFiniteSet(O) /\ Cardinality(O) <= Cardinality(SatsIn(O))
  BY <1>3, <1>6, FS_Injection
<1>8. Cardinality(O) \in Nat
  BY <1>7, FS_CardinalityType
<1> QED BY <1>2, <1>3, <1>7, <1>8

-----------------------------------------------------------------------------
(* A message that comes.                                                   *)

Msg == Head(todo)
At == TimeOf(Msg)
Had == IF Stale(At) THEN {} ELSE obs
Full(m) == Legacy(m) /\ Cardinality(obs) >= MaxObs
Skips(m) == m.kind = "basic" \/ m.sats = {} \/ Full(m)
Accepts(m) == StationFits /\ (m.kind = "msm" => Cardinality(m.sats) <= MaxCell)

\* What every message does, the satellites that are taken, none, and what follows
\* when it is accepted and when it is turned away.
Comes == /\ todo # <<>> /\ todo' = Tail(todo) /\ speaker' = sta
         /\ now' = now /\ epochs' = epochs /\ sta' = sta /\ sent' = sent
         /\ whole' = whole /\ crowded' = crowded /\ torn' = torn
SavedOf(got) == /\ ~Skips(Msg) /\ got \subseteq Msg.sats /\ Room(Msg, Had, got)
                /\ obs' = {o \in Had : o.sat \notin got} \union Obs(got, At)
                /\ first' = At /\ took' = took \union got
NoneSaved == Skips(Msg) /\ obs' = obs /\ first' = first /\ took' = took
Accepted == /\ Accepts(Msg)
            /\ NoneSaved \/ \E got \in SUBSET Msg.sats : SavedOf(got)
            /\ time' = At /\ heard' = now /\ calm' = Calm(Msg)
            /\ staid' = IF staid = 0 \/ obsflag THEN sta ELSE staid
            /\ obsflag' = Flag(Msg, At) /\ Give(Msg, At)
TurnedAway == /\ ~Accepts(Msg)
              /\ first' = first /\ obs' = obs /\ obsflag' = obsflag /\ given' = given
              /\ took' = took
              /\ \/ time' = At /\ heard' = now /\ calm' = Calm(Msg)
                 \/ time' = time /\ heard' = heard /\ calm' = calm
              /\ staid' = IF ~StationFits THEN 0
                          ELSE IF staid = 0 \/ obsflag THEN sta ELSE staid

LEMMA ReceiveIs == ASSUME Receive PROVE Comes /\ (Accepted \/ TurnedAway)
<1>1. Comes
  BY DEF Receive, Comes
<1>2. CASE Accepts(Msg)
  <2>1. /\ time' = At /\ heard' = now /\ calm' = Calm(Msg)
        /\ staid' = (IF staid = 0 \/ obsflag THEN sta ELSE staid)
        /\ obsflag' = Flag(Msg, At) /\ Give(Msg, At) /\ Save(Msg, At)
    BY <1>2 DEF Receive, Accepts, Msg, At
  <2>2. CASE Skips(Msg)
    <3>1. obs' = obs /\ first' = first /\ took' = took
      BY <2>1, <2>2 DEF Save, Skips, Full
    <3> QED BY ONLY <1>1, <1>2, <2>1, <2>2, <3>1, Zenon DEF Accepted, NoneSaved
  <2>3. CASE ~Skips(Msg)
    <3>1. PICK got \in SUBSET Msg.sats :
            /\ Room(Msg, Had, got)
            /\ obs' = {o \in Had : o.sat \notin got} \union Obs(got, At)
            /\ first' = At /\ took' = took \union got
      BY <2>1, <2>3 DEF Save, Skips, Full, Had
    <3>2. SavedOf(got)
      BY <2>3, <3>1 DEF SavedOf
    <3> QED BY ONLY <1>1, <1>2, <2>1, <3>2, Zenon DEF Accepted
  <2> QED BY <2>2, <2>3
<1>3. CASE ~Accepts(Msg)
  <2>1. /\ staid' = (IF ~StationFits THEN 0
                     ELSE IF staid = 0 \/ obsflag THEN sta ELSE staid)
        /\ first' = first /\ obs' = obs /\ obsflag' = obsflag /\ given' = given
        /\ took' = took
    BY <1>3 DEF Receive, Accepts, Msg
  <2>2. \/ time' = At /\ heard' = now /\ calm' = Calm(Msg)
        \/ time' = time /\ heard' = heard /\ calm' = calm
    BY <1>3 DEF Receive, Accepts, Msg, At
  <2> QED BY ONLY <1>1, <1>3, <2>1, <2>2, Zenon DEF TurnedAway
<1> QED BY <1>1, <1>2, <1>3

\* The observations after a message that is taken, as rtcm3.c:160-170 leaves them.
LEMMA SavedObs ==
  ASSUME TypeOK, Times, todo # <<>>, NEW got, SavedOf(got)
  PROVE  /\ obs' \subseteq Seen /\ got \subseteq Sats
         /\ \A o, p \in obs' : o.sat = p.sat => o = p
         /\ SatsIn(obs') = SatsIn(Had) \union got
         /\ Cardinality(obs') <= MaxObs
         /\ \A o \in obs' : o \in Had \/ (o.time = At /\ o.at = now /\ o.from = sta)
<1>1. /\ Msg \in Message /\ At \in Int /\ now \in Nat /\ sta \in Stations
      /\ Had \in SUBSET Seen /\ \A o, p \in Had : o.sat = p.sat => o = p
  BY HeadTail, TimeOfMessage DEF TypeOK, Msg, At, Had
<1>2. got \subseteq Sats
  BY <1>1 DEF SavedOf, Message
<1> DEFINE kept == {o \in Had : o.sat \notin got}
           added == Obs(got, At)
<1>3. obs' = kept \union added
  BY DEF SavedOf
<1>4. \A o \in kept : o \in Had /\ o \in Seen /\ o.sat \notin got
  BY <1>1
<1>5. \A o \in added : o \in Seen /\ o.sat \in got /\ o.time = At /\ o.at = now /\ o.from = sta
  BY <1>1, <1>2 DEF Obs, Seen
<1>6. \A s \in got : \E o \in added : o.sat = s
  <2> SUFFICES ASSUME NEW s \in got PROVE \E o \in added : o.sat = s
    OBVIOUS
  <2> DEFINE o == [sat |-> s, time |-> At, at |-> now, from |-> sta]
  <2>1. o \in added /\ o.sat = s
    BY DEF Obs
  <2> QED BY <2>1
<1>7. \A o, p \in added : o.sat = p.sat => o = p
  BY DEF Obs
<1> HIDE DEF kept, added
<1>8. \A o, p \in obs' : o.sat = p.sat => o = p
  BY <1>1, <1>3, <1>4, <1>5, <1>7
<1>9. obs' \in SUBSET Seen
  BY <1>3, <1>4, <1>5
<1>10. SatsIn(obs') = SatsIn(Had) \union got
  <2>1. \A s : s \in SatsIn(kept \union added) => s \in SatsIn(Had) \union got
    BY <1>4, <1>5 DEF SatsIn
  <2>2. \A s \in got : s \in SatsIn(kept \union added)
    BY <1>6 DEF SatsIn
  <2>3. \A s \in SatsIn(Had) \ got : s \in SatsIn(kept \union added)
    BY DEF SatsIn, kept
  <2> QED BY <1>3, <2>1, <2>2, <2>3
<1>11. Cardinality(obs') <= MaxObs
  <2>1. Cardinality(SatsIn(Had) \union got) <= MaxObs
    BY DEF SavedOf, Room, SatsIn
  <2>2. \A O \in SUBSET Seen : (\A o, p \in O : o.sat = p.sat => o = p) =>
          /\ Cardinality(O) \in Nat /\ Cardinality(SatsIn(O)) \in Nat
          /\ Cardinality(O) <= Cardinality(SatsIn(O))
    BY OnePerSat
  <2>3. /\ Cardinality(obs') \in Nat /\ Cardinality(SatsIn(obs')) \in Nat
        /\ Cardinality(obs') <= Cardinality(SatsIn(obs'))
    BY <1>8, <1>9, <2>2
  <2>4. MaxObs \in Nat
    BY RtcmObsAssumption
  <2> QED BY <1>10, <2>1, <2>3, <2>4
<1>12. \A o \in obs' : o \in Had \/ (o.time = At /\ o.at = now /\ o.from = sta)
  BY <1>3, <1>4, <1>5
<1> QED BY <1>2, <1>8, <1>9, <1>10, <1>11, <1>12

-----------------------------------------------------------------------------
(* The invariant holds at first and after what the stream does.            *)

LEMMA NoSats == SatsOf(<<>>) = {}
BY DEF SatsOf

LEMMA InitObs == Init => ObsInv
<1> SUFFICES ASSUME Init PROVE ObsInv
  OBVIOUS
<1>1. Cardinality({}) = 0
  BY FS_EmptySet
<1>2. 0 \in Nat /\ MaxObs \in Nat /\ MaxEpoch \in Nat /\ now \in Nat /\ now > 0
  BY Numbers DEF Init
<1>3. given.n = 0 /\ given.time = 0 /\ given.obs = {}
  BY DEF Init, Nothing
<1>4. TypeOK
  <2>1. /\ obs \subseteq Seen /\ Cardinality(obs) <= MaxObs
        /\ \A o, p \in obs : o.sat = p.sat => o = p
    BY <1>1, <1>2 DEF Init
  <2>2. /\ epochs \in 0 .. MaxEpoch /\ sta \in Stations /\ todo \in Seq(Message)
        /\ time \in Int /\ first \in Int /\ heard \in Nat
        /\ given.n \in 0 .. 1 /\ given.time \in Int /\ given.obs \subseteq Seen
    BY <1>2, <1>3 DEF Init
  <2>3. /\ obsflag \in BOOLEAN /\ staid \in Stations \union {0}
        /\ sent \subseteq Sats /\ took \subseteq Sats
        /\ whole \in BOOLEAN /\ crowded \in BOOLEAN /\ speaker \in Stations \union {0}
        /\ calm \in BOOLEAN /\ torn \in BOOLEAN
    BY DEF Init
  <2> QED BY <1>2, <2>1, <2>2, <2>3 DEF TypeOK
<1>5. Announced /\ Times /\ Kept /\ Marked
  BY <1>2, <1>3 DEF Init, Announced, Times, Kept, Marked
<1>6. Known /\ Handed
  BY <1>3 DEF Init, Known, Handed, OneStation
<1>7. Progress
  BY DEF Init, Progress, Undisturbed
<1> QED BY <1>4, <1>5, <1>6, <1>7 DEF ObsInv

\* An epoch on its way.
LEMMA NewEpochStep == ASSUME ObsInv, NewEpoch PROVE ObsInv'
<1>1. /\ todo = <<>> /\ epochs < MaxEpoch /\ sta' \in Stations /\ epochs' = epochs + 1
      /\ took' = {} /\ whole' = (speaker \in {0, sta'})
      /\ time' = time /\ first' = first /\ obs' = obs /\ obsflag' = obsflag
      /\ staid' = staid /\ given' = given
      /\ heard' = heard /\ speaker' = speaker /\ calm' = calm /\ torn' = torn
  BY DEF NewEpoch, decoder
<1>2. PICK g \in Gaps : now' = now + g
  BY DEF NewEpoch
<1>3. PICK ms \in {Messages(l) : l \in Layouts} \union {Encode(C) : C \in Coded} :
        /\ todo' = ms /\ sent' = SatsOf(ms)
        /\ crowded' = (Cardinality(obs) = MaxObs /\ \E i \in DOMAIN ms : Legacy(ms[i]))
  BY DEF NewEpoch
<1>4. /\ ms \in Seq(Message)
      /\ \A i \in DOMAIN ms :
           /\ ms[i].sync <=> i # Len(ms)
           /\ ms[i].kind = "msm" => \A s, r \in ms[i].sats : System(s) = System(r)
  BY EpochMessages
<1>5. now \in Nat /\ now' \in Nat /\ now' > now
  <2>1. g \in Nat /\ g > 0
    BY Numbers
  <2> QED BY <1>2, <2>1 DEF ObsInv, TypeOK
<1>6. sent' \subseteq Sats
  BY <1>3, <1>4, SatsAre
<1>7. TypeOK'
  <2>1. epochs' \in 0 .. MaxEpoch
    BY <1>1, RtcmObsAssumption DEF ObsInv, TypeOK
  <2>2. whole' \in BOOLEAN /\ crowded' \in BOOLEAN
    BY <1>1, <1>3
  <2>3. /\ obs' \subseteq Seen /\ Cardinality(obs') <= MaxObs
        /\ \A o, p \in obs' : o.sat = p.sat => o = p
        /\ given'.n \in 0 .. 1 /\ given'.time \in Int /\ given'.obs \subseteq Seen
    BY <1>1 DEF ObsInv, TypeOK
  <2>4. /\ obsflag' \in BOOLEAN /\ staid' \in Stations \union {0} /\ calm' \in BOOLEAN
        /\ torn' \in BOOLEAN /\ heard' \in Nat /\ speaker' \in Stations \union {0}
        /\ time' \in Int /\ first' \in Int
    BY <1>1 DEF ObsInv, TypeOK
  <2> QED BY <1>1, <1>3, <1>4, <1>5, <1>6, <2>1, <2>2, <2>3, <2>4 DEF TypeOK
<1>8. Announced'
  BY <1>3, <1>4 DEF Announced
<1>9. \A o \in obs' : o.at \in Nat /\ o.at <= now /\ o.at < now'
  BY <1>1, <1>5 DEF ObsInv, TypeOK, Times, Seen
<1>10. Times'
  <2>1. heard \in Nat /\ first \in Int /\ given.time \in Int
    BY DEF ObsInv, TypeOK
  <2>2. now' > 0 /\ heard' <= now' /\ \A o \in obs' : o.at <= now'
    BY <1>1, <1>5, <1>9, <2>1 DEF ObsInv, Times
  <2>3. calm' => first' <= now' /\ given'.time < now' /\ given'.time <= now'
    BY <1>1, <1>5, <2>1 DEF ObsInv, Times
  <2>4. calm' => time' = heard' /\ (\A o \in obs' : o.time = first' /\ o.at = first')
    BY <1>1 DEF ObsInv, Times
  <2> QED BY <1>1, <2>2, <2>3, <2>4 DEF Times
<1>11. Kept' /\ Marked' /\ Known' /\ Handed'
  <2>1. Kept'
    BY <1>5, <1>9 DEF Kept
  <2>2. Marked'
    <3>1. calm' /\ ~torn' => \A o, p \in obs' : o.from = p.from
      BY <1>1 DEF ObsInv, Marked
    <3>2. \A o \in obs' : o.at # now'
      BY <1>5, <1>9
    <3> QED BY <3>1, <3>2 DEF Marked
  <2> QED BY <1>1, <2>1, <2>2 DEF ObsInv, Known, Handed, OneStation
<1>12. Progress'
  <2> SUFFICES ASSUME Undisturbed'
               PROVE  /\ sent' = Here' \union SatsOf(todo')
                      /\ \/ Cardinality(obs') < MaxObs
                         \/ \A o \in obs' : o.at = now'
                         \/ \A i \in DOMAIN todo' : ~Legacy(todo'[i])
                      /\ todo' = <<>> /\ sent' # {} =>
                           given'.time = now' /\ {o.sat : o \in given'.obs} = sent'
    BY DEF Progress, Legacy, SatsOf
  <2>1. Here' = {}
    BY <1>5, <1>9 DEF Here
  <2>2. Cardinality(obs) \in Nat /\ Cardinality(obs) <= MaxObs /\ MaxObs \in Nat
    BY OnePerSat, RtcmObsAssumption DEF ObsInv, TypeOK
  <2>3. Cardinality(obs) < MaxObs \/ \A i \in DOMAIN ms : ~Legacy(ms[i])
    <3>1. ~(Cardinality(obs) = MaxObs /\ \E i \in DOMAIN ms : Legacy(ms[i]))
      BY <1>3, Zenon DEF Undisturbed
    <3>2. Cardinality(obs) = MaxObs \/ Cardinality(obs) < MaxObs
      BY ONLY <2>2
    <3> QED BY <3>1, <3>2, Zenon
  <2> QED BY <1>1, <1>3, <2>1, <2>3, NoSats
<1> QED BY <1>7, <1>8, <1>10, <1>11, <1>12 DEF ObsInv

\* What is left of the messages after the first.
LEMMA AnnouncedTail ==
  ASSUME todo \in Seq(Message), todo # <<>>, Announced, todo' = Tail(todo)
  PROVE  /\ todo' \in Seq(Message) /\ Announced'
         /\ todo' = <<>> <=> Len(todo) = 1
<1>1. /\ Tail(todo) \in Seq(Message) /\ Len(Tail(todo)) = Len(todo) - 1 /\ Len(todo) \in Nat \ {0}
      /\ \A i \in DOMAIN Tail(todo) : i + 1 \in DOMAIN todo /\ Tail(todo)[i] = todo[i + 1]
      /\ Tail(todo) = <<>> <=> Len(todo) = 1
  BY HeadTail
<1>2. \A i \in DOMAIN Tail(todo) : i \in Nat /\ (i + 1 # Len(todo) <=> i # Len(Tail(todo)))
  BY <1>1
<1>3. ASSUME NEW i \in DOMAIN Tail(todo)
      PROVE  /\ Tail(todo)[i].sync <=> i # Len(Tail(todo))
             /\ Tail(todo)[i].kind = "msm" =>
                  \A s, r \in Tail(todo)[i].sats : System(s) = System(r)
  BY <1>1, <1>2 DEF Announced
<1>4. Announced'
  BY <1>3 DEF Announced
<1> QED BY <1>1, <1>4

\* Another station takes over within an epoch.
LEMMA ChangeOverStep == ASSUME ObsInv, ChangeOver PROVE ObsInv'
<1>1. /\ todo # <<>> /\ ~torn /\ sta' \in Stations
      /\ torn' = (Len(todo) > 1) /\ whole' = FALSE
      /\ now' = now /\ epochs' = epochs /\ todo' = todo
      /\ time' = time /\ first' = first /\ obs' = obs /\ obsflag' = obsflag
      /\ staid' = staid /\ given' = given
      /\ sent' = sent /\ took' = took /\ crowded' = crowded
      /\ heard' = heard /\ speaker' = speaker /\ calm' = calm
  BY DEF ChangeOver, decoder
<1>2. TypeOK'
  <2>1. torn' \in BOOLEAN
    BY <1>1
  <2> QED BY <1>1, <2>1 DEF ObsInv, TypeOK
<1>3. Announced' /\ Times' /\ Kept' /\ Known'
  BY <1>1 DEF ObsInv, Announced, Times, Kept, Known
<1>4. Marked'
  <2>1. Len(todo) \in Nat /\ Len(todo) # 0
    BY <1>1 DEF ObsInv, TypeOK
  <2>2. ~torn' => Len(todo) = 1
    <3>1. ~torn' => ~(Len(todo) > 1)
      BY <1>1, Zenon
    <3> QED BY ONLY <2>1, <3>1
  <2>3. calm' /\ ~torn' =>
          /\ \A o, p \in obs' : o.from = p.from
          /\ \A o \in obs' : todo' # <<>> /\ o.at = now' => o.from = staid'
    BY <1>1 DEF ObsInv, Marked
  <2> QED BY <1>1, <2>2, <2>3 DEF Marked
<1>5. Handed'
  BY <1>1 DEF ObsInv, Handed, OneStation
<1>6. Progress'
  BY <1>1 DEF Progress, Undisturbed
<1> QED BY <1>2, <1>3, <1>4, <1>5, <1>6 DEF ObsInv

\* A message is lost.
LEMMA LoseStep == ASSUME ObsInv, Lose PROVE ObsInv'
<1>1. /\ todo # <<>> /\ todo' = Tail(todo) /\ whole' = FALSE
      /\ now' = now /\ epochs' = epochs /\ sta' = sta
      /\ time' = time /\ first' = first /\ obs' = obs /\ obsflag' = obsflag
      /\ staid' = staid /\ given' = given
      /\ sent' = sent /\ took' = took /\ crowded' = crowded
      /\ heard' = heard /\ speaker' = speaker /\ calm' = calm /\ torn' = torn
  BY DEF Lose, decoder
<1>2. todo' \in Seq(Message) /\ Announced' /\ (todo' = <<>> <=> Len(todo) = 1)
  BY <1>1, AnnouncedTail DEF ObsInv, TypeOK
<1>3. TypeOK'
  BY <1>1, <1>2 DEF ObsInv, TypeOK
<1>4. Times' /\ Kept' /\ Known'
  BY <1>1 DEF ObsInv, Times, Kept, Known
<1>5. Marked'
  BY <1>1, <1>2 DEF ObsInv, Marked
<1>6. Handed'
  BY <1>1 DEF ObsInv, Handed, OneStation
<1>7. Progress'
  BY <1>1 DEF Progress, Undisturbed
<1> QED BY <1>2, <1>3, <1>4, <1>5, <1>6, <1>7 DEF ObsInv

-----------------------------------------------------------------------------
(* The invariant after a message that comes.                               *)

LEMMA MsgFacts ==
  ASSUME ObsInv, todo # <<>>
  PROVE  /\ Msg \in Message /\ At \in Int /\ Msg = todo[1] /\ 1 \in DOMAIN todo
         /\ Calm(Msg) => calm /\ At = now
         /\ Msg.sync <=> Tail(todo) # <<>>
         /\ Msg.kind = "msm" => \A s, r \in Msg.sats : System(s) = System(r)
         /\ SatsOf(todo) = Decoded(Msg) \union SatsOf(Tail(todo))
<1>1. todo \in Seq(Message)
  BY DEF ObsInv, TypeOK
<1>2. /\ Msg \in Message /\ Msg = todo[1] /\ (Tail(todo) = <<>> <=> Len(todo) = 1)
      /\ SatsOf(todo) = Decoded(Msg) \union SatsOf(Tail(todo))
  BY <1>1, HeadTail DEF Msg
<1>3. 1 \in DOMAIN todo
  BY <1>1
<1>4. /\ Msg.sync <=> 1 # Len(todo)
      /\ Msg.kind = "msm" => \A s, r \in Msg.sats : System(s) = System(r)
  BY <1>2, <1>3 DEF ObsInv, Announced
<1>5. At \in Int /\ (Calm(Msg) => calm /\ At = now)
  BY TimeOfMessage DEF ObsInv, At
<1> QED BY <1>2, <1>3, <1>4, <1>5

\* What is the same after every message that is accepted.
AcceptedRest == /\ Accepts(Msg)
                /\ time' = At /\ heard' = now /\ calm' = Calm(Msg)
                /\ staid' = IF staid = 0 \/ obsflag THEN sta ELSE staid
                /\ obsflag' = Flag(Msg, At) /\ Give(Msg, At)

LEMMA AcceptedFacts ==
  ASSUME ObsInv, Comes, AcceptedRest
  PROVE  /\ staid' = sta /\ obsflag' \in BOOLEAN /\ calm' \in BOOLEAN
         /\ calm' => calm /\ At = now
         /\ todo' # <<>> => given' = given
         /\ todo' = <<>> => given'.n \in 0 .. 1 /\ given'.time = first' /\ given'.obs = obs'
         /\ todo' # <<>> /\ (Skips(Msg) => ~obsflag) => ~obsflag'
<1>1. /\ Msg \in Message /\ (Calm(Msg) => calm /\ At = now)
      /\ Msg.sync <=> todo' # <<>>
  BY MsgFacts DEF Comes
<1>2. staid' = sta
  BY DEF AcceptedRest, Accepts, StationFits
<1>3. calm' => calm /\ At = now
  BY <1>1 DEF AcceptedRest
<1>4. calm' \in BOOLEAN
  <2>1. Calm(Msg) \in BOOLEAN
    BY DEF ObsInv, TypeOK, Calm
  <2> QED BY <2>1 DEF AcceptedRest
<1>5. todo' # <<>> => given' = given
  BY <1>1 DEF AcceptedRest, Give
<1>6. ASSUME todo' = <<>>
      PROVE  given'.n \in 0 .. 1 /\ given'.time = first' /\ given'.obs = obs'
  <2>1. given' = [n |-> (given.n + 1) % 2, time |-> first', obs |-> obs']
    BY <1>1, <1>6 DEF AcceptedRest, Give
  <2>2. given.n \in 0 .. 1
    BY DEF ObsInv, TypeOK
  <2>3. (given.n + 1) % 2 \in 0 .. 1
    BY ONLY <2>2
  <2> QED BY <2>1, <2>3
<1>7. obsflag' \in BOOLEAN
  <2>1. obsflag \in BOOLEAN
    BY DEF ObsInv, TypeOK
  <2>2. CASE Msg.kind = "l1"
    <3>1. obsflag' = (obsflag /\ (Msg.sats = {} \/ Cardinality(obs) >= MaxObs))
      BY <2>2 DEF AcceptedRest, Flag
    <3> QED BY ONLY <2>1, <3>1
  <2>3. CASE Msg.kind # "l1"
    <3>1. obsflag' = ~Msg.sync
      BY <2>3 DEF AcceptedRest, Flag
    <3> QED BY <3>1
  <2> QED BY <2>2, <2>3
<1>8. ASSUME todo' # <<>>, Skips(Msg) => ~obsflag
      PROVE  ~obsflag'
  <2>1. CASE Msg.kind = "l1"
    <3>1. obsflag' = (obsflag /\ (Msg.sats = {} \/ Cardinality(obs) >= MaxObs))
      BY <2>1 DEF AcceptedRest, Flag
    <3>2. Msg.sats = {} \/ Cardinality(obs) >= MaxObs => Skips(Msg)
      BY <2>1 DEF Skips, Full, Legacy
    <3> QED BY <1>8, <3>1, <3>2
  <2>2. CASE Msg.kind # "l1"
    <3>1. obsflag' = ~Msg.sync
      BY <2>2 DEF AcceptedRest, Flag
    <3> QED BY <1>1, <1>8, <3>1
  <2> QED BY <2>1, <2>2
<1> QED BY <1>2, <1>3, <1>4, <1>5, <1>6, <1>7, <1>8

\* Whoever sends has a station id other than 0, and a decoder that accepts a message
\* within an epoch has observations of its station.
LEMMA SameStation ==
  ASSUME ObsInv, todo # <<>>, StationFits, calm, ~torn,
         NEW o \in obs, o.at = now
  PROVE  o.from = sta /\ staid = sta /\ ~obsflag
<1>1. o.from \in Stations /\ o.from # 0
  <2>1. o \in Seen
    BY DEF ObsInv, TypeOK
  <2>2. o.from \in Stations
    BY <2>1 DEF Seen
  <2> QED BY <2>2, Numbers
<1>2. ~obsflag /\ o.from = staid
  BY DEF ObsInv, Kept, Marked
<1> QED BY <1>1, <1>2 DEF StationFits

\* With no pause, what is in the observations when satellites of another message are
\* added is of the same epoch.
LEMMA HadNow ==
  ASSUME ObsInv, todo # <<>>, calm, At = now
  PROVE  /\ \A o \in Had : o \in obs /\ o.at = now /\ o.time = now
         /\ \A o \in obs : o.at = now => o \in Had
<1>1. \A o \in obs : o.time = first /\ o.at = first
  BY DEF ObsInv, Times
<1>2. ASSUME NEW o \in Had PROVE o \in obs /\ o.at = now /\ o.time = now
  <2>1. ~Stale(At) /\ o \in obs
    BY DEF Had
  <2>2. first = now
    BY <2>1 DEF Stale
  <2> QED BY <1>1, <2>1, <2>2
<1>3. ASSUME NEW o \in obs, o.at = now PROVE o \in Had
  <2>1. ~obsflag /\ first = now
    BY <1>1, <1>3 DEF ObsInv, Kept
  <2>2. ~Stale(At)
    BY <2>1 DEF Stale
  <2> QED BY <2>2 DEF Had
<1> QED BY <1>2, <1>3

\* The parts of the invariant that do not depend on which satellites are taken.
LEMMA AcceptedParts ==
  ASSUME ObsInv, Comes, AcceptedRest,
         obs' \subseteq Seen, \A o, p \in obs' : o.sat = p.sat => o = p,
         Cardinality(obs') <= MaxObs, first' \in Int, took' \subseteq Sats
  PROVE  TypeOK' /\ Announced' /\ Known'
<1>1. /\ staid' = sta /\ obsflag' \in BOOLEAN /\ calm' \in BOOLEAN
      /\ todo' # <<>> => given' = given
      /\ todo' = <<>> => given'.n \in 0 .. 1 /\ given'.time = first' /\ given'.obs = obs'
  BY AcceptedFacts
<1>2. todo' \in Seq(Message) /\ Announced'
  BY AnnouncedTail DEF ObsInv, TypeOK, Comes
<1>3. time' \in Int /\ heard' \in Nat
  <2>1. At \in Int /\ now \in Nat
    BY MsgFacts DEF ObsInv, TypeOK, Comes
  <2> QED BY <2>1 DEF AcceptedRest
<1>4. given'.n \in 0 .. 1 /\ given'.time \in Int /\ given'.obs \subseteq Seen
  <2>1. given.n \in 0 .. 1 /\ given.time \in Int /\ given.obs \subseteq Seen
    BY DEF ObsInv, TypeOK
  <2>2. CASE todo' = <<>>
    BY ONLY <1>1, <2>2, obs' \subseteq Seen, first' \in Int
  <2>3. CASE todo' # <<>>
    BY ONLY <1>1, <2>1, <2>3
  <2> QED BY <2>2, <2>3
<1>5. /\ sta \in Stations /\ now \in Nat /\ epochs \in 0 .. MaxEpoch /\ sent \subseteq Sats
      /\ whole \in BOOLEAN /\ crowded \in BOOLEAN /\ torn \in BOOLEAN
  BY DEF ObsInv, TypeOK
<1>6. TypeOK'
  BY <1>1, <1>2, <1>3, <1>4, <1>5 DEF TypeOK, Comes
<1>7. Known'
  BY <1>1 DEF Known, Comes
<1> QED BY <1>2, <1>6, <1>7

\* What is handed on with the last message is of one time and one station.
LEMMA HandedAfter ==
  ASSUME ObsInv, Comes, AcceptedRest, Times', Marked'
  PROVE  Handed'
<1>1. /\ calm' => calm
      /\ todo' # <<>> => given' = given
      /\ todo' = <<>> => given'.time = first' /\ given'.obs = obs'
  BY AcceptedFacts
<1>2. CASE todo' = <<>>
  <2>1. calm' => \A o \in obs' : o.time = first' /\ o.at = first'
    BY DEF Times
  <2>2. calm' /\ ~torn' => \A o, p \in obs' : o.from = p.from
    BY DEF Marked
  <2> QED BY <1>1, <1>2, <2>1, <2>2 DEF Handed, OneStation
<1>3. CASE todo' # <<>>
  <2>1. torn' = torn
    BY DEF Comes
  <2> QED BY <1>1, <1>3, <2>1 DEF ObsInv, Handed, OneStation
<1> QED BY <1>2, <1>3

\* A message of which satellites are taken.
LEMMA SavedStep ==
  ASSUME ObsInv, Comes, AcceptedRest, NEW got, SavedOf(got)
  PROVE  ObsInv'
<1>1. /\ todo # <<>> /\ todo' = Tail(todo) /\ now' = now /\ sta' = sta /\ sent' = sent
      /\ whole' = whole /\ crowded' = crowded /\ torn' = torn /\ first' = At
      /\ took' = took \union got /\ ~Skips(Msg)
  BY DEF Comes, SavedOf
<1>2. /\ obs' \subseteq Seen /\ got \subseteq Sats
      /\ \A o, p \in obs' : o.sat = p.sat => o = p
      /\ SatsIn(obs') = SatsIn(Had) \union got
      /\ Cardinality(obs') <= MaxObs
      /\ \A o \in obs' : o \in Had \/ (o.time = At /\ o.at = now /\ o.from = sta)
  BY <1>1, SavedObs DEF ObsInv
<1>3. /\ At \in Int /\ (Calm(Msg) => calm /\ At = now)
      /\ SatsOf(todo) = Decoded(Msg) \union SatsOf(todo')
  BY <1>1, MsgFacts
<1>4. /\ staid' = sta /\ (calm' => calm /\ At = now)
      /\ todo' # <<>> => given' = given /\ ~obsflag'
      /\ todo' = <<>> => given'.time = first' /\ given'.obs = obs'
  BY <1>1, AcceptedFacts
<1>5. TypeOK' /\ Announced' /\ Known'
  <2>1. took' \subseteq Sats /\ first' \in Int
    BY <1>1, <1>2, <1>3 DEF ObsInv, TypeOK
  <2> QED BY <1>2, <2>1, AcceptedParts
<1>6. calm' => \A o \in obs' : o.at = now /\ o.time = now
  BY <1>1, <1>2, <1>4, HadNow
<1>7. \A o \in obs' : o.at <= now
  <2>1. now \in Nat /\ \A o \in obs : o.at <= now
    BY DEF ObsInv, TypeOK, Times
  <2>2. \A o \in Had : o \in obs
    BY DEF Had
  <2> QED BY <1>2, <2>1, <2>2
<1>8. Times'
  <2>1. now > 0 /\ now \in Nat /\ heard' = now /\ time' = At
    BY DEF ObsInv, TypeOK, Times, AcceptedRest
  <2>2. calm' => /\ given.time < now /\ given.time \in Int
                 /\ first' = now /\ time' = heard'
    BY <1>1, <1>4, <2>1 DEF ObsInv, TypeOK, Times
  <2>3. calm' => given'.time <= now /\ (todo' # <<>> => given'.time < now)
    BY ONLY <1>4, <2>1, <2>2
  <2> QED BY <1>1, <1>6, <1>7, <2>1, <2>2, <2>3 DEF Times
<1>9. Kept'
  BY <1>4 DEF Kept
<1>10. Marked'
  <2>1. ASSUME calm', ~torn', NEW o \in obs' PROVE o.from = sta
    <3>1. calm /\ ~torn /\ At = now /\ StationFits
      BY <1>1, <1>4, <2>1 DEF AcceptedRest, Accepts
    <3>2. CASE o \in Had
      BY <1>1, <3>1, <3>2, HadNow, SameStation
    <3> QED BY <1>2, <3>2
  <2> QED BY <1>1, <1>4, <2>1 DEF Marked
<1>11. Handed'
  BY <1>8, <1>10, HandedAfter
<1>12. Progress'
  <2> SUFFICES ASSUME Undisturbed'
               PROVE  /\ sent = Here' \union SatsOf(todo')
                      /\ \A o \in obs' : o.at = now
                      /\ todo' = <<>> => given'.time = now /\ SatsIn(given'.obs) = sent
    BY <1>1 DEF Progress, SatsIn
  <2>1. calm' /\ calm /\ At = now /\ Undisturbed /\ Fits
    BY <1>1, <1>4 DEF Undisturbed, Fits
  <2>2. sent = Here \union Msg.sats \union SatsOf(todo')
    <3>1. Decoded(Msg) = Msg.sats
      BY <1>1 DEF Decoded, Skips
    <3> QED BY <1>3, <2>1, <3>1 DEF ObsInv, Progress
  <2>3. SatsIn(Had) = Here
    <3>1. /\ \A o \in Had : o \in obs /\ o.at = now
          /\ \A o \in obs : o.at = now => o \in Had
      BY <1>1, <2>1, HadNow
    <3> QED BY <3>1 DEF SatsIn, Here
  <2>4. Here' = Here \union got
    <3>1. Here' = SatsIn(obs')
      BY <1>1, <1>6, <2>1 DEF Here, SatsIn
    <3> QED BY <1>2, <2>3, <3>1
  <2>5. sent = Here' \union SatsOf(todo')
    <3>1. got \subseteq Msg.sats
      BY DEF SavedOf
    <3>2. got = Msg.sats \/ Cardinality(Here \union got) = MaxObs
      BY <2>3 DEF SavedOf, Room, SatsIn
    <3>3. CASE got = Msg.sats
      BY <2>2, <2>4, <3>3
    <3>4. CASE Cardinality(Here \union got) = MaxObs
      <4>1. IsFiniteSet(sent)
        BY RtcmObsAssumption, FS_Subset DEF ObsInv, TypeOK
      <4>2. Here \union got \subseteq sent
        BY <2>2, <3>1
      <4>3. Cardinality(sent) <= MaxObs
        BY <2>1 DEF Fits
      <4>4. /\ Cardinality(Here \union got) <= Cardinality(sent) /\ Cardinality(sent) \in Nat
            /\ Cardinality(Here \union got) = Cardinality(sent) => Here \union got = sent
        BY <4>1, <4>2, FS_Subset, FS_CardinalityType
      <4>5. Cardinality(sent) = MaxObs
        BY ONLY <3>4, <4>3, <4>4, Numbers
      <4>6. Here \union got = sent
        BY ONLY <3>4, <4>4, <4>5
      <4> QED BY <2>2, <2>4, <4>6
    <3> QED BY <3>2, <3>3, <3>4
  <2>6. ASSUME todo' = <<>> PROVE given'.time = now /\ SatsIn(given'.obs) = sent
    <3>1. given'.time = first' /\ given'.obs = obs' /\ first' = now
      BY <1>1, <1>4, <2>1, <2>6
    <3>2. Here' = SatsIn(obs')
      BY <1>1, <1>6, <2>1 DEF Here, SatsIn
    <3>3. sent = Here'
      BY <2>5, <2>6, NoSats
    <3>4. SatsIn(given'.obs) = SatsIn(obs')
      BY <3>1 DEF SatsIn
    <3> QED BY <3>1, <3>2, <3>3, <3>4
  <2> QED BY <1>6, <2>1, <2>5, <2>6
<1> QED BY <1>5, <1>8, <1>9, <1>10, <1>11, <1>12 DEF ObsInv

\* A message that none is taken of.
LEMMA SkippedStep ==
  ASSUME ObsInv, Comes, AcceptedRest, NoneSaved
  PROVE  ObsInv'
<1>1. /\ todo # <<>> /\ todo' = Tail(todo) /\ now' = now /\ sta' = sta /\ sent' = sent
      /\ whole' = whole /\ crowded' = crowded /\ torn' = torn
      /\ first' = first /\ obs' = obs /\ took' = took /\ Skips(Msg) /\ StationFits
  BY DEF Comes, NoneSaved, AcceptedRest, Accepts
<1>2. /\ todo \in Seq(Message) /\ Msg = todo[1] /\ 1 \in DOMAIN todo
      /\ SatsOf(todo) = Decoded(Msg) \union SatsOf(todo')
  BY <1>1, MsgFacts DEF ObsInv, TypeOK
<1>3. /\ staid' = sta /\ (calm' => calm /\ At = now)
      /\ todo' # <<>> => given' = given /\ (~obsflag => ~obsflag')
      /\ todo' = <<>> => given'.time = first' /\ given'.obs = obs'
  BY <1>1, AcceptedFacts
<1>4. TypeOK' /\ Announced' /\ Known'
  <2>1. /\ obs' \subseteq Seen /\ Cardinality(obs') <= MaxObs
        /\ \A o, p \in obs' : o.sat = p.sat => o = p
        /\ took' \subseteq Sats /\ first' \in Int
    BY <1>1 DEF ObsInv, TypeOK
  <2> QED BY <2>1, AcceptedParts
<1>5. Times'
  <2>1. now > 0 /\ now \in Nat /\ heard' = now /\ time' = At
    BY DEF ObsInv, TypeOK, Times, AcceptedRest
  <2>2. calm' => /\ given.time < now /\ given.time \in Int /\ first <= now
                 /\ time' = heard'
                 /\ \A o \in obs : o.time = first /\ o.at = first
                 /\ took # {} => first = now
    BY <1>1, <1>3, <2>1 DEF ObsInv, TypeOK, Times
  <2>3. calm' => given'.time <= now /\ (todo' # <<>> => given'.time < now)
    BY ONLY <1>1, <1>3, <2>1, <2>2
  <2>4. \A o \in obs : o.at <= now
    BY DEF ObsInv, Times
  <2> QED BY <1>1, <2>1, <2>2, <2>3, <2>4 DEF Times
<1>6. Kept'
  BY <1>1, <1>3 DEF ObsInv, Kept
<1>7. Marked'
  <2>1. calm' /\ ~torn' => \A o, p \in obs' : o.from = p.from
    BY <1>1, <1>3 DEF ObsInv, Marked
  <2>2. ASSUME calm', ~torn', NEW o \in obs', o.at = now PROVE o.from = sta
    BY <1>1, <1>3, <2>2, SameStation
  <2> QED BY <1>1, <1>3, <2>1, <2>2 DEF Marked
<1>8. Handed'
  BY <1>5, <1>7, HandedAfter
<1>9. Progress'
  <2> SUFFICES ASSUME Undisturbed'
               PROVE  /\ sent = Here' \union SatsOf(todo')
                      /\ \/ Cardinality(obs) < MaxObs
                         \/ \A o \in obs : o.at = now
                         \/ \A i \in DOMAIN todo' : ~Legacy(todo'[i])
                      /\ todo' = <<>> /\ sent # {} =>
                           given'.time = now /\ SatsIn(given'.obs) = sent
    BY <1>1 DEF Progress, SatsIn, Legacy, SatsOf
  <2>1. calm' /\ calm /\ Undisturbed /\ Fits
    BY <1>1, <1>3 DEF Undisturbed, Fits
  <2>2. /\ sent = Here \union Decoded(Msg) \union SatsOf(todo')
        /\ \/ Cardinality(obs) < MaxObs
           \/ \A o \in obs : o.at = now
           \/ \A i \in DOMAIN todo : ~Legacy(todo[i])
    BY <1>2, <2>1 DEF ObsInv, Progress
  <2>3. Here' = Here
    BY <1>1 DEF Here
  <2>4. sent = Here \union SatsOf(todo')
    <3>1. CASE Msg.kind = "basic" \/ Msg.sats = {}
      <4>1. Decoded(Msg) = {}
        BY <3>1 DEF Decoded
      <4> QED BY <2>2, <4>1
    <3>2. CASE Full(Msg)
      <4>1. Cardinality(obs) >= MaxObs /\ Legacy(todo[1])
        BY <1>2, <3>2 DEF Full
      <4>2. /\ Cardinality(obs) \in Nat /\ Cardinality(obs) <= Cardinality(SatsIn(obs))
            /\ Cardinality(SatsIn(obs)) \in Nat
        BY OnePerSat DEF ObsInv, TypeOK
      <4>3. \A o \in obs : o.at = now
        <5>1. ~(Cardinality(obs) < MaxObs)
          BY ONLY <4>1, <4>2, Numbers
        <5> QED BY <1>2, <2>2, <4>1, <5>1
      <4>4. SatsIn(obs) = Here
        BY <4>3 DEF SatsIn, Here
      <4>5. IsFiniteSet(sent) /\ Here \subseteq sent /\ Cardinality(sent) <= MaxObs
        BY <2>1, <2>2, RtcmObsAssumption, FS_Subset DEF ObsInv, TypeOK, Fits
      <4>6. /\ Cardinality(Here) <= Cardinality(sent) /\ Cardinality(sent) \in Nat
            /\ Cardinality(Here) = Cardinality(sent) => Here = sent
        BY <4>5, FS_Subset, FS_CardinalityType
      <4>7. Cardinality(Here) = Cardinality(sent)
        <5>1. Cardinality(Here) \in Nat /\ Cardinality(obs) <= Cardinality(Here)
          BY <4>2, <4>4
        <5> QED BY ONLY <4>1, <4>2, <4>5, <4>6, <5>1, Numbers
      <4> QED BY <2>2, <4>6, <4>7
    <3> QED BY <1>1, <3>1, <3>2 DEF Skips
  <2>5. \/ Cardinality(obs) < MaxObs
        \/ \A o \in obs : o.at = now
        \/ \A i \in DOMAIN todo' : ~Legacy(todo'[i])
    <3>1. \A i \in DOMAIN Tail(todo) : i + 1 \in DOMAIN todo /\ Tail(todo)[i] = todo[i + 1]
      BY <1>1, <1>2, HeadTail
    <3> QED BY <1>1, <2>2, <3>1
  <2>6. ASSUME todo' = <<>>, sent # {}
        PROVE  given'.time = now /\ SatsIn(given'.obs) = sent
    <3>1. given'.time = first /\ given'.obs = obs
      BY <1>1, <1>3, <2>6
    <3>2. sent = Here
      BY <2>4, <2>6, NoSats
    <3>3. PICK o \in obs : o.at = now
      BY <2>6, <3>2 DEF Here
    <3>4. first = now /\ \A p \in obs : p.at = now
      BY <2>1, <3>3 DEF ObsInv, Times
    <3>5. SatsIn(obs) = Here
      BY <3>4 DEF SatsIn, Here
    <3>6. SatsIn(given'.obs) = SatsIn(obs)
      BY <3>1 DEF SatsIn
    <3> QED BY <3>1, <3>2, <3>4, <3>5, <3>6
  <2> QED BY <2>3, <2>4, <2>5, <2>6
<1> QED BY <1>4, <1>5, <1>6, <1>7, <1>8, <1>9 DEF ObsInv

\* A message that is turned away is of another station or has too many satellites: an
\* epoch that Complete is about has none.
LEMMA TurnedStep ==
  ASSUME ObsInv, Comes, TurnedAway
  PROVE  ObsInv'
<1>1. /\ todo # <<>> /\ todo' = Tail(todo) /\ now' = now /\ sta' = sta /\ sent' = sent
      /\ epochs' = epochs /\ speaker' = sta
      /\ whole' = whole /\ crowded' = crowded /\ torn' = torn
      /\ first' = first /\ obs' = obs /\ took' = took
      /\ obsflag' = obsflag /\ given' = given /\ ~Accepts(Msg)
      /\ staid' = IF ~StationFits THEN 0
                  ELSE IF staid = 0 \/ obsflag THEN sta ELSE staid
  BY DEF Comes, TurnedAway
<1>2. /\ todo \in Seq(Message) /\ Msg \in Message /\ Msg = todo[1] /\ 1 \in DOMAIN todo
      /\ At \in Int /\ (Calm(Msg) => calm /\ At = now)
      /\ Msg.kind = "msm" => \A s, r \in Msg.sats : System(s) = System(r)
      /\ SatsOf(todo) = Decoded(Msg) \union SatsOf(Tail(todo))
  BY <1>1, MsgFacts DEF ObsInv, TypeOK
<1>3. todo' \in Seq(Message) /\ Announced' /\ (todo' = <<>> <=> Len(todo) = 1)
  BY <1>1, <1>2, AnnouncedTail DEF ObsInv
<1>4. /\ time' \in Int /\ heard' \in Nat /\ heard' <= now /\ calm' \in BOOLEAN
      /\ calm' => calm /\ time' = heard'
  <2>1. CASE time' = At /\ heard' = now /\ calm' = Calm(Msg)
    <3>1. now \in Nat
      BY DEF ObsInv, TypeOK
    <3>2. Calm(Msg) \in BOOLEAN
      BY DEF ObsInv, TypeOK, Calm
    <3> QED BY <1>2, <2>1, <3>1, <3>2
  <2>2. CASE time' = time /\ heard' = heard /\ calm' = calm
    BY <2>2 DEF ObsInv, TypeOK, Times
  <2> QED BY <2>1, <2>2 DEF TurnedAway
<1>5. TypeOK'
  <2>1. staid' \in Stations \union {0} /\ sta \in Stations
    BY <1>1 DEF ObsInv, TypeOK
  <2> QED BY <1>1, <1>3, <1>4, <2>1 DEF ObsInv, TypeOK
<1>6. Times'
  BY <1>1, <1>4 DEF ObsInv, Times
<1>7. Kept' /\ Handed'
  BY <1>1, <1>4 DEF ObsInv, Kept, Handed, OneStation
<1>8. Known'
  <2>1. staid' \in {0, sta}
    BY <1>1 DEF StationFits
  <2> QED BY <1>1, <2>1 DEF Known
<1>9. Marked'
  <2>1. calm' /\ ~torn' => \A o, p \in obs' : o.from = p.from
    BY <1>1, <1>4 DEF ObsInv, Marked
  <2>2. ASSUME calm', ~torn', NEW o \in obs', todo' # <<>>, o.at = now
        PROVE  o.from = staid' /\ o.from = sta
    <3>1. o.from = staid /\ o.from = sta /\ ~obsflag
      BY <1>1, <1>3, <1>4, <2>2 DEF ObsInv, Marked, Kept
    <3>2. o.from \in Stations
      BY <3>1 DEF ObsInv, TypeOK
    <3>3. o.from # 0
      BY <3>2, Numbers
    <3> QED BY <1>1, <3>1, <3>3 DEF StationFits
  <2> QED BY <1>1, <2>1, <2>2 DEF Marked
<1>10. ~Undisturbed'
  <2> SUFFICES ASSUME Undisturbed' PROVE FALSE
    OBVIOUS
  <2>1. Undisturbed /\ Fits /\ whole
    BY <1>1, <1>4 DEF Undisturbed, Fits
  <2>2. StationFits
    BY <2>1 DEF ObsInv, Known, StationFits
  <2>3. Msg.kind = "msm" /\ ~(Cardinality(Msg.sats) <= MaxCell)
    BY <1>1, <2>2 DEF Accepts
  <2>4. Msg.sats \subseteq sent
    <3>1. Decoded(Msg) = Msg.sats
      BY <2>3 DEF Decoded
    <3> QED BY <1>2, <2>1, <3>1 DEF ObsInv, Progress
  <2>5. CASE Msg.sats = {}
    BY <2>3, <2>5, FS_EmptySet, Numbers
  <2>6. CASE Msg.sats # {}
    <3>1. PICK s \in Msg.sats : TRUE
      BY <2>6
    <3> DEFINE same == {r \in sent : System(r) = System(s)}
    <3>2. Msg.sats \subseteq same
      BY <1>2, <2>3, <2>4
    <3>3. Cardinality(same) <= MaxCell
      BY <2>1, <2>4 DEF Fits
    <3>4. IsFiniteSet(same)
      <4>1. same \subseteq Sats
        BY DEF ObsInv, TypeOK
      <4> QED BY <4>1, RtcmObsAssumption, FS_Subset
    <3> HIDE DEF same
    <3>5. /\ Cardinality(Msg.sats) <= Cardinality(same)
          /\ Cardinality(Msg.sats) \in Nat /\ Cardinality(same) \in Nat
      BY <3>2, <3>4, FS_Subset, FS_CardinalityType
    <3> QED BY ONLY <2>3, <3>3, <3>5, Numbers
  <2> QED BY <2>5, <2>6
<1>11. Progress'
  BY <1>10 DEF Progress
<1> QED BY <1>3, <1>5, <1>6, <1>7, <1>8, <1>9, <1>11 DEF ObsInv

LEMMA ReceiveStep == ASSUME ObsInv, Receive PROVE ObsInv'
<1>1. Comes /\ (Accepted \/ TurnedAway)
  BY ReceiveIs
<1>2. CASE Accepted
  <2>1. AcceptedRest /\ (NoneSaved \/ \E got \in SUBSET Msg.sats : SavedOf(got))
    BY <1>2, Zenon DEF Accepted, AcceptedRest
  <2> QED BY <1>1, <2>1, SavedStep, SkippedStep
<1>3. CASE TurnedAway
  BY <1>1, <1>3, TurnedStep
<1> QED BY <1>1, <1>2, <1>3

LEMMA ObsStep == ObsInv /\ [Next]_vars => ObsInv'
<1> SUFFICES ASSUME ObsInv, [Next]_vars PROVE ObsInv'
  OBVIOUS
<1>1. CASE NewEpoch
  BY <1>1, NewEpochStep
<1>2. CASE ChangeOver
  BY <1>2, ChangeOverStep
<1>3. CASE Lose
  BY <1>3, LoseStep
<1>4. CASE Receive
  BY <1>4, ReceiveStep
<1>5. CASE UNCHANGED vars
  BY <1>5 DEF vars, decoder, histories, ObsInv, TypeOK, Announced, Times, Kept, Marked, Known,
              Handed, OneStation, Progress, Undisturbed, Fits, Here, SatsOf, Legacy
<1> QED BY <1>1, <1>2, <1>3, <1>4, <1>5 DEF Next

\* The inductive invariant of the decoder's observations.
THEOREM ObsInductive == Spec => []ObsInv
<1> QED BY InitObs, ObsStep, PTL DEF Spec

\* However many messages are lost, and whoever sends: an epoch that is handed on has
\* its own time and the observations of one station (rtcm3.c:121-132, :144-157).
THEOREM EpochsAreSound == Spec => []EpochSound
<1>1. ObsInv => EpochSound
  BY DEF ObsInv, EpochSound, Times, TimeRight, Handed
<1> QED BY <1>1, ObsInductive, PTL

\* And it is of one moment (rtcm3.c:158-159).
THEOREM EpochsAreWhole == Spec => []OneEpoch
<1>1. ObsInv => OneEpoch
  BY DEF ObsInv, OneEpoch, Handed
<1> QED BY <1>1, ObsInductive, PTL

\* An epoch of which no message was lost is handed on with all its satellites, for any
\* layout and also when the server itself made the messages (encoder.c:140-176).
THEOREM EpochsAreComplete == Spec => []Complete
<1>1. ObsInv => Complete
  BY NoSats DEF ObsInv, Complete, Progress, Undisturbed, Fits
<1> QED BY <1>1, ObsInductive, PTL

\* No epoch is handed on a second time, also when stations change over.
THEOREM EpochsComeOnce == Spec => OnceEach
<1> DEFINE Once == (given' # given /\ calm') => given'.time > given.time \/ took' = {}
<1>1. ASSUME ObsInv, ObsInv', [Next]_vars PROVE Once
  <2> SUFFICES ASSUME given' # given, calm', took' # {} PROVE given'.time > given.time
    OBVIOUS
  <2>1. Receive
    BY <1>1 DEF Next, NewEpoch, ChangeOver, Lose, decoder, vars
  <2>2. Comes /\ Accepted
    BY <2>1, ReceiveIs DEF TurnedAway
  <2>3. AcceptedRest
    BY <2>2, Zenon DEF Accepted, AcceptedRest
  <2>4. /\ calm /\ todo # <<>> /\ now' = now
        /\ given'.time = first'
    BY <1>1, <2>2, <2>3, AcceptedFacts DEF Comes
  <2>5. given.time < now /\ first' = now
    BY <1>1, <2>4 DEF ObsInv, Times
  <2>6. given.time \in Int /\ now \in Nat
    BY <1>1 DEF ObsInv, TypeOK
  <2> QED BY ONLY <2>4, <2>5, <2>6
<1>2. ObsInv /\ ObsInv' /\ [Next]_vars => [Once]_vars
  BY <1>1
<1>3. OnceEach <=> [][Once]_vars
  BY DEF OnceEach
<1> HIDE DEF Once
<1> QED BY <1>2, <1>3, ObsInductive, PTL DEF Spec

-----------------------------------------------------------------------------
(* The ephemerides of a satellite: EphStore.                               *)

CONSTANTS Streams, Families, MaxIssue, IodeMod
VARIABLES fam, air, on, own, cur, prev, seen, overtaken, reused

E == INSTANCE EphStore


\* The two generations are issues that came, or empty, the current one not once
\* one came.
Generations == /\ {cur.issue, prev.issue} \subseteq seen \union {0}
               /\ seen = {} => cur = E!Empty /\ prev = E!Empty
               /\ seen # {} => cur.issue # 0

\* While no issue was overtaken, nor an issue of data used again, the current one is
\* the newest and the one before the second newest that came.
TwoNewest == ~overtaken /\ ~reused /\ seen # {} =>
               /\ \A k \in seen : k <= cur.issue
               /\ \A k \in seen \ {cur.issue} : prev.issue # 0 /\ k <= prev.issue
               /\ prev.issue < cur.issue

EphInv == E!TypeOK /\ Generations /\ TwoNewest

-----------------------------------------------------------------------------
(* Issues of data.                                                         *)

\* An issue of data is less than the period, but for that of what is empty.
LEMMA IodeRange ==
  ASSUME E!EphBounds, NEW e \in E!Ephs
  PROVE  /\ e.issue = 0 => E!Iode(e) = IodeMod
         /\ e.issue # 0 => E!Iode(e) \in 0 .. IodeMod - 1
BY DEF E!EphBounds, E!Ephs, E!Iode

\* The same issue has the same issue of data.
LEMMA SameIode ==
  ASSUME E!EphBounds, NEW e \in E!Ephs, NEW o \in E!Ephs, e.issue = o.issue
  PROVE  E!Iode(e) = E!Iode(o)
BY DEF E!Iode

\* Unless an issue of data is used again, cors_updnav takes for new exactly the
\* issues that are in neither generation (cors.c:119-137), in every family.
LEMMA NewIsNew ==
  ASSUME E!EphBounds, E!TypeOK, NEW e \in E!Ephs, e.issue # 0, cur.issue # 0,
         fam = "glo" => ~E!Clash(e, {cur, prev})
  PROVE  E!New(e) <=> e.issue \notin {cur.issue, prev.issue}
<1>1. cur \in E!Ephs /\ prev \in E!Ephs /\ cur # E!Empty
  BY DEF E!TypeOK, E!Empty, E!Ephs
<1>2. ASSUME e.issue \in {cur.issue, prev.issue}
      PROVE  ~E!New(e)
  <2>1. E!Iode(e) \in {E!Iode(cur), E!Iode(prev)}
    BY <1>1, <1>2, SameIode
  <2> QED BY <1>1, <1>2, <2>1 DEF E!New
<1>3. ASSUME e.issue \notin {cur.issue, prev.issue}
      PROVE  E!New(e)
  <2>1. CASE fam # "glo"
    BY <1>3, <2>1 DEF E!New
  <2>2. CASE fam = "glo"
    <3>1. \A o \in {cur, prev} : o.issue \notin {0, e.issue} => E!Iode(o) # E!Iode(e)
      BY <2>2 DEF E!Clash
    <3>2. E!Iode(cur) # E!Iode(e)
      BY <1>3, <3>1
    <3>3. E!Iode(prev) # E!Iode(e)
      <4>1. CASE prev.issue # 0
        BY <1>3, <3>1, <4>1
      <4>2. CASE prev.issue = 0
        <5>1. E!Iode(prev) = IodeMod /\ E!Iode(e) \in 0 .. IodeMod - 1
          BY <1>1, <4>2, IodeRange
        <5> QED BY <5>1 DEF E!EphBounds
      <4> QED BY <4>1, <4>2
    <3> QED BY <3>2, <3>3 DEF E!New
  <2> QED BY <2>1, <2>2
<1> QED BY <1>2, <1>3

-----------------------------------------------------------------------------
(* The invariant.                                                          *)

\* What a message that is taken over changes.
LEMMA SendEffect ==
  ASSUME NEW s \in Streams, E!Send(s), E!EphBounds, E!TypeOK
  PROVE  /\ on[s] \in E!Ephs /\ on[s].issue # 0
         /\ UNCHANGED <<fam, air, on>>
         /\ \/ UNCHANGED <<own, cur, prev, seen, overtaken>>
            \/ /\ own' = [own EXCEPT ![s] = on[s]]
               /\ \/ E!New(on[s]) /\ cur' = on[s] /\ prev' = cur
                  \/ ~E!New(on[s]) /\ UNCHANGED <<cur, prev>>
               /\ seen' = seen \union {on[s].issue}
               /\ overtaken' = (overtaken \/ ~(\A k \in seen : k <= on[s].issue \/ E!Second(on[s].issue)))
         /\ ~reused' => ~reused /\ (fam = "glo" => ~E!Clash(on[s], {cur, prev}))
<1>1. on[s] \in E!Ephs /\ on[s].issue # 0
  BY DEF E!Send, E!TypeOK, E!Ephs
<1>2. /\ UNCHANGED <<fam, air, on>>
      /\ IF E!Unchanged(own[s], on[s])
         THEN UNCHANGED <<own, cur, prev, seen, overtaken>>
         ELSE /\ own' = [own EXCEPT ![s] = on[s]]
              /\ IF E!New(on[s]) THEN cur' = on[s] /\ prev' = cur ELSE UNCHANGED <<cur, prev>>
              /\ seen' = seen \union {on[s].issue}
              /\ overtaken' = (overtaken \/ ~(\A k \in seen : k <= on[s].issue \/ E!Second(on[s].issue)))
      /\ reused' = (reused \/ (fam = "iode" /\ E!Clash(on[s], {own[s]}))
                           \/ (fam = "glo" /\ E!Clash(on[s], {cur, prev})))
  BY Zenon DEF E!Send
<1>3. ~reused' => ~reused /\ (fam = "glo" => ~E!Clash(on[s], {cur, prev}))
  BY <1>2, Zenon
<1> QED BY <1>1, <1>2, <1>3, Zenon

LEMMA EphInit == E!EphBounds /\ E!Init => EphInv
<1> SUFFICES ASSUME E!EphBounds, E!Init PROVE EphInv
  OBVIOUS
<1>1. MaxIssue >= 1 => E!TypeOK
  <2> SUFFICES ASSUME MaxIssue >= 1 PROVE E!TypeOK
    OBVIOUS
  <2>1. E!Empty \in E!Ephs /\ [issue |-> 1, bad |-> FALSE] \in E!Ephs
    BY DEF E!EphBounds, E!Empty, E!Ephs
  <2> QED BY <2>1 DEF E!Init, E!TypeOK
<1>2. MaxIssue >= 1
  BY DEF E!EphBounds
<1>3. Generations /\ TwoNewest
  BY DEF E!Init, Generations, TwoNewest, E!Empty
<1> QED BY <1>1, <1>2, <1>3 DEF EphInv

LEMMA IssuesNat == E!EphBounds /\ E!TypeOK => /\ cur.issue \in Nat /\ prev.issue \in Nat
                                          /\ seen \subseteq Nat \ {0}
                                          /\ \A e \in E!Ephs : e.issue \in Nat
BY DEF E!EphBounds, E!TypeOK, E!Ephs

\* The types after a message.
LEMMA SendType ==
  ASSUME E!EphBounds, E!TypeOK, NEW s \in Streams, E!Send(s)
  PROVE  E!TypeOK'
<1>1. on[s] \in E!Ephs /\ on[s].issue # 0 /\ on[s].issue \in 1 .. MaxIssue
  BY SendEffect DEF E!Ephs, E!EphBounds
<1>2. fam' \in Families /\ air' \in E!Ephs /\ on' \in [Streams -> E!Ephs]
  BY SendEffect DEF E!TypeOK
<1>3. own' \in [Streams -> E!Ephs] /\ cur' \in E!Ephs /\ prev' \in E!Ephs /\ seen' \subseteq 1 .. MaxIssue
  BY <1>1, SendEffect DEF E!TypeOK
<1>4. overtaken' \in BOOLEAN
  <2>1. overtaken \in BOOLEAN
    BY DEF E!TypeOK
  <2> QED BY <2>1, SendEffect, Zenon
<1>5. reused' \in BOOLEAN
  BY Zenon DEF E!Send
<1> QED BY <1>2, <1>3, <1>4, <1>5 DEF E!TypeOK

\* The second newest issue that came is the one before, so that it is not new.
LEMMA SecondIsPrev ==
  ASSUME E!EphBounds, EphInv, ~overtaken, ~reused, seen # {}, NEW k, E!Second(k)
  PROVE  k = prev.issue
<1>1. /\ \A i \in seen : i <= cur.issue
      /\ \A i \in seen \ {cur.issue} : prev.issue # 0 /\ i <= prev.issue
      /\ prev.issue < cur.issue
  BY DEF EphInv, TwoNewest
<1>2. cur.issue \in seen /\ prev.issue \in seen \union {0} /\ seen \subseteq Nat
  BY IssuesNat DEF EphInv, Generations
<1>3. k \in seen
  BY DEF E!Second
<1>4. PICK j \in seen : j > k /\ \A i \in seen \ {j} : i <= k
  BY DEF E!Second
<1>5. j = cur.issue
  <2>1. j <= cur.issue /\ j \in Nat /\ k \in Nat /\ cur.issue \in Nat
    BY <1>1, <1>2, <1>3
  <2>2. j # cur.issue => cur.issue <= k
    BY <1>2, <1>4
  <2> QED BY <1>4, <2>1, <2>2
<1> QED BY <1>1, <1>2, <1>3, <1>4, <1>5

\* The generations after a message of stream s.
LEMMA SendKeeps ==
  ASSUME E!EphBounds, EphInv, NEW s \in Streams, E!Send(s)
  PROVE  Generations' /\ TwoNewest'
<1> DEFINE e == on[s]
<1>1. E!TypeOK /\ Generations /\ TwoNewest
  BY DEF EphInv
<1>2. e \in E!Ephs /\ e.issue # 0 /\ e.issue \in Nat
  BY <1>1, SendEffect, IssuesNat
<1>3. ~reused' => ~reused /\ (fam = "glo" => ~E!Clash(e, {cur, prev}))
  BY <1>1, SendEffect
<1>4. cur.issue \in Nat /\ prev.issue \in Nat /\ seen \subseteq Nat \ {0}
  BY <1>1, IssuesNat
<1>5. CASE UNCHANGED <<own, cur, prev, seen, overtaken>>
  BY <1>1, <1>3, <1>5 DEF Generations, TwoNewest
<1>6. CASE /\ E!New(e) /\ cur' = e /\ prev' = cur
           /\ seen' = seen \union {e.issue}
           /\ overtaken' = (overtaken \/ ~(\A k \in seen : k <= e.issue \/ E!Second(e.issue)))
  <2> HIDE DEF e
  <2>1. Generations'
    BY <1>1, <1>2, <1>6 DEF Generations
  <2>2. ASSUME ~overtaken', ~reused', seen = {}
        PROVE  TwoNewest'
    <3>1. cur.issue = 0
      BY <1>1, <2>2 DEF Generations, E!Empty
    <3> QED BY <1>2, <1>6, <2>2, <3>1 DEF TwoNewest
  <2>3. ASSUME ~overtaken', ~reused', seen # {}
        PROVE  TwoNewest'
    <3>1. ~overtaken /\ ~reused /\ \A k \in seen : k <= e.issue \/ E!Second(e.issue)
      BY <1>3, <1>6, <2>3, Zenon
    <3>2. cur.issue # 0 /\ e.issue \notin {cur.issue, prev.issue}
      BY <1>1, <1>2, <1>3, <1>6, <2>3, NewIsNew DEF Generations
    <3>3. ~E!Second(e.issue)
      BY <2>3, <3>1, <3>2, SecondIsPrev
    <3>4. \A k \in seen : k <= e.issue
      BY <3>1, <3>3
    <3>5. cur.issue \in seen /\ \A k \in seen : k <= cur.issue
      BY <1>1, <2>3, <3>1, <3>2 DEF TwoNewest, Generations
    <3>6. cur.issue < e.issue
      BY <1>2, <1>4, <3>2, <3>4, <3>5
    <3>7. /\ \A k \in seen' : k <= cur'.issue
          /\ \A k \in seen' \ {cur'.issue} : prev'.issue # 0 /\ k <= prev'.issue
          /\ prev'.issue < cur'.issue
      BY <1>2, <1>4, <1>6, <3>2, <3>4, <3>5, <3>6
    <3> QED BY <3>7 DEF TwoNewest
  <2>4. overtaken' \/ reused' => TwoNewest'
    BY Zenon DEF TwoNewest
  <2> QED BY <2>1, <2>2, <2>3, <2>4
<1>7. CASE /\ ~E!New(e) /\ UNCHANGED <<cur, prev>>
           /\ seen' = seen \union {e.issue}
           /\ overtaken' = (overtaken \/ ~(\A k \in seen : k <= e.issue \/ E!Second(e.issue)))
  <2> HIDE DEF e
  <2>1. seen # {}
    BY <1>1, <1>7 DEF Generations, E!New
  <2>2. Generations'
    BY <1>1, <1>7, <2>1 DEF Generations
  <2>3. ASSUME ~overtaken', ~reused'
        PROVE  TwoNewest'
    <3>1. ~overtaken /\ ~reused
      BY <1>3, <1>7, <2>3, Zenon
    <3>2. e.issue \in {cur.issue, prev.issue}
      BY <1>1, <1>2, <1>3, <1>7, <2>1, <2>3, NewIsNew DEF Generations
    <3>3. seen' = seen
      BY <1>1, <1>2, <1>7, <3>2 DEF Generations
    <3> QED BY <1>1, <1>7, <2>1, <3>1, <3>3 DEF TwoNewest
  <2>4. overtaken' \/ reused' => TwoNewest'
    BY Zenon DEF TwoNewest
  <2> QED BY <2>2, <2>3, <2>4
<1> QED BY <1>1, <1>5, <1>6, <1>7, SendEffect

LEMMA EphStep == E!EphBounds /\ EphInv /\ [E!Next]_E!vars => EphInv'
<1> SUFFICES ASSUME E!EphBounds, EphInv, [E!Next]_E!vars PROVE EphInv'
  OBVIOUS
<1>1. E!TypeOK /\ Generations /\ TwoNewest
  BY DEF EphInv
<1>2. ASSUME UNCHANGED <<cur, prev, seen, overtaken, reused>>
      PROVE  Generations' /\ TwoNewest'
  BY <1>1, <1>2 DEF Generations, TwoNewest
<1>3. CASE E!Upload
  <2>1. air' \in E!Ephs /\ UNCHANGED <<fam, on, own, cur, prev, seen, overtaken, reused>>
    BY <1>1, <1>3 DEF E!Upload, E!TypeOK, E!Ephs, E!EphBounds
  <2> QED BY <1>1, <1>2, <2>1 DEF EphInv, E!TypeOK
<1>4. CASE E!ChangeHealth
  <2>1. air' \in E!Ephs /\ UNCHANGED <<fam, on, own, cur, prev, seen, overtaken, reused>>
    BY <1>1, <1>4 DEF E!ChangeHealth, E!TypeOK, E!Ephs
  <2> QED BY <1>1, <1>2, <2>1 DEF EphInv, E!TypeOK
<1>5. ASSUME NEW s \in Streams, E!Track(s)
      PROVE  EphInv'
  <2>1. on' \in [Streams -> E!Ephs] /\ UNCHANGED <<fam, air, own, cur, prev, seen, overtaken, reused>>
    BY <1>1, <1>5 DEF E!Track, E!TypeOK
  <2> QED BY <1>1, <1>2, <2>1 DEF EphInv, E!TypeOK
<1>6. ASSUME NEW s \in Streams, E!Send(s)
      PROVE  EphInv'
  BY <1>1, <1>6, SendType, SendKeeps DEF EphInv
<1>7. CASE UNCHANGED E!vars
  BY <1>1, <1>2, <1>7 DEF E!vars, EphInv, E!TypeOK
<1> QED BY <1>3, <1>4, <1>5, <1>6, <1>7 DEF E!Next

\* The invariant, for any streams, families, issues and period.
THEOREM EphInductive == E!EphBounds => (E!Spec => []EphInv)
<1> SUFFICES ASSUME E!EphBounds PROVE E!Spec => []EphInv
  OBVIOUS
<1>1. E!Init => EphInv
  BY EphInit
<1>2. EphInv /\ [E!Next]_E!vars => EphInv'
  BY EphStep
<1> QED BY <1>1, <1>2, PTL DEF E!Spec

\* The newest ephemeris that any stream sent is the one computed with, whatever is
\* repeated (cors.c:119-137, rtcm3.c, ephemeris.c).
THEOREM NewestIsKept == E!EphBounds => (E!Spec => []E!KeptNewest)
<1> SUFFICES ASSUME E!EphBounds PROVE E!Spec => []E!KeptNewest
  OBVIOUS
<1>1. EphInv => E!KeptNewest
  <2> SUFFICES ASSUME EphInv, seen # {}, ~overtaken, ~reused PROVE E!Newest(E!Selected.issue)
    BY DEF E!KeptNewest
  <2>1. cur.issue \in seen /\ prev.issue < cur.issue /\ \A k \in seen : k <= cur.issue
    BY DEF EphInv, Generations, TwoNewest
  <2>2. E!Selected = cur
    BY <2>1, IssuesNat DEF E!Selected, EphInv
  <2> QED BY <2>1, <2>2 DEF E!Newest
<1>2. E!Spec => []EphInv
  BY EphInductive
<1> QED BY <1>1, <1>2, PTL

\* A newest ephemeris is computed with as soon as it comes, also after older ones
\* had displaced newer ones.
THEOREM NewestIsTaken == E!EphBounds => (E!Spec => E!Recovers)
<1> SUFFICES ASSUME E!EphBounds PROVE E!Spec => E!Recovers
  OBVIOUS
<1> DEFINE Step == \A k \in seen' : (~reused' /\ \A j \in seen : j < k) => E!Selected'.issue = k
<1>1. EphInv /\ [E!Next]_E!vars => [Step]_E!vars
  <2> SUFFICES ASSUME EphInv, E!Next, NEW k \in seen', ~reused', \A j \in seen : j < k
               PROVE  E!Selected'.issue = k
    OBVIOUS
  <2>1. E!TypeOK /\ Generations
    BY DEF EphInv
  <2>2. cur.issue \in Nat /\ prev.issue \in Nat /\ seen \subseteq Nat \ {0}
    BY <2>1, IssuesNat
  <2>3. k \notin seen
    <3> SUFFICES ASSUME k \in seen PROVE FALSE
      OBVIOUS
    <3>1. k < k /\ k \in Nat
      BY <2>2
    <3> QED BY <3>1
  <2>4. PICK s \in Streams : E!Send(s)
    <3>1. CASE E!Upload \/ E!ChangeHealth \/ \E s \in Streams : E!Track(s)
      BY <2>3, <3>1 DEF E!Upload, E!ChangeHealth, E!Track
    <3> QED BY <3>1 DEF E!Next
  <2>5. /\ on[s] \in E!Ephs /\ on[s].issue # 0 /\ on[s].issue \in Nat
        /\ fam = "glo" => ~E!Clash(on[s], {cur, prev})
    BY <2>1, <2>4, SendEffect, IssuesNat
  <2>6. /\ \/ E!New(on[s]) /\ cur' = on[s] /\ prev' = cur
           \/ ~E!New(on[s]) /\ UNCHANGED <<cur, prev>>
        /\ seen' = seen \union {on[s].issue}
    BY <2>1, <2>3, <2>4, SendEffect
  <2>7. k = on[s].issue /\ cur.issue < k /\ prev.issue < k
    BY <2>1, <2>2, <2>3, <2>5, <2>6 DEF Generations
  <2>8. E!New(on[s])
    <3>1. CASE seen = {}
      BY <2>1, <3>1 DEF Generations, E!New
    <3>2. CASE seen # {}
      <4>1. cur.issue # 0 /\ on[s].issue \notin {cur.issue, prev.issue}
        BY <2>1, <2>2, <2>7, <3>2 DEF Generations
      <4> QED BY <2>1, <2>5, <4>1, NewIsNew
    <3> QED BY <3>1, <3>2
  <2>9. cur'.issue = k /\ prev'.issue < k
    BY <2>6, <2>7, <2>8
  <2>10. ~(prev'.issue > cur'.issue)
    BY <2>2, <2>5, <2>6, <2>7, <2>8, <2>9
  <2> QED BY <2>9, <2>10, Zenon DEF E!Selected
<1>2. E!Spec => []EphInv
  BY EphInductive
<1> QED BY <1>1, <1>2, PTL DEF E!Spec, E!Recovers

-----------------------------------------------------------------------------
(* A cycle slip: SlipChain.                                                *)

CONSTANT MaxLock
VARIABLES age, half, lock, store, mem, flag, later

S == INSTANCE SlipChain


\* What excuses a slip that is not flagged.
Excuses == {"skipped", "outgrown", "masked"}

\* An observation in the store tells of the slip before it, or there is an excuse;
\* and its LLI says slip only for one, or for an open half-cycle.
StoreTells ==
  store.fresh =>
    /\ "slip" \in store.tags => S!Slip(store.lli) \/ store.tags \intersect Excuses # {}
    /\ S!Slip(store.lli) => "slip" \in store.tags \/ S!Half(store.lli)

\* Without a slip since the epoch in the store the lock time has not gone back.
LockGrows == "slip" \notin later => lock <= age

SlipInv == S!TypeOK /\ StoreTells /\ LockGrows

-----------------------------------------------------------------------------
(* The indicator.                                                          *)

\* The five values of the LLI: rtcm3.c:2054-2055 never makes 2.
LEMMA Bits ==
  /\ ~S!Slip(0) /\ S!Slip(1) /\ ~S!Slip(2) /\ S!Slip(3) /\ ~S!Slip(4)
  /\ ~S!Half(0) /\ ~S!Half(1) /\ S!Half(2) /\ S!Half(3) /\ ~S!Half(4)
BY DEF S!Slip, S!Half

\* What save_msm_obs makes of the lock time and the half-cycle bit.
LEMMA LLIValue ==
  ASSUME NEW l, NEW h \in BOOLEAN
  PROVE  /\ S!LLI(l, h) \in {0, 1, 3, 4}
         /\ S!LLI(l, h) = 0 <=> ~S!Loss(l) /\ ~h
         /\ ~h => (S!Slip(S!LLI(l, h)) <=> S!Loss(l))
         /\ S!Slip(S!LLI(l, h)) => S!Loss(l) \/ S!Half(S!LLI(l, h))
<1>1. CASE S!Loss(l) /\ h = TRUE
  <2>1. S!LLI(l, h) = 1 + 3
    BY <1>1, Zenon DEF S!LLI
  <2> QED BY <1>1, <2>1, Bits
<1>2. CASE S!Loss(l) /\ h = FALSE
  <2>1. S!LLI(l, h) = 1 + 0
    BY <1>2, Zenon DEF S!LLI
  <2> QED BY <1>2, <2>1, Bits
<1>3. CASE ~S!Loss(l) /\ h = TRUE
  <2>1. S!LLI(l, h) = 0 + 3
    BY <1>3, Zenon DEF S!LLI
  <2> QED BY <1>3, <2>1, Bits
<1>4. CASE ~S!Loss(l) /\ h = FALSE
  <2>1. S!LLI(l, h) = 0 + 0
    BY <1>4, Zenon DEF S!LLI
  <2> QED BY <1>4, <2>1, Bits
<1> QED BY <1>1, <1>2, <1>3, <1>4

-----------------------------------------------------------------------------
(* The receiver.                                                           *)

\* Without a slip the receiver's lock time does not go back, nor stays at 0.
LEMMA TrackGrows ==
  ASSUME S!LockBound, age \in 0 .. MaxLock, NEW slip \in BOOLEAN, S!Track(slip)
  PROVE  /\ age' \in 0 .. MaxLock /\ half' \in BOOLEAN
         /\ ~slip => age' >= age /\ age' > 0
<1>1. half' \in BOOLEAN
  BY DEF S!Track
<1>2. CASE slip = TRUE
  <2>1. age' \in 0 .. 1
    BY <1>2 DEF S!Track
  <2> QED BY <1>1, <1>2, <2>1 DEF S!LockBound
<1>3. CASE slip = FALSE
  <2>1. age' = IF age < MaxLock THEN age + 1 ELSE age
    BY <1>3 DEF S!Track
  <2> QED BY <1>1, <2>1 DEF S!LockBound
<1> QED BY <1>2, <1>3

\* A message after a slip shows a loss, or is excused (rtcm3.c:2054, lossoflock).
LEMMA LossOrExcuse ==
  ASSUME NEW tags, "slip" \in tags, age' \in Nat, lock \in Nat
  PROVE  S!Loss(age') \/ "outgrown" \in S!Blurred(tags)
BY DEF S!Loss, S!Blurred

\* And an open half-cycle is an excuse.
LEMMA HalfExcuses ==
  ASSUME NEW tags, "slip" \in tags, half'
  PROVE  "masked" \in S!Blurred(tags)
BY DEF S!Blurred

\* The receiver comes to the next epoch: what the message of it can say.
LEMMA MessageTells ==
  ASSUME S!LockBound, S!TypeOK, LockGrows, NEW slip \in BOOLEAN, S!Track(slip),
         NEW tags, tags = later \union S!Happened(slip)
  PROVE  /\ "slip" \in tags => \/ S!Slip(S!LLI(age', half'))
                               \/ S!Blurred(tags) \intersect Excuses # {}
         /\ S!Slip(S!LLI(age', half')) => "slip" \in tags \/ S!Half(S!LLI(age', half'))
         /\ S!Blurred(tags) \subseteq S!Tags \ {"slip"}
<1>1. age' \in 0 .. MaxLock /\ half' \in BOOLEAN /\ age \in Nat /\ lock \in Nat
  BY TrackGrows DEF S!TypeOK, S!LockBound
<1>2. age' \in Nat
  BY <1>1 DEF S!LockBound
<1>3. S!Blurred(tags) \subseteq S!Tags \ {"slip"}
  BY DEF S!Blurred, S!Tags
<1>4. ASSUME "slip" \in tags
      PROVE  S!Slip(S!LLI(age', half')) \/ S!Blurred(tags) \intersect Excuses # {}
  <2>1. CASE half'
    BY <1>4, <2>1, HalfExcuses DEF Excuses
  <2>2. CASE ~half' /\ S!Loss(age')
    BY <1>1, <2>2, LLIValue
  <2>3. CASE ~S!Loss(age')
    BY <1>1, <1>2, <1>4, <2>3, LossOrExcuse DEF Excuses
  <2> QED BY <2>1, <2>2, <2>3
<1>5. ASSUME S!Slip(S!LLI(age', half')), "slip" \notin tags
      PROVE  S!Half(S!LLI(age', half'))
  <2>1. ~slip /\ "slip" \notin later
    BY <1>5 DEF S!Happened
  <2>2. lock <= age /\ age' >= age /\ age' > 0
    BY <2>1, TrackGrows DEF LockGrows, S!TypeOK
  <2>3. ~S!Loss(age')
    BY <1>1, <1>2, <2>2 DEF S!Loss
  <2> QED BY <1>1, <1>5, <2>3, LLIValue
<1> QED BY <1>3, <1>4, <1>5

-----------------------------------------------------------------------------
(* The invariant.                                                          *)

LEMMA SlipInit == S!LockBound /\ S!Init => SlipInv
<1> SUFFICES ASSUME S!LockBound, S!Init PROVE SlipInv
  OBVIOUS
<1>1. age \in 0 .. MaxLock /\ lock \in 0 .. MaxLock /\ mem \in S!LLIs /\ later \subseteq S!Tags
  BY DEF S!LockBound, S!Init, S!Tags, S!LLIs
<1>2. store \in [lli : S!LLIs, fresh : BOOLEAN, tags : SUBSET S!Tags]
  BY DEF S!Init, S!Tags, S!LLIs
<1>3. half \in BOOLEAN /\ flag \in BOOLEAN
  BY Zenon DEF S!Init
<1>4. S!TypeOK
  BY <1>1, <1>2, <1>3 DEF S!TypeOK
<1> QED BY <1>4 DEF SlipInv, StoreTells, LockGrows, S!Init

\* What a message says is an LLI.
LEMMA LLIType ==
  ASSUME half' \in BOOLEAN
  PROVE  S!LLI(age', half') \in S!LLIs
BY LLIValue DEF S!LLIs

\* An epoch that is overwritten untaken leaves what it told, or an excuse.
LEMMA UpdObsTells ==
  ASSUME S!LockBound, SlipInv, NEW slip \in BOOLEAN, S!UpdObs(slip)
  PROVE  S!TypeOK' /\ StoreTells' /\ LockGrows'
<1> DEFINE tags == later \union S!Happened(slip)
           lli == S!LLI(age', half')
           rest == IF store.fresh THEN store.tags ELSE {}
           skip == {x \in {"skipped"} : store.fresh /\ store.lli # 0}
<1>1. /\ S!Track(slip) /\ lock' = age' /\ later' = {} /\ mem' = mem /\ flag' = flag
      /\ store' = [lli |-> lli, fresh |-> TRUE,
                   tags |-> tags \union S!Blurred(tags) \union rest \union skip]
  BY DEF S!UpdObs
<1>2. S!TypeOK /\ StoreTells /\ LockGrows
  BY DEF SlipInv
<1>3. age' \in 0 .. MaxLock /\ half' \in BOOLEAN /\ lli \in S!LLIs
  BY <1>1, <1>2, TrackGrows, LLIType DEF S!TypeOK
<1>4. /\ "slip" \in tags => S!Slip(lli) \/ S!Blurred(tags) \intersect Excuses # {}
      /\ S!Slip(lli) => "slip" \in tags \/ S!Half(lli)
      /\ S!Blurred(tags) \subseteq S!Tags \ {"slip"}
  BY <1>1, <1>2, MessageTells
<1>5. rest \subseteq S!Tags /\ skip \subseteq S!Tags /\ tags \subseteq S!Tags
  BY <1>2 DEF S!TypeOK, S!Happened, S!Tags
<1>6. S!TypeOK'
  BY <1>1, <1>2, <1>3, <1>4, <1>5 DEF S!TypeOK, S!Tags
<1>7. ASSUME "slip" \in rest
      PROVE  rest \intersect Excuses # {} \/ "skipped" \in skip
  <2>1. store.fresh /\ "slip" \in store.tags /\ rest = store.tags
    BY <1>7
  <2>2. CASE store.tags \intersect Excuses # {}
    BY <2>1, <2>2
  <2>3. CASE S!Slip(store.lli)
    BY <2>1, <2>3, Bits
  <2> QED BY <1>2, <2>1, <2>2, <2>3 DEF StoreTells
<1>8. StoreTells'
  <2>1. store'.lli = lli /\ store'.tags = tags \union S!Blurred(tags) \union rest \union skip
    BY <1>1
  <2>2. "slip" \notin skip
    OBVIOUS
  <2> HIDE DEF tags, lli, rest, skip
  <2>3. "slip" \in store'.tags => S!Slip(store'.lli) \/ store'.tags \intersect Excuses # {}
    BY <1>4, <1>7, <2>1, <2>2 DEF Excuses
  <2>4. S!Slip(store'.lli) => "slip" \in store'.tags \/ S!Half(store'.lli)
    BY <1>4, <2>1
  <2> QED BY <2>3, <2>4 DEF StoreTells
<1>9. LockGrows'
  BY <1>1, <1>3, S!LockBound DEF LockGrows, S!LockBound
<1> QED BY <1>6, <1>8, <1>9

LEMMA SlipStep == S!LockBound /\ SlipInv /\ [S!Next]_S!vars => SlipInv'
<1> SUFFICES ASSUME S!LockBound, SlipInv, [S!Next]_S!vars PROVE SlipInv'
  OBVIOUS
<1>1. S!TypeOK /\ StoreTells /\ LockGrows
  BY DEF SlipInv
<1>2. CASE S!Take
  <2>1. /\ store' = [store EXCEPT !.fresh = FALSE]
        /\ flag' = S!Detect(store.lli) /\ mem' = store.lli
        /\ UNCHANGED <<age, half, lock, later>>
    BY <1>2 DEF S!Take
  <2>2. flag' \in BOOLEAN
    <3>1. (S!Half(mem) # S!Half(store.lli)) \in BOOLEAN /\ S!Slip(store.lli) \in BOOLEAN
      BY DEF S!Slip
    <3> QED BY <2>1, <3>1, Zenon DEF S!Detect
  <2>3. S!TypeOK'
    BY <1>1, <2>1, <2>2 DEF S!TypeOK
  <2>4. StoreTells' /\ LockGrows'
    BY <1>1, <2>1 DEF S!TypeOK, StoreTells, LockGrows
  <2> QED BY <2>3, <2>4 DEF SlipInv
<1>3. ASSUME NEW slip \in BOOLEAN, S!Lost(slip)
      PROVE  SlipInv'
  <2>1. S!Track(slip) /\ later' = later \union S!Happened(slip) /\ UNCHANGED <<lock, store, mem, flag>>
    BY <1>3 DEF S!Lost
  <2>2. age' \in 0 .. MaxLock /\ half' \in BOOLEAN /\ (~slip => age' >= age)
    BY <1>1, <2>1, TrackGrows DEF S!TypeOK
  <2>3. S!TypeOK'
    BY <1>1, <2>1, <2>2 DEF S!TypeOK, S!Happened, S!Tags
  <2>4. StoreTells'
    BY <1>1, <2>1 DEF StoreTells
  <2>5. LockGrows'
    <3> SUFFICES ASSUME "slip" \notin later' PROVE lock' <= age'
      BY DEF LockGrows
    <3>1. ~slip /\ "slip" \notin later
      BY <2>1 DEF S!Happened
    <3> QED BY <1>1, <2>1, <2>2, <3>1 DEF LockGrows, S!TypeOK, S!LockBound
  <2> QED BY <2>3, <2>4, <2>5 DEF SlipInv
<1>4. ASSUME NEW slip \in BOOLEAN, S!Dropped(slip)
      PROVE  SlipInv'
  <2> DEFINE tags == later \union S!Happened(slip)
             skip == {x \in {"skipped"} : S!LLI(age', half') # 0}
  <2>1. /\ S!Track(slip) /\ lock' = age' /\ UNCHANGED <<store, mem, flag>>
        /\ later' = tags \union S!Blurred(tags) \union skip
    BY <1>4 DEF S!Dropped
  <2>2. age' \in 0 .. MaxLock /\ half' \in BOOLEAN
    BY <1>1, <2>1, TrackGrows DEF S!TypeOK
  <2>3. S!Blurred(tags) \subseteq S!Tags
    BY <1>1, <2>1, MessageTells
  <2>4. tags \subseteq S!Tags /\ skip \subseteq S!Tags
    BY <1>1 DEF S!TypeOK, S!Happened, S!Tags
  <2>5. S!TypeOK'
    BY <1>1, <2>1, <2>2, <2>3, <2>4 DEF S!TypeOK
  <2>6. StoreTells' /\ LockGrows'
    BY <1>1, <2>1, <2>2 DEF StoreTells, LockGrows, S!LockBound
  <2> QED BY <2>5, <2>6 DEF SlipInv
<1>5. ASSUME NEW slip \in BOOLEAN, S!UpdObs(slip)
      PROVE  SlipInv'
  BY <1>5, UpdObsTells DEF SlipInv
<1>6. CASE UNCHANGED S!vars
  BY <1>1, <1>6 DEF S!vars, SlipInv, S!TypeOK, StoreTells, LockGrows
<1> QED BY <1>2, <1>3, <1>4, <1>5, <1>6 DEF S!Next

\* An epoch is taken by the filter only.
LEMMA OnlyTake ==
  ASSUME S!Next, S!Taken
  PROVE  flag' = S!Detect(store.lli)
<1>1. store.fresh /\ ~store'.fresh
  BY DEF S!Taken
<1>2. ASSUME NEW slip \in BOOLEAN, S!Lost(slip) \/ S!Dropped(slip) \/ S!UpdObs(slip)
      PROVE  FALSE
  BY <1>1, <1>2 DEF S!Lost, S!Dropped, S!UpdObs
<1> QED BY <1>2 DEF S!Next, S!Take

\* The invariant, for any bound.
THEOREM SlipInductive == S!LockBound => (S!Spec => []SlipInv)
<1> SUFFICES ASSUME S!LockBound PROVE S!Spec => []SlipInv
  OBVIOUS
<1>1. S!Init => SlipInv
  BY SlipInit
<1>2. SlipInv /\ [S!Next]_S!vars => SlipInv'
  BY SlipStep
<1> QED BY <1>1, <1>2, PTL DEF S!Spec

\* A cycle slip reaches the filter of an engine, whatever messages and epochs are
\* lost on the way, but for the three excuses (rtcm3.c:2054, cors.c:161, rtkpos.c:246).
THEOREM SlipsAreFlagged == S!LockBound => (S!Spec => S!SlipFlagged)
<1> SUFFICES ASSUME S!LockBound PROVE S!Spec => S!SlipFlagged
  OBVIOUS
<1> DEFINE Step == (S!Taken /\ "slip" \in store.tags)
                     => flag' \/ store.tags \intersect {"skipped", "outgrown", "masked"} # {}
<1>1. SlipInv /\ [S!Next]_S!vars => [Step]_S!vars
  <2> SUFFICES ASSUME SlipInv, S!Next, S!Taken, "slip" \in store.tags
               PROVE  flag' \/ store.tags \intersect Excuses # {}
    BY DEF Excuses
  <2>1. store.fresh
    BY DEF S!Taken
  <2>3. flag' = S!Detect(store.lli)
    BY OnlyTake
  <2>4. S!Slip(store.lli) \/ store.tags \intersect Excuses # {}
    BY <2>1 DEF SlipInv, StoreTells
  <2> QED BY <2>3, <2>4, Zenon DEF S!Detect
<1>2. S!Spec => []SlipInv
  BY SlipInductive
<1> QED BY <1>1, <1>2, PTL DEF S!Spec, S!SlipFlagged

\* No slip is made up while the half-cycle ambiguity is resolved, whatever is lost.
THEOREM NoAlarmIsFalse == S!LockBound => (S!Spec => S!NoFalseAlarm)
<1> SUFFICES ASSUME S!LockBound PROVE S!Spec => S!NoFalseAlarm
  OBVIOUS
<1> DEFINE Step == (S!Taken /\ flag') => "slip" \in store.tags \/ S!Half(store.lli) \/ S!Half(mem)
<1>1. SlipInv /\ [S!Next]_S!vars => [Step]_S!vars
  <2> SUFFICES ASSUME SlipInv, S!Next, S!Taken, flag'
               PROVE  "slip" \in store.tags \/ S!Half(store.lli) \/ S!Half(mem)
    OBVIOUS
  <2>1. store.fresh
    BY DEF S!Taken
  <2>3. flag' = S!Detect(store.lli)
    BY OnlyTake
  <2>4. S!Slip(store.lli) => "slip" \in store.tags \/ S!Half(store.lli)
    BY <2>1 DEF SlipInv, StoreTells
  <2>5. S!Half(store.lli) \in BOOLEAN /\ S!Half(mem) \in BOOLEAN
    BY DEF S!Half
  <2> QED BY <2>3, <2>4, <2>5, Zenon DEF S!Detect
<1>2. S!Spec => []SlipInv
  BY SlipInductive
<1> QED BY <1>1, <1>2, PTL DEF S!Spec, S!NoFalseAlarm

=============================================================================
