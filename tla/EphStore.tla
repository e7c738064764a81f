------------------------------ MODULE EphStore ------------------------------
(***************************************************************************)
(* The ephemerides of one satellite on their way to those who compute with *)
(* them: the decoders of the streams (rtcm/rtcm3.c) keep the last one each *)
(* and drop what they take for a repetition; cors_updnav (cors/cors.c)     *)
(* keeps the current one and the one before of all that the streams sent;  *)
(* seleph and selgeph (gpos/ephemeris.c) choose.                           *)
(*                                                                         *)
(* An issue stands for its time of ephemeris.  Streams may be any number   *)
(* of issues behind.  The families of messages differ in what they         *)
(* compare: "iode" (1019, 1044, 1045, 1046), "toe" (1042) and "glo"        *)
(* (1020), where the health may change within an issue.  The copies of     *)
(* cors_updnav are one step.                                               *)
(***************************************************************************)
EXTENDS Naturals

CONSTANTS
  Streams,
  Families,   \* of {"iode", "toe", "glo"}
  MaxIssue,   \* bound: the last issue of the satellite
  IodeMod     \* issues of data repeat after so many issues

\* What the theorems assume.
EphBounds ==
  /\ Families \subseteq {"iode", "toe", "glo"}
  /\ MaxIssue \in Nat \ {0} /\ IodeMod \in Nat \ {0}

VARIABLES
  fam,        \* the family of the satellite's messages
  air,        \* what the satellite broadcasts
  on,         \* what each station's receiver has of it
  own,        \* rtcm->nav of each stream
  cur, prev,  \* the two generations of cors->nav
  seen,       \* history: the issues that reached cors_updnav
  overtaken,  \* history: one of them came after a newer one, and was not the second newest
  reused      \* history: an issue had the issue of data of another that it was compared with

vars == <<fam, air, on, own, cur, prev, seen, overtaken, reused>>

Ephs == [issue : 0 .. MaxIssue, bad : BOOLEAN]
Empty == [issue |-> 0, bad |-> FALSE]
Iode(e) == IF e.issue = 0 THEN IodeMod ELSE e.issue % IodeMod

Init == /\ fam \in Families
        /\ air = [issue |-> 1, bad |-> FALSE]
        /\ on = [s \in Streams |-> Empty] /\ own = [s \in Streams |-> Empty]
        /\ cur = Empty /\ prev = Empty
        /\ seen = {} /\ overtaken = FALSE /\ reused = FALSE

-----------------------------------------------------------------------------
\* The satellite and the stations

Upload ==
  /\ air.issue < MaxIssue
  /\ air' = [issue |-> air.issue + 1, bad |-> FALSE]
  /\ UNCHANGED <<fam, on, own, cur, prev, seen, overtaken, reused>>

ChangeHealth ==
  /\ fam = "glo"
  /\ air' = [air EXCEPT !.bad = ~air.bad]
  /\ UNCHANGED <<fam, on, own, cur, prev, seen, overtaken, reused>>

Track(s) ==
  /\ on' = [on EXCEPT ![s] = air]
  /\ UNCHANGED <<fam, air, own, cur, prev, seen, overtaken, reused>>

-----------------------------------------------------------------------------
\* The server

\* What a decoder takes for the ephemeris that it has.
Unchanged(o, e) ==
  CASE fam = "iode" -> Iode(e) = Iode(o)
    [] fam = "toe"  -> e.issue = o.issue /\ Iode(e) = Iode(o)
    [] fam = "glo"  -> e.issue = o.issue /\ e.bad = o.bad

\* What cors_updnav takes for a new one
New(e) ==
  \/ cur = Empty
  \/ Iode(e) \notin {Iode(cur), Iode(prev)}
  \/ fam # "glo" /\ e.issue \notin {cur.issue, prev.issue}

Clash(e, others) == \E o \in others : o.issue \notin {0, e.issue} /\ Iode(o) = Iode(e)

Newest(k) == k \in seen /\ \A j \in seen : j <= k
Second(k) == k \in seen /\ \E j \in seen : j > k /\ \A i \in seen \ {j} : i <= k

\* A message of stream s with the ephemeris.
Send(s) ==
  LET e == on[s] IN
  /\ e.issue > 0
  /\ IF Unchanged(own[s], e)
     THEN UNCHANGED <<own, cur, prev, seen, overtaken>>
     ELSE /\ own' = [own EXCEPT ![s] = e]
          /\ IF New(e) THEN cur' = e /\ prev' = cur ELSE UNCHANGED <<cur, prev>>
          /\ seen' = seen \union {e.issue}
          /\ overtaken' = (overtaken \/ ~(\A k \in seen : k <= e.issue \/ Second(e.issue)))
  /\ reused' = (reused \/ (fam = "iode" /\ Clash(e, {own[s]}))
                       \/ (fam = "glo" /\ Clash(e, {cur, prev})))
  /\ UNCHANGED <<fam, air, on>>

Next == Upload \/ ChangeHealth \/ (\E s \in Streams : Track(s) \/ Send(s))

Spec == Init /\ [][Next]_vars

-----------------------------------------------------------------------------
\* The ephemeris nearest to the present.  The generation before lies behind
\* nav->n for all families but "glo" (cors_initnav).
Selected == IF fam = "glo" /\ prev.issue > cur.issue THEN prev ELSE cur

TypeOK ==
  /\ fam \in Families /\ air \in Ephs
  /\ on \in [Streams -> Ephs] /\ own \in [Streams -> Ephs]
  /\ cur \in Ephs /\ prev \in Ephs
  /\ seen \subseteq 1 .. MaxIssue /\ overtaken \in BOOLEAN /\ reused \in BOOLEAN

\* However far streams are behind and however often they repeat what they have,
\* the newest issue that came is the one computed with, as long as none but the
\* two newest come late and no issue of data comes twice.
KeptNewest ==
  (seen # {} /\ ~overtaken /\ ~reused) => Newest(Selected.issue)

\* A newest issue is computed with as soon as it comes, also after older ones
\* had replaced newer ones.
Recovers ==
  [][ \A k \in seen' : (~reused' /\ \A j \in seen : j < k) => Selected'.issue = k ]_vars

=============================================================================
