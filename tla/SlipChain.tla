----------------------------- MODULE SlipChain -----------------------------
(***************************************************************************)
(* A cycle slip on its way from a station's receiver to the filter: the    *)
(* lock time and the half-cycle bit of a message become the loss-of-lock   *)
(* indicator (LLI) of an observation (lossoflock and save_msm_obs in       *)
(* rtcm/rtcm3.c), cors_updobs overwrites the epoch that nobody took, and   *)
(* detslp_ll (gpos/rtkpos.c) looks for the slip in the epochs that an      *)
(* engine does take.  One signal of one satellite, one engine.             *)
(***************************************************************************)
EXTENDS Naturals

CONSTANT MaxLock   \* bound: lock times count up to here

\* What the theorems assume.
LockBound == MaxLock \in Nat \ {0}

VARIABLES
  age, half,   \* the receiver: epochs since the last slip; half-cycle ambiguity open
  lock,        \* rtcm->lock
  store,       \* the station's observation in cors->obs, and whether it is untaken
  mem,         \* the LLI that ssat->slip remembers
  flag,        \* the filter starts the phase anew
  later        \* history: what happened since the epoch in the store

vars == <<age, half, lock, store, mem, flag, later>>

\* What happened between two epochs that were taken: a slip; an LLI other than 0
\* that was not taken; a lock time that had outgrown the one before the slip; a
\* slip while the half-cycle ambiguity was open.
Tags == {"slip", "skipped", "outgrown", "masked"}
LLIs == 0 .. 4
Slip(lli) == lli % 2 = 1          \* LLI_SLIP
Half(lli) == (lli \div 2) % 2 = 1 \* LLI_HALFC

Init == /\ age = 0 /\ half \in BOOLEAN
        /\ lock = 0
        /\ store = [lli |-> 0, fresh |-> FALSE, tags |-> {}]
        /\ mem = 0 /\ flag = FALSE /\ later = {"slip"}

\* lossoflock
Loss(l) == (l = 0 /\ lock = 0) \/ l < lock

\* save_msm_obs: the sum of both
LLI(l, h) == (IF Loss(l) THEN 1 ELSE 0) + (IF h THEN 3 ELSE 0)

\* The receiver comes to the next epoch: with a slip, after which it has tracked
\* the signal for up to an epoch, or without.
Track(slip) ==
  /\ IF slip THEN age' \in 0 .. 1 ELSE age' = IF age < MaxLock THEN age + 1 ELSE age
  /\ half' \in IF slip \/ half THEN BOOLEAN ELSE {FALSE}

Happened(slip) == IF slip THEN {"slip"} ELSE {}

\* The message with the satellite is lost.
Lost(slip) ==
  /\ Track(slip)
  /\ later' = later \union Happened(slip)
  /\ UNCHANGED <<lock, store, mem, flag>>

\* What hides a slip that the message should report.
Blurred(tags) == {x \in {"outgrown"} : "slip" \in tags /\ age' > 0 /\ age' >= lock}
                   \union {x \in {"masked"} : "slip" \in tags /\ half'}

\* The message comes, but the one that ends the epoch does not.
Dropped(slip) ==
  LET tags == later \union Happened(slip) IN
  /\ Track(slip)
  /\ lock' = age'
  /\ later' = tags \union Blurred(tags)
                \union {x \in {"skipped"} : LLI(age', half') # 0}
  /\ UNCHANGED <<store, mem, flag>>

\* The epoch is complete: cors_updobs overwrites the one before.
UpdObs(slip) ==
  LET tags == later \union Happened(slip) IN
  /\ Track(slip)
  /\ lock' = age'
  /\ store' = [lli |-> LLI(age', half'), fresh |-> TRUE,
               tags |-> tags \union Blurred(tags)
                          \union (IF store.fresh THEN store.tags ELSE {})
                          \union {x \in {"skipped"} : store.fresh /\ store.lli # 0}]
  /\ later' = {}
  /\ UNCHANGED <<mem, flag>>

\* detslp_ll
Detect(lli) == Slip(lli) \/ Half(mem) # Half(lli)

\* An engine takes the epoch.
Take ==
  /\ store.fresh /\ store' = [store EXCEPT !.fresh = FALSE]
  /\ flag' = Detect(store.lli) /\ mem' = store.lli
  /\ UNCHANGED <<age, half, lock, later>>

Next == Take \/ \E slip \in BOOLEAN : Lost(slip) \/ Dropped(slip) \/ UpdObs(slip)

Spec == Init /\ [][Next]_vars

-----------------------------------------------------------------------------
TypeOK ==
  /\ age \in 0 .. MaxLock /\ half \in BOOLEAN /\ lock \in 0 .. MaxLock
  /\ store \in [lli : LLIs, fresh : BOOLEAN, tags : SUBSET Tags]
  /\ mem \in LLIs /\ flag \in BOOLEAN /\ later \subseteq Tags

Taken == store.fresh /\ ~store'.fresh

\* A slip between two epochs that are taken starts the phase anew, unless the LLI
\* that told of it was in an epoch nobody took, the signal was back for longer
\* than it had been tracked before, or the half-cycle ambiguity is open.
SlipFlagged ==
  [][(Taken /\ "slip" \in store.tags)
       => flag' \/ store.tags \intersect {"skipped", "outgrown", "masked"} # {}]_vars

\* Without a slip the phase is started anew only while the half-cycle ambiguity
\* is open or has just been resolved.
NoFalseAlarm ==
  [][(Taken /\ flag') => "slip" \in store.tags \/ Half(store.lli) \/ Half(mem)]_vars

=============================================================================
