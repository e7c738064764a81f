------------------------------ MODULE SrtkProofs ------------------------------
(***************************************************************************)
(* Proofs about the RTK engine, for any stations and any number of epochs  *)
(* and requests.                                                           *)
(***************************************************************************)
EXTENDS Srtk, TLAPS, FiniteSetTheorems

RtkType == [pc : RtkPC, bl : 0 .. MaxAdd, side : {1, 2}, time_cur : Time,
            obs : Time \X Time, on : Int]
WorkType == [pc : WorkPC, task : Task \union {<<>>}, on : Int]

\* Where the two threads are, and which baseline the rtk thread is at: one of the table
\* while it is compared, one that was removed while it waits to free it.
Threads == /\ rt \in RtkType /\ wk \in WorkType
           /\ rt.pc = "boot" => state \in {0, 1}
           /\ rt.pc = "started" => rt.on \in {0, 1}
           /\ rt.pc \in {"time", "check", "copy", "queue"} => rt.bl \in Table
           /\ rt.pc = "spin" => rt.bl \in Baseline /\ bl[rt.bl].at = "removed"
           /\ wk.pc \in {"solve", "dec", "publish"} => wk.task \in Task
           /\ ended # <<>> => rt.pc = "crashed" /\ wk.pc = "crashed"

\* Baselines are made in the order of their numbers, for requests that were counted.
Births == /\ \A b \in Baseline : bl[b].at # "unborn" => bl[b].pair \in Pair
          /\ \E k \in 0 .. MaxAdd : /\ k + Len(addbl_queue) <= nadd
                                  /\ \A b \in Baseline : bl[b].at = "unborn" <=> b > k

TypeInv == TypeOK /\ Threads /\ Births

\* What was freed was not needed, as far as its count is right.
FreedUnused ==
  \A b \in Baseline \ torn : bl[b].at = "freed" => bl[b].on = 0 \/ wk.pc \in {"exited", "crashed"}

\* All that was solved, is solved or waits to be solved of a baseline is before t.
Before(b, t) == /\ solved[b] < t
                /\ wk.pc = "solve" /\ wk.task.bl = b => Epoch(wk.task) < t
                /\ \A i \in Waiting(b) : Epoch(rtkpos_queue[i]) < t

\* bl->time is not before the last epoch queued, and already set when its task is not
\* yet inserted.
TimeIsLast == /\ \A b \in Baseline : Before(b, bl[b].time + 1)
              /\ rt.pc = "queue" => /\ rt.obs[1] <= bl[rt.bl].time
                                    /\ Before(rt.bl, rt.obs[1])

\* What was read of the stations is not later than what they have, and what passes the
\* checks is later than bl->time.
Readings ==
  /\ \A b \in Baseline : IF bl[b].at = "unborn" THEN bl[b].time = none ELSE
       \E i \in {1, 2} : bl[b].time <= obs[bl[b].pair[i]]
  /\ rt.pc = "time" /\ rt.side = 2 =>
       bl[rt.bl].time <= rt.time_cur \/ bl[rt.bl].time <= obs[bl[rt.bl].pair[1]]
  /\ rt.pc = "check" \/ (rt.pc = "copy" /\ rt.side = 1) => bl[rt.bl].time < rt.time_cur
  /\ (rt.pc = "check" /\ rt.side = 2) \/ (rt.pc = "copy" /\ rt.side = 1) =>
       rt.time_cur <= obs[bl[rt.bl].pair[2]]
  /\ rt.pc = "copy" /\ rt.side = 2 =>
       bl[rt.bl].time < rt.obs[1] /\ rt.obs[1] <= obs[bl[rt.bl].pair[2]]

OrderInv == EpochsInOrder /\ TimeIsLast /\ Readings

-----------------------------------------------------------------------------
(* Types.                                                                  *)

\* The memory of a baseline that is made is there.
LEMMA NewBaseline ==
  ASSUME SrtkAssumption, TypeInv, addbl_queue # <<>>, NEW p
  PROVE  /\ New(p) \in Baseline /\ bl[New(p)].at = "unborn"
         /\ \A b \in Baseline : b < New(p) => bl[b].at # "unborn"
<1>1. addbl_queue \in Seq(Pair) /\ Len(addbl_queue) \in Nat \ {0}
  BY DEF TypeInv, TypeOK
<1>2. PICK k \in 0 .. MaxAdd : /\ k + Len(addbl_queue) <= nadd
                             /\ \A b \in Baseline : bl[b].at = "unborn" <=> b > k
  BY DEF TypeInv, Births
<1>3. k + 1 \in Baseline
  BY <1>1, <1>2 DEF TypeInv, TypeOK, Baseline, SrtkAssumption
<1>4. bl[k + 1].at = "unborn" /\ \A c \in Baseline : c < k + 1 => bl[c].at # "unborn"
  BY <1>2, <1>3 DEF Baseline
<1> QED BY <1>3, <1>4 DEF New

\* One of two epochs is kept as it is when the other is set.
LEMMA SetOne ==
  ASSUME NEW f \in Time \X Time, NEW i \in {1, 2}, NEW t \in Time
  PROVE  /\ [f EXCEPT ![i] = t] \in Time \X Time
         /\ [f EXCEPT ![i] = t][i] = t
         /\ [f EXCEPT ![i] = t][3 - i] = f[3 - i]
OBVIOUS

\* What a thread that moves and notes a count keeps.
LEMMA MoveRtk ==
  \A r \in RtkType : \A pc \in RtkPC : \A n \in Int :
    /\ [r EXCEPT !.pc = pc, !.on = n] \in RtkType
    /\ [r EXCEPT !.pc = pc, !.on = n].pc = pc
    /\ [r EXCEPT !.pc = pc, !.on = n].on = n
BY DEF RtkType

LEMMA MoveWork ==
  \A w \in WorkType : \A pc \in WorkPC : \A n \in Int :
    /\ [w EXCEPT !.pc = pc, !.on = n] \in WorkType
    /\ [w EXCEPT !.pc = pc, !.on = n].pc = pc
    /\ [w EXCEPT !.pc = pc, !.on = n].task = w.task
BY DEF WorkType

LEMMA InitTypes == SrtkAssumption /\ Init => TypeInv
<1> SUFFICES ASSUME SrtkAssumption, Init PROVE TypeInv
  OBVIOUS
<1>1. none \in Time /\ 0 \in 0 .. MaxAdd /\ 0 \in 0 .. MaxDel /\ <<none, none>> \in Time \X Time
  BY DEF SrtkAssumption, none, Time
<1>2. TypeOK
  BY <1>1 DEF Init, TypeOK, BaselineType, Place, RtkPC, WorkPC
<1>3. Threads
  BY <1>1 DEF Init, Threads, RtkType, WorkType, RtkPC, WorkPC
<1>4. Births
  <2>1. 0 + Len(addbl_queue) <= nadd /\ \A b \in Baseline : bl[b].at = "unborn" <=> b > 0
    BY DEF Init, Baseline
  <2> QED BY <2>1 DEF Births, Init
<1> QED BY <1>2, <1>3, <1>4 DEF TypeInv

\* What a step leaves alone keeps its types.
LEMMA TypesKept ==
  ASSUME SrtkAssumption, TypeInv, UNCHANGED <<bl, addbl_queue, nadd>>
  PROVE  Births'
BY DEF TypeInv, Births

\* Steps of the other threads.
LEMMA TypesOthers ==
  ASSUME SrtkAssumption, TypeInv,
         \/ \E s \in Srcid : UpdObs(s)
         \/ \E p \in Pair : AddBaseline(p) \/ DelBaseline(p)
         \/ Close \/ Joined
  PROVE  TypeInv'
<1> USE DEF TypeInv
<1>1. ASSUME NEW s \in Srcid, UpdObs(s) PROVE TypeInv'
  <2>1. TypeOK'
    BY <1>1 DEF UpdObs, TypeOK, apiVars, history
  <2>2. Threads'
    BY <1>1 DEF UpdObs, Threads, Table, apiVars, history
  <2> QED BY <1>1, <2>1, <2>2, TypesKept DEF UpdObs, apiVars
<1>2. ASSUME NEW p \in Pair, AddBaseline(p) PROVE TypeInv'
  <2>1. TypeOK'
    BY <1>2 DEF AddBaseline, TypeOK, history, SrtkAssumption
  <2>2. Threads'
    BY <1>2 DEF AddBaseline, Threads, Table, history
  <2>3. Births'
    <3>1. PICK k \in 0 .. MaxAdd : /\ k + Len(addbl_queue) <= nadd
                                 /\ \A b \in Baseline : bl[b].at = "unborn" <=> b > k
      BY DEF Births
    <3>2. Len(addbl_queue') = Len(addbl_queue) + 1 /\ nadd' = nadd + 1 /\ bl' = bl
      BY <1>2 DEF AddBaseline, TypeOK
    <3>3. Len(addbl_queue) \in Nat /\ nadd \in Nat
      BY DEF TypeOK, SrtkAssumption
    <3>4. k + Len(addbl_queue') <= nadd'
      BY <3>1, <3>2, <3>3
    <3> QED BY <3>1, <3>2, <3>4 DEF Births
  <2> QED BY <2>1, <2>2, <2>3
<1>3. ASSUME NEW p \in Pair, DelBaseline(p) PROVE TypeInv'
  <2>1. TypeOK'
    BY <1>3 DEF DelBaseline, TypeOK, Find, Table, history, SrtkAssumption
  <2>2. Threads'
    BY <1>3 DEF DelBaseline, Threads, Table, history
  <2> QED BY <1>3, <2>1, <2>2, TypesKept DEF DelBaseline
<1>4. ASSUME Close PROVE TypeInv'
  <2>1. TypeOK'
    BY <1>4 DEF Close, TypeOK, apiVars, history
  <2>2. Threads'
    BY <1>4 DEF Close, Threads, Table, apiVars, history
  <2> QED BY <1>4, <2>1, <2>2, TypesKept DEF Close, apiVars
<1>5. ASSUME Joined PROVE TypeInv'
  <2>1. /\ bl' \in [Baseline -> BaselineType]
        /\ \A b \in Baseline : bl'[b].pair = bl[b].pair /\ (bl'[b].at = "unborn" <=> bl[b].at = "unborn")
    BY <1>5 DEF Joined, TypeOK, BaselineType, Place, Table
  <2>2. TypeOK'
    BY <1>5, <2>1 DEF Joined, TypeOK, apiVars, history
  <2>3. Threads'
    BY <1>5 DEF Joined, Threads, history
  <2>4. Births'
    BY <1>5, <2>1 DEF Joined, Births, apiVars
  <2> QED BY <2>2, <2>3, <2>4
<1> QED BY <1>1, <1>2, <1>3, <1>4, <1>5

\* A crash.
LEMMA TypesCrash ==
  ASSUME SrtkAssumption, TypeInv, NEW where \in {"twice", "solve", "dec", "publish"},
         NEW b \in Baseline, Crash(where, b)
  PROVE  TypeInv'
<1>1. TypeOK'
  BY DEF TypeInv, TypeOK, Threads, Crash, RtkType, WorkType, RtkPC, WorkPC, apiVars
<1>2. Threads'
  BY DEF TypeInv, Threads, Crash, RtkType, WorkType, RtkPC, WorkPC
<1> QED BY <1>1, <1>2, TypesKept DEF Crash, apiVars, TypeInv

\* Steps of the rtk thread that change nothing but where it is.
LEMMA TypesWatch ==
  ASSUME SrtkAssumption, TypeInv,
         Start \/ Started \/ Loop \/ Iter \/ ReadTime \/ Check \/ AddsDone \/ DelsDone
  PROVE  TypeInv'
<1> USE DEF TypeInv
<1>0. none \in Time
  BY DEF none, Time, SrtkAssumption
<1>1. ASSUME Start \/ Started \/ Loop PROVE TypeInv'
  <2>1. rt \in RtkType /\ state \in 0 .. 2 /\ 0 \in 0 .. MaxAdd
    BY DEF Threads, TypeOK, SrtkAssumption
  <2>2. /\ rt' \in RtkType
        /\ rt'.pc \in {"started", "loop", "exited", "iter"}
        /\ rt'.pc = "started" => rt'.on \in {0, 1}
        /\ state' \in 0 .. 2
    <3>1. CASE Start
      <4>1. rt' = [rt EXCEPT !.pc = "started", !.on = state]
        BY ONLY <3>1, Zenon DEF Start
      <4>2. state \in {0, 1}
        BY ONLY <3>1, TypeInv, Zenon DEF TypeInv, Start, Threads
      <4>3. "started" \in RtkPC /\ state \in Int
        BY <4>2 DEF RtkPC
      <4>4. rt' \in RtkType /\ rt'.pc = "started" /\ rt'.on = state
        <5>1. /\ [rt EXCEPT !.pc = "started", !.on = state] \in RtkType
              /\ [rt EXCEPT !.pc = "started", !.on = state].pc = "started"
              /\ [rt EXCEPT !.pc = "started", !.on = state].on = state
          <6>1. \A n \in Int : /\ [rt EXCEPT !.pc = "started", !.on = n] \in RtkType
                               /\ [rt EXCEPT !.pc = "started", !.on = n].pc = "started"
                               /\ [rt EXCEPT !.pc = "started", !.on = n].on = n
            BY ONLY <2>1, <4>3, MoveRtk, Zenon
          <6> QED BY ONLY <4>3, <6>1, Zenon
        <5> QED BY ONLY <4>1, <5>1, Zenon
      <4>5. state' = state
        BY ONLY <3>1, Zenon DEF Start
      <4> QED BY ONLY <2>1, <4>2, <4>4, <4>5, SMT
    <3>2. CASE Started
      <4>1. state' = rt.on + 1 /\ rt' = [rt EXCEPT !.pc = "loop", !.on = 0]
        BY ONLY <3>2, Zenon DEF Started
      <4>2. rt.on \in {0, 1}
        BY ONLY <3>2, TypeInv, Zenon DEF TypeInv, Started, Threads
      <4>3. "loop" \in RtkPC /\ 0 \in Int
        BY DEF RtkPC
      <4>4. rt' \in RtkType /\ rt'.pc = "loop"
        BY ONLY <2>1, <4>1, <4>3, MoveRtk, Zenon
      <4>5. state' \in 0 .. 2
        BY <4>1, <4>2
      <4> QED BY ONLY <4>4, <4>5, Zenon
    <3>3. CASE Loop
      BY <2>1, <3>3 DEF Loop, Threads, RtkType, RtkPC
    <3> QED BY <1>1, <3>1, <3>2, <3>3
  <2>3. /\ rt.pc \in {"boot", "started", "loop"}
        /\ UNCHANGED <<obs, bl, apiVars, rtkpos_queue, wk, edge_bl, solved, history>>
    BY <1>1 DEF Start, Started, Loop
  <2>4. TypeOK'
    BY <2>2, <2>3 DEF TypeOK, RtkType, apiVars, history
  <2>5. Threads'
    BY <2>2, <2>3 DEF Threads, Table, history
  <2> QED BY <2>3, <2>4, <2>5, TypesKept DEF apiVars
<1>4. ASSUME Iter PROVE TypeInv'
  <2>1. \/ rt' = [rt EXCEPT !.pc = "adds"]
        \/ \E b \in Table, pc \in {"iter", "time"} :
             rt' = [rt EXCEPT !.bl = b, !.side = 1, !.time_cur = none, !.pc = pc]
    BY <1>4 DEF Iter
  <2>2. Table \subseteq Baseline /\ Baseline \subseteq 0 .. MaxAdd
    BY DEF Table, Baseline, SrtkAssumption
  <2>3. /\ rt' \in RtkType
        /\ rt'.pc \in {"adds", "iter", "time"} /\ (rt'.pc = "time" => rt'.bl \in Table)
    BY <1>0, <2>1, <2>2 DEF Threads, RtkType, RtkPC
  <2>4. rt.pc = "iter" /\ UNCHANGED <<obs, bl, apiVars, rtkpos_queue, state, wk, edge_bl, solved,
                                      history>>
    BY <1>4 DEF Iter
  <2>5. TypeOK'
    BY <2>3, <2>4 DEF TypeOK, RtkType, apiVars, history
  <2>6. Threads'
    BY <2>3, <2>4 DEF Threads, Table, history
  <2> QED BY <2>4, <2>5, <2>6, TypesKept DEF apiVars
<1>5. ASSUME ReadTime \/ Check PROVE TypeInv'
  <2>1. rt.bl \in Baseline /\ rt.bl \in Table /\ bl[rt.bl].pair \in Pair /\ rt.side \in {1, 2}
    BY <1>5 DEF ReadTime, Check, Threads, Table, Births, RtkType
  <2>2. Now \in Time /\ rt.time_cur \in Time
    BY <2>1 DEF TypeOK, Now, Pair, Threads, RtkType
  <2>3. \E t \in Time, pc \in {"time", "iter", "check", "copy"} :
          rt' = [rt EXCEPT !.time_cur = t, !.side = 3 - rt.side, !.pc = pc]
    <3>1. CASE ReadTime
      BY <2>2, <3>1 DEF ReadTime, Later
    <3>2. CASE Check
      <4> DEFINE pc == IF Now # rt.time_cur THEN "iter" ELSE IF rt.side = 1 THEN "check" ELSE "copy"
      <4>1. rt' = [rt EXCEPT !.side = 3 - rt.side, !.pc = pc]
        BY <3>2 DEF Check
      <4>2. rt' = [rt EXCEPT !.time_cur = rt.time_cur, !.side = 3 - rt.side, !.pc = pc]
        BY <4>1 DEF Threads, RtkType
      <4>3. pc \in {"time", "iter", "check", "copy"}
        OBVIOUS
      <4> QED BY <2>2, <4>2, <4>3
    <3> QED BY <1>5, <3>1, <3>2
  <2>4. rt' \in RtkType /\ rt'.bl = rt.bl /\ rt'.pc \in {"time", "iter", "check", "copy"}
    <3>1. PICK t \in Time, pc \in {"time", "iter", "check", "copy"} :
            rt' = [rt EXCEPT !.time_cur = t, !.side = 3 - rt.side, !.pc = pc]
      BY <2>3
    <3>2. 3 - rt.side \in {1, 2} /\ pc \in RtkPC
      BY <2>1 DEF RtkPC
    <3> QED BY <3>1, <3>2 DEF Threads, RtkType
  <2>5. UNCHANGED <<obs, bl, apiVars, rtkpos_queue, state, wk, edge_bl, solved, history>>
        /\ rt.pc \in {"time", "check"}
    BY <1>5 DEF ReadTime, Check
  <2>6. TypeOK'
    BY <2>4, <2>5 DEF TypeOK, RtkType, apiVars, history
  <2>7. Threads'
    BY <2>1, <2>4, <2>5 DEF Threads, Table, history
  <2> QED BY <2>5, <2>6, <2>7, TypesKept DEF apiVars
<1>6. ASSUME AddsDone \/ DelsDone PROVE TypeInv'
  <2>1. TypeOK'
    BY <1>6 DEF AddsDone, DelsDone, TypeOK, Threads, RtkType, RtkPC, apiVars, history
  <2>2. Threads'
    BY <1>6 DEF AddsDone, DelsDone, TypeOK, Threads, RtkType, RtkPC, Table, apiVars, history
  <2> QED BY <1>6, <2>1, <2>2, TypesKept DEF AddsDone, DelsDone, apiVars
<1> QED BY <1>1, <1>4, <1>5, <1>6

\* A task has the epochs that its baseline's stations have now.
LEMMA TypesCopy == SrtkAssumption /\ TypeInv /\ Copy => TypeInv'
<1> SUFFICES ASSUME SrtkAssumption, TypeInv, Copy PROVE TypeInv'
  OBVIOUS
<1> USE DEF TypeInv
<1>1. /\ rt \in RtkType /\ rt.bl \in Baseline /\ rt.bl \in Table /\ bl[rt.bl].pair \in Pair
      /\ rt.side \in {1, 2} /\ 3 - rt.side \in {1, 2}
      /\ bl[rt.bl] \in BaselineType /\ bl \in [Baseline -> BaselineType]
  BY DEF Copy, Threads, Table, Births, RtkType, TypeOK
<1>2. Now \in Time /\ Later(rt.obs[1], Now) \in Time
  BY <1>1 DEF TypeOK, Now, Pair, RtkType, Later
<1>3. rt' \in RtkType /\ rt'.bl = rt.bl /\ rt'.pc \in {"copy", "queue"}
  <2>1. [rt.obs EXCEPT ![rt.side] = Now] \in Time \X Time
    BY <1>1, <1>2, SetOne DEF RtkType
  <2> QED BY <1>1, <2>1 DEF Copy, RtkType, RtkPC, BaselineType
<1>4. /\ bl' \in [Baseline -> BaselineType]
      /\ \A b \in Baseline : bl'[b].at = bl[b].at /\ bl'[b].pair = bl[b].pair
  BY <1>1, <1>2 DEF Copy, BaselineType
<1>5. rt.pc = "copy" /\ UNCHANGED <<obs, apiVars, rtkpos_queue, state, wk, edge_bl, solved, history>>
  BY DEF Copy
<1>6. TypeOK'
  BY <1>3, <1>4, <1>5 DEF TypeOK, RtkType, apiVars, history
<1>7. Threads'
  BY <1>1, <1>3, <1>4, <1>5 DEF Threads, Table, history
<1>8. Births'
  BY <1>4, <1>5 DEF Births, apiVars
<1> QED BY <1>6, <1>7, <1>8

LEMMA TypesQueue == SrtkAssumption /\ TypeInv /\ Queue => TypeInv'
<1> SUFFICES ASSUME SrtkAssumption, TypeInv, Queue PROVE TypeInv'
  OBVIOUS
<1> USE DEF TypeInv
<1>1. /\ rt \in RtkType /\ rt.bl \in Baseline /\ rt.bl \in Table
      /\ bl \in [Baseline -> BaselineType]
  BY DEF Queue, Threads, Table, RtkType, TypeOK
<1>2. rt' \in RtkType /\ rt'.bl = rt.bl /\ rt'.pc = "iter"
  BY <1>1 DEF Queue, RtkType, RtkPC
<1>3. /\ bl' \in [Baseline -> BaselineType]
      /\ \A b \in Baseline : bl'[b].at = bl[b].at /\ bl'[b].pair = bl[b].pair
  <2>1. bl' = [bl EXCEPT ![rt.bl].on = rt.on + 1] /\ rt.on + 1 \in Int
    BY <1>1 DEF Queue, RtkType
  <2> QED BY <1>1, <2>1 DEF BaselineType
<1>4. /\ rtkpos_queue' \in Seq(Task)
      /\ torn' \subseteq Baseline /\ behind' \subseteq Baseline
  BY <1>1 DEF Queue, TypeOK, Task, RtkType
<1>5. rt.pc = "queue" /\ UNCHANGED <<obs, apiVars, state, wk, edge_bl, solved, ended>>
  BY DEF Queue
<1>6. TypeOK'
  BY <1>2, <1>3, <1>4, <1>5 DEF TypeOK, RtkType, apiVars
<1>7. Threads'
  BY <1>1, <1>2, <1>3, <1>5 DEF Threads, Table
<1>8. Births'
  BY <1>3, <1>5 DEF Births, apiVars
<1> QED BY <1>6, <1>7, <1>8

LEMMA TypesAdd == SrtkAssumption /\ TypeInv /\ DoAddBaseline => TypeInv'
<1> SUFFICES ASSUME SrtkAssumption, TypeInv, DoAddBaseline PROVE TypeInv'
  OBVIOUS
<1> USE DEF TypeInv
<1> DEFINE p == Head(addbl_queue)
<1>1. addbl_queue # <<>> /\ addbl_queue \in Seq(Pair) /\ p \in Pair
  BY DEF DoAddBaseline, TypeOK
<1>2. /\ New(p) \in Baseline /\ bl[New(p)].at = "unborn"
      /\ \A b \in Baseline : b < New(p) => bl[b].at # "unborn"
  BY <1>1, NewBaseline
<1>3. /\ addbl_queue' = Tail(addbl_queue) /\ addbl_queue' \in Seq(Pair)
      /\ Len(addbl_queue') = Len(addbl_queue) - 1 /\ Len(addbl_queue) \in Nat
  BY <1>1 DEF DoAddBaseline
<1>4. /\ rt.pc = "adds"
      /\ UNCHANGED <<obs, delbl_queue, nadd, ndel, rtkpos_queue, state, rt, wk, solved, history>>
  BY DEF DoAddBaseline
<1>5. bl \in [Baseline -> BaselineType] /\ Baseline \subseteq 0 .. MaxAdd
      /\ edge_bl \in [Pair -> 0 .. MaxAdd]
  BY DEF TypeOK, Baseline, SrtkAssumption
<1>6. CASE bl' = bl /\ edge_bl' \in [Pair -> 0 .. MaxAdd]
  <2>1. TypeOK'
    BY <1>3, <1>4, <1>6 DEF TypeOK, history
  <2>2. Threads'
    BY <1>4, <1>6 DEF Threads, Table, history
  <2>3. Births'
    <3>1. PICK k \in 0 .. MaxAdd : /\ k + Len(addbl_queue) <= nadd
                                   /\ \A b \in Baseline : bl[b].at = "unborn" <=> b > k
      BY DEF Births
    <3>2. k + Len(addbl_queue') <= nadd'
      BY <1>3, <1>4, <3>1 DEF TypeOK
    <3> QED BY <1>6, <3>1, <3>2 DEF Births
  <2> QED BY <2>1, <2>2, <2>3
<1>7. CASE /\ bl' = [bl EXCEPT ![New(p)].pair = p, ![New(p)].at = "table"]
           /\ edge_bl' = [edge_bl EXCEPT ![p] = New(p)]
  <2>1. /\ bl' \in [Baseline -> BaselineType]
        /\ \A b \in Baseline : b # New(p) => bl'[b] = bl[b]
        /\ bl'[New(p)].at = "table" /\ bl'[New(p)].pair = p
    BY <1>1, <1>2, <1>5, <1>7 DEF BaselineType, Place
  <2>2. edge_bl' \in [Pair -> 0 .. MaxAdd]
    BY <1>1, <1>2, <1>5, <1>7
  <2>3. TypeOK'
    BY <1>3, <1>4, <2>1, <2>2 DEF TypeOK, history
  <2>4. Threads'
    BY <1>2, <1>4, <2>1 DEF Threads, Table, history
  <2>5. Births'
    <3>1. PICK k \in 0 .. MaxAdd : /\ k + Len(addbl_queue) <= nadd
                                   /\ \A b \in Baseline : bl[b].at = "unborn" <=> b > k
      BY DEF Births
    <3>2. New(p) = k + 1
      <4>1. k + 1 <= New(p) /\ New(p) \in 1 .. MaxAdd
        BY <1>2, <3>1 DEF Baseline
      <4>2. k + 1 \in Baseline
        BY <3>1, <4>1 DEF Baseline, SrtkAssumption
      <4>3. bl[k + 1].at = "unborn"
        BY <3>1, <4>2
      <4> QED BY <1>2, <3>1, <4>1, <4>2, <4>3
    <3>3. (k + 1) + Len(addbl_queue') <= nadd' /\ k + 1 \in 0 .. MaxAdd
      BY <1>2, <1>3, <1>4, <3>1, <3>2 DEF TypeOK, Baseline, SrtkAssumption
    <3>4. \A b \in Baseline : bl'[b].at = "unborn" <=> b > k + 1
      BY <2>1, <3>1, <3>2 DEF Baseline
    <3>5. \A b \in Baseline : bl'[b].at # "unborn" => bl'[b].pair \in Pair
      BY <1>1, <2>1 DEF Births
    <3> QED BY <3>3, <3>4, <3>5 DEF Births
  <2> QED BY <2>3, <2>4, <2>5
<1>8. Find(Reverse(p)) \subseteq 0 .. MaxAdd
  BY <1>5 DEF Find, Table
<1> QED BY <1>1, <1>5, <1>6, <1>7, <1>8 DEF DoAddBaseline

LEMMA TypesDelete == SrtkAssumption /\ TypeInv /\ (Remove \/ Free \/ DoubleFree) => TypeInv'
<1> SUFFICES ASSUME SrtkAssumption, TypeInv, Remove \/ Free \/ DoubleFree PROVE TypeInv'
  OBVIOUS
<1> USE DEF TypeInv
<1>1. /\ rt \in RtkType /\ bl \in [Baseline -> BaselineType] /\ Baseline \subseteq 0 .. MaxAdd
      /\ delbl_queue \in Seq(Baseline)
  BY DEF Threads, TypeOK, Baseline, SrtkAssumption
<1>2. ASSUME Remove PROVE TypeInv'
  <2> DEFINE b0 == Head(delbl_queue)
  <2>1. b0 \in Baseline /\ bl[b0].at = "table" /\ Tail(delbl_queue) \in Seq(Baseline)
    BY <1>1, <1>2 DEF Remove
  <2>2. /\ bl' \in [Baseline -> BaselineType]
        /\ \A b \in Baseline \ {b0} : bl'[b] = bl[b]
        /\ bl'[b0].pair = bl[b0].pair /\ bl'[b0].at = "removed"
    BY <1>1, <1>2, <2>1 DEF Remove, BaselineType, Place
  <2>3. rt' \in RtkType /\ rt'.bl = b0 /\ rt'.pc = "spin"
    BY <1>1, <1>2, <2>1 DEF Remove, RtkType, RtkPC
  <2>4. /\ rt.pc = "dels" /\ delbl_queue' = Tail(delbl_queue)
        /\ UNCHANGED <<obs, addbl_queue, nadd, ndel, rtkpos_queue, state, wk, edge_bl, solved, history>>
    BY <1>2 DEF Remove
  <2>5. TypeOK'
    BY <2>1, <2>2, <2>3, <2>4 DEF TypeOK, RtkType, history
  <2>6. Threads'
    BY <2>1, <2>2, <2>3, <2>4 DEF Threads, history
  <2>7. Births'
    BY <2>1, <2>2, <2>4 DEF Births
  <2> QED BY <2>5, <2>6, <2>7
<1>3. ASSUME Free PROVE TypeInv'
  <2>1. rt.bl \in Baseline /\ bl[rt.bl].at = "removed"
    BY <1>3 DEF Free, Threads
  <2>2. /\ bl' \in [Baseline -> BaselineType]
        /\ \A b \in Baseline \ {rt.bl} : bl'[b] = bl[b]
        /\ bl'[rt.bl].pair = bl[rt.bl].pair /\ bl'[rt.bl].at = "freed"
    BY <1>1, <1>3, <2>1 DEF Free, BaselineType, Place
  <2>3. rt' \in RtkType /\ rt'.pc = "dels"
    BY <1>1, <1>3 DEF Free, RtkType, RtkPC
  <2>4. /\ rt.pc = "spin"
        /\ UNCHANGED <<obs, apiVars, rtkpos_queue, state, wk, edge_bl, solved, history>>
    BY <1>3 DEF Free
  <2>5. TypeOK'
    BY <2>1, <2>2, <2>3, <2>4 DEF TypeOK, RtkType, apiVars, history
  <2>6. Threads'
    BY <2>1, <2>2, <2>3, <2>4 DEF Threads, history
  <2>7. Births'
    BY <2>1, <2>2, <2>4 DEF Births, apiVars
  <2> QED BY <2>5, <2>6, <2>7
<1>4. ASSUME DoubleFree PROVE TypeInv'
  <2>1. Head(delbl_queue) \in Baseline /\ Crash("twice", Head(delbl_queue))
    BY <1>1, <1>4 DEF DoubleFree
  <2> QED BY <2>1, TypesCrash
<1> QED BY <1>2, <1>3, <1>4

\* Steps of the work thread.
LEMMA TypesWork == SrtkAssumption /\ TypeInv /\ WorkThread => TypeInv'
<1> SUFFICES ASSUME SrtkAssumption, TypeInv, WorkThread PROVE TypeInv'
  OBVIOUS
<1> USE DEF TypeInv
<1>1. /\ wk \in WorkType /\ bl \in [Baseline -> BaselineType] /\ rtkpos_queue \in Seq(Task)
  BY DEF Threads, TypeOK
<1>2. ASSUME wk.pc \in {"solve", "dec", "publish"}
      PROVE  wk.task \in Task /\ wk.task.bl \in Baseline /\ bl[wk.task.bl].on \in Int
             /\ Epoch(wk.task) \in Time
  BY <1>1, <1>2 DEF Threads, Task, BaselineType, Epoch, Later
<1>3. ASSUME WorkLoop \/ Take \/ Publish PROVE TypeInv'
  <2>1. /\ wk' \in WorkType /\ (wk'.pc = "solve" => wk'.task \in Task)
        /\ wk'.pc \in {"exited", "empty", "loop", "solve"}
        /\ rtkpos_queue' \in Seq(Task)
    <3>1. CASE WorkLoop
      BY <1>1, <3>1 DEF WorkLoop, WorkType, WorkPC
    <3>2. CASE Take
      <4>1. CASE rtkpos_queue = <<>>
        BY <1>1, <3>2, <4>1 DEF Take, WorkType, WorkPC
      <4>2. CASE rtkpos_queue # <<>>
        <5>1. Head(rtkpos_queue) \in Task /\ Tail(rtkpos_queue) \in Seq(Task)
          BY <1>1, <4>2
        <5>2. wk' = [wk EXCEPT !.pc = "solve", !.task = Head(rtkpos_queue)]
              /\ rtkpos_queue' = Tail(rtkpos_queue)
          BY <3>2, <4>2 DEF Take
        <5> QED BY <1>1, <5>1, <5>2 DEF WorkType, WorkPC
      <4> QED BY <4>1, <4>2
    <3>3. CASE Publish
      BY <1>1, <3>3 DEF Publish, WorkType, WorkPC
    <3> QED BY <1>3, <3>1, <3>2, <3>3
  <2>2. /\ wk.pc \in {"loop", "empty", "publish"}
        /\ UNCHANGED <<obs, bl, apiVars, state, rt, edge_bl, solved, history>>
    BY <1>3 DEF WorkLoop, Take, Publish
  <2>3. TypeOK'
    BY <2>1, <2>2 DEF TypeOK, WorkType, apiVars, history
  <2>4. Threads'
    BY <2>1, <2>2 DEF Threads, Table, history
  <2> QED BY <2>2, <2>3, <2>4, TypesKept DEF apiVars
<1>4. ASSUME Solve PROVE TypeInv'
  <2>1. /\ wk' \in WorkType /\ wk'.pc = "dec" /\ wk'.task = wk.task /\ wk.task \in Task
        /\ solved' \in [Baseline -> Time]
    BY <1>1, <1>2, <1>4 DEF Solve, WorkType, WorkPC, TypeOK
  <2>2. /\ wk.pc = "solve"
        /\ UNCHANGED <<obs, bl, apiVars, rtkpos_queue, state, rt, edge_bl, history>>
    BY <1>4 DEF Solve
  <2>3. TypeOK'
    BY <2>1, <2>2 DEF TypeOK, WorkType, apiVars, history
  <2>4. Threads'
    BY <2>1, <2>2 DEF Threads, Table, history
  <2> QED BY <2>2, <2>3, <2>4, TypesKept DEF apiVars
<1>5. ASSUME Dec PROVE TypeInv'
  <2>1. /\ wk' \in WorkType /\ wk'.pc = "publish" /\ wk'.task = wk.task /\ wk.task \in Task
        /\ wk.task.bl \in Baseline
    <3>1. wk.pc = "dec" /\ wk' = [wk EXCEPT !.pc = "publish", !.on = 0]
      BY ONLY <1>5, Zenon DEF Dec
    <3>2. "publish" \in WorkPC /\ 0 \in Int
      BY DEF WorkPC
    <3>3. wk' \in WorkType /\ wk'.pc = "publish" /\ wk'.task = wk.task
      BY ONLY <1>1, <3>1, <3>2, MoveWork, Zenon
    <3> QED BY <1>2, <3>1, <3>3
  <2>2. /\ bl' \in [Baseline -> BaselineType]
        /\ \A b \in Baseline : bl'[b].at = bl[b].at /\ bl'[b].pair = bl[b].pair
    <3>1. bl' = [bl EXCEPT ![wk.task.bl].on = wk.on - 1] /\ wk.on - 1 \in Int
      BY <1>1, <1>5 DEF Dec, WorkType
    <3> QED BY <1>1, <2>1, <3>1 DEF BaselineType
  <2>3. /\ wk.pc = "dec" /\ torn' \subseteq Baseline
        /\ UNCHANGED <<obs, apiVars, rtkpos_queue, state, rt, edge_bl, solved, behind, ended>>
    BY <1>5, <2>1 DEF Dec, TypeOK
  <2>4. TypeOK'
    BY <2>1, <2>2, <2>3 DEF TypeOK, WorkType, apiVars
  <2>5. Threads'
    BY <2>1, <2>2, <2>3 DEF Threads, Table
  <2>6. Births'
    BY <2>2, <2>3 DEF Births, apiVars
  <2> QED BY <2>4, <2>5, <2>6
<1>6. ASSUME UseAfterFree PROVE TypeInv'
  <2>1. wk.pc \in {"solve", "dec", "publish"} /\ Crash(wk.pc, wk.task.bl)
    BY <1>6 DEF UseAfterFree
  <2>2. wk.task.bl \in Baseline
    BY <1>2, <2>1
  <2> QED BY <2>1, <2>2, TypesCrash
<1> QED BY <1>3, <1>4, <1>5, <1>6 DEF WorkThread

LEMMA TypesStep == SrtkAssumption /\ TypeInv /\ [Next]_vars => TypeInv'
<1> SUFFICES ASSUME SrtkAssumption, TypeInv, [Next]_vars PROVE TypeInv'
  OBVIOUS
<1>1. CASE UNCHANGED vars
  BY <1>1 DEF vars, TypeInv, TypeOK, Threads, Births, Table
<1>2. CASE RtkThread
  BY <1>2, TypesWatch, TypesCopy, TypesQueue, TypesAdd, TypesDelete DEF RtkThread
<1> QED BY <1>1, <1>2, TypesOthers, TypesWork DEF Next

-----------------------------------------------------------------------------
(* One baseline for two stations.                                          *)

\* But for a baseline that is made, the table only shrinks.
LEMMA TableKept ==
  ASSUME SrtkAssumption, TypeInv, [Next]_vars, ~DoAddBaseline
  PROVE  /\ Table' \subseteq Table
         /\ \A b \in Baseline : bl'[b].pair = bl[b].pair
         /\ edge_bl' = edge_bl
<1> USE DEF TypeInv
<1>1. bl \in [Baseline -> BaselineType]
  BY DEF TypeOK
<1>2. CASE /\ bl' = bl /\ edge_bl' = edge_bl
  BY <1>2 DEF Table
<1>3. CASE Joined
  BY <1>1, <1>3 DEF Joined, Table, BaselineType
<1>4. CASE Copy
  BY <1>1, <1>4 DEF Copy, Table, BaselineType, Threads
<1>5. CASE Queue
  <2>1. /\ rt.bl \in Baseline /\ bl' = [bl EXCEPT ![rt.bl].on = rt.on + 1]
        /\ edge_bl' = edge_bl /\ rt.on + 1 \in Int
    BY <1>5 DEF Queue, Threads, Table, RtkType
  <2> QED BY <1>1, <2>1 DEF Table, BaselineType
<1>6. CASE Remove
  <2>1. /\ bl' = [bl EXCEPT ![Head(delbl_queue)].at = "removed"]
        /\ edge_bl' = edge_bl
    BY <1>6 DEF Remove
  <2> QED BY <1>1, <2>1 DEF Table, BaselineType
<1>7. CASE Free
  BY <1>1, <1>7 DEF Free, Table, BaselineType
<1>8. CASE Dec
  <2>1. /\ wk.task.bl \in Baseline /\ bl' = [bl EXCEPT ![wk.task.bl].on = wk.on - 1]
        /\ edge_bl' = edge_bl /\ wk.on - 1 \in Int
    BY <1>8 DEF Dec, Threads, Task, WorkType
  <2> QED BY <1>1, <2>1 DEF Table, BaselineType
<1> QED
  BY <1>2, <1>3, <1>4, <1>5, <1>6, <1>7, <1>8
  DEF Next, vars, UpdObs, AddBaseline, DelBaseline, Close, RtkThread, Start, Started, Loop,
      Iter, ReadTime, Check, AddsDone, DelsDone, DoubleFree, Crash, WorkThread, WorkLoop,
      Take, Solve, Publish, UseAfterFree

LEMMA OneStep ==
  SrtkAssumption /\ TypeInv /\ OneDirection /\ [Next]_vars => OneDirection'
<1> SUFFICES ASSUME SrtkAssumption, TypeInv, OneDirection, [Next]_vars PROVE OneDirection'
  OBVIOUS
<1>1. ASSUME ~DoAddBaseline PROVE OneDirection'
  <2>1. /\ Table' \subseteq Table
        /\ \A b \in Baseline : bl'[b].pair = bl[b].pair
        /\ edge_bl' = edge_bl
    BY <1>1, TableKept
  <2>2. Table' \subseteq Baseline
    BY DEF Table
  <2> QED BY <2>1, <2>2 DEF OneDirection, Find
<1>2. ASSUME DoAddBaseline PROVE OneDirection'
  <2>0. PICK p : p = Head(addbl_queue)
    OBVIOUS
  <2>1. /\ p \in Pair /\ Reverse(p) \in Pair /\ p # Reverse(p) /\ Reverse(Reverse(p)) = p
        /\ bl \in [Baseline -> BaselineType]
        /\ edge_bl \in [Pair -> 0 .. MaxAdd] /\ Table \subseteq Baseline
    BY <1>2, <2>0 DEF DoAddBaseline, TypeInv, TypeOK, Pair, Reverse, Table
  <2>2. CASE Find(p) # {} /\ UNCHANGED <<bl, edge_bl>>
    BY <2>2 DEF OneDirection, Table, Find
  <2>3. CASE /\ Find(p) = {}
             /\ \E b \in Find(Reverse(p)) : edge_bl' = [edge_bl EXCEPT ![p] = b]
             /\ UNCHANGED bl
    <3>1. PICK b0 : edge_bl' = [edge_bl EXCEPT ![p] = b0]
      BY <2>3
    <3>2. Table' = Table /\ \A q : Find(q)' = Find(q)
      BY <2>3 DEF Table, Find
    <3>3. \A b \in Table : bl[b].pair # p
      BY <2>3 DEF Find
    <3>4. \A b \in Table : edge_bl'[bl[b].pair] = edge_bl[bl[b].pair]
      BY <2>1, <3>1, <3>3 DEF TypeInv, Births, Table
    <3> QED BY <2>3, <3>2, <3>4 DEF OneDirection
  <2>4. CASE /\ Find(p) = {} /\ Find(Reverse(p)) = {}
             /\ bl' = [bl EXCEPT ![New(p)].pair = p, ![New(p)].at = "table"]
             /\ edge_bl' = [edge_bl EXCEPT ![p] = New(p)]
    <3>0. PICK n : n = New(p)
      OBVIOUS
    <3>1. n \in Baseline /\ bl[n].at = "unborn"
      BY <1>2, <3>0, NewBaseline DEF DoAddBaseline
    <3>2. /\ \A b \in Baseline : b # n => bl'[b] = bl[b]
          /\ bl'[n].at = "table" /\ bl'[n].pair = p
      BY <2>1, <2>4, <3>0, <3>1 DEF BaselineType
    <3>3. Table' = Table \union {n} /\ n \notin Table
      BY <3>1, <3>2 DEF Table
    <3>4. \A b \in Table : bl[b].pair \in Pair /\ bl[b].pair # p /\ bl[b].pair # Reverse(p)
      BY <2>4 DEF Find, Table, TypeInv, Births
    <3>5. \A b \in Table : /\ Find(bl[b].pair) = {b}
                           /\ Find(Reverse(bl[b].pair)) = {}
                           /\ edge_bl[bl[b].pair] = b
      BY DEF OneDirection
    <3>6. \A q : Find(q)' = IF q = p THEN {n} ELSE Find(q)
      BY <2>1, <2>4, <3>0, <3>1, <3>2, <3>3 DEF Find
    <3>7. \A b \in Table : bl'[b] = bl[b] /\ edge_bl'[bl[b].pair] = edge_bl[bl[b].pair]
      BY <2>1, <2>4, <3>0, <3>2, <3>3, <3>4
    <3>8. edge_bl'[p] = n
      BY <2>1, <2>4, <3>0
    <3>9. \A q \in Pair : q # Reverse(p) => Reverse(q) # p
      BY <2>1 DEF Pair, Reverse
    <3>10. ASSUME NEW b \in Table
           PROVE  (/\ Find(bl[b].pair) = {b}
                   /\ Find(Reverse(bl[b].pair)) = {}
                   /\ edge_bl[bl[b].pair] = b)'
      BY <3>4, <3>5, <3>6, <3>7, <3>9, <3>10
    <3>11. /\ Find(p)' = {n} /\ Find(Reverse(p))' = {}
           /\ edge_bl'[p] = n /\ bl'[n].pair = p
      BY <2>1, <2>4, <3>0, <3>2, <3>6, <3>8
    <3>12. ASSUME NEW b \in Table'
           PROVE  (/\ Find(bl[b].pair) = {b}
                   /\ Find(Reverse(bl[b].pair)) = {}
                   /\ edge_bl[bl[b].pair] = b)'
      <4>1. CASE b \in Table
        BY <3>10, <4>1
      <4>2. CASE b = n
        BY <3>11, <4>2
      <4> QED BY <3>3, <3>12, <4>1, <4>2
    <3> QED BY <3>12 DEF OneDirection
  <2> QED BY <1>2, <2>0, <2>2, <2>3, <2>4 DEF DoAddBaseline
<1> QED BY <1>1, <1>2

-----------------------------------------------------------------------------
(* The queue of the tasks.                                                 *)

\* A task more.
LEMMA TaskQueued ==
  ASSUME rtkpos_queue \in Seq(Task), NEW t \in Task, NEW b,
         rtkpos_queue' = Append(rtkpos_queue, t)
  PROVE  /\ Waiting(b)' = IF t.bl = b THEN Waiting(b) \union {Len(rtkpos_queue) + 1}
                                      ELSE Waiting(b)
         /\ \A i \in Waiting(b) : rtkpos_queue'[i] = rtkpos_queue[i] /\ i <= Len(rtkpos_queue)
         /\ rtkpos_queue'[Len(rtkpos_queue) + 1] = t
         /\ Waiting(b) \subseteq 1 .. Len(rtkpos_queue) /\ Len(rtkpos_queue) \in Nat
<1>1. /\ DOMAIN rtkpos_queue = 1 .. Len(rtkpos_queue) /\ Len(rtkpos_queue) \in Nat
      /\ DOMAIN rtkpos_queue' = 1 .. Len(rtkpos_queue) + 1
      /\ \A i \in 1 .. Len(rtkpos_queue) : rtkpos_queue'[i] = rtkpos_queue[i]
      /\ rtkpos_queue'[Len(rtkpos_queue) + 1] = t
  OBVIOUS
<1> QED BY ONLY <1>1, SMT DEF Waiting

\* A task less: the others move up.
LEMMA TaskTaken ==
  ASSUME rtkpos_queue \in Seq(Task), rtkpos_queue # <<>>, NEW b,
         rtkpos_queue' = Tail(rtkpos_queue)
  PROVE  /\ \A i : i \in Waiting(b)' <=> i \in Nat \ {0} /\ i + 1 \in Waiting(b)
         /\ \A i \in Waiting(b)' : rtkpos_queue'[i] = rtkpos_queue[i + 1]
         /\ 1 \in Waiting(b) <=> Head(rtkpos_queue).bl = b
         /\ Waiting(b) \subseteq 1 .. Len(rtkpos_queue) /\ Len(rtkpos_queue) \in Nat
<1>1. /\ DOMAIN rtkpos_queue = 1 .. Len(rtkpos_queue) /\ Len(rtkpos_queue) \in Nat \ {0}
      /\ DOMAIN rtkpos_queue' = 1 .. Len(rtkpos_queue) - 1
      /\ \A i \in 1 .. Len(rtkpos_queue) - 1 : rtkpos_queue'[i] = rtkpos_queue[i + 1]
      /\ Head(rtkpos_queue) = rtkpos_queue[1]
  OBVIOUS
<1> QED BY ONLY <1>1, SMT DEF Waiting

\* How many they are.
LEMMA CountType ==
  ASSUME rtkpos_queue \in Seq(Task), NEW b
  PROVE  IsFiniteSet(Waiting(b)) /\ Cardinality(Waiting(b)) \in Nat
<1>1. Waiting(b) \subseteq 1 .. Len(rtkpos_queue) /\ Len(rtkpos_queue) \in Nat
  BY DEF Waiting
<1>2. IsFiniteSet(1 .. Len(rtkpos_queue))
  BY <1>1, FS_Interval
<1> QED BY <1>1, <1>2, FS_Subset, FS_CardinalityType

LEMMA CountQueued ==
  ASSUME rtkpos_queue \in Seq(Task), NEW t \in Task, NEW b,
         rtkpos_queue' = Append(rtkpos_queue, t)
  PROVE  /\ Cardinality(Waiting(b)) \in Nat
         /\ Cardinality(Waiting(b)') = IF t.bl = b THEN Cardinality(Waiting(b)) + 1
                                                   ELSE Cardinality(Waiting(b))
<1> DEFINE n == Len(rtkpos_queue)
<1>1. /\ Waiting(b)' = IF t.bl = b THEN Waiting(b) \union {n + 1} ELSE Waiting(b)
      /\ Waiting(b) \subseteq 1 .. n /\ n \in Nat
  BY TaskQueued
<1>2. IsFiniteSet(1 .. n)
  BY <1>1, FS_Interval
<1>3. IsFiniteSet(Waiting(b))
  BY <1>1, <1>2, FS_Subset
<1>4. n + 1 \notin Waiting(b)
  BY <1>1
<1>5. Cardinality(Waiting(b) \union {n + 1}) = Cardinality(Waiting(b)) + 1
  BY <1>3, <1>4, FS_AddElement
<1> QED BY <1>1, <1>3, <1>5, FS_CardinalityType

LEMMA CountTaken ==
  ASSUME rtkpos_queue \in Seq(Task), rtkpos_queue # <<>>, NEW b,
         rtkpos_queue' = Tail(rtkpos_queue)
  PROVE  /\ Cardinality(Waiting(b)) \in Nat /\ Cardinality(Waiting(b)') \in Nat
         /\ Cardinality(Waiting(b)) = IF Head(rtkpos_queue).bl = b
                                      THEN Cardinality(Waiting(b)') + 1
                                      ELSE Cardinality(Waiting(b)')
<1> DEFINE n == Len(rtkpos_queue)
           W == Waiting(b)
           V == Waiting(b)'
           R == W \ {1}
           f == [i \in R |-> i - 1]
<1>1. /\ \A i : i \in V <=> i \in Nat \ {0} /\ i + 1 \in W
      /\ 1 \in W <=> Head(rtkpos_queue).bl = b
      /\ W \subseteq 1 .. n /\ n \in Nat
  BY TaskTaken
<1>2. IsFiniteSet(1 .. n)
  BY <1>1, FS_Interval
<1>3. IsFiniteSet(W) /\ Cardinality(W) \in Nat
  BY <1>1, <1>2, FS_Subset, FS_CardinalityType
<1>4. /\ IsFiniteSet(R)
      /\ Cardinality(R) = IF 1 \in W THEN Cardinality(W) - 1 ELSE Cardinality(W)
  BY <1>3, FS_RemoveElement
<1>5. f \in Bijection(R, V)
  <2> HIDE DEF W, V
  <2>1. \A i \in R : i \in Nat /\ i > 1 /\ i - 1 \in V
    BY <1>1
  <2>2. f \in [R -> V]
    BY <2>1
  <2>3. \A i, j \in R : f[i] = f[j] => i = j
    BY <2>1
  <2>4. \A v \in V : v + 1 \in R /\ f[v + 1] = v
    BY <1>1
  <2> HIDE DEF f, R
  <2>5. DOMAIN f = R /\ IsInjective(f)
    BY <2>2, <2>3 DEF IsInjective
  <2>6. \A v \in V : \E i \in R : f[i] = v
    BY <2>4
  <2> QED BY <2>2, <2>5, <2>6 DEF Bijection, Injection, Surjection
<1>6. ExistsBijection(R, V)
  BY <1>5 DEF ExistsBijection
<1>7. IsFiniteSet(V) /\ Cardinality(V) = Cardinality(R)
  BY <1>4, <1>6, FS_Bijection
<1>8. Cardinality(V) \in Nat
  BY <1>7, FS_CardinalityType
<1> HIDE DEF W, V, R
<1>9. 1 \in W <=> Head(rtkpos_queue).bl = b
  BY <1>1
<1>10. Cardinality(W) = IF 1 \in W THEN Cardinality(V) + 1 ELSE Cardinality(V)
  BY <1>3, <1>4, <1>7, <1>8
<1> QED BY <1>3, <1>8, <1>9, <1>10 DEF W, V

-----------------------------------------------------------------------------
(* bl->on counts the tasks.                                                *)

Counts == CountsTasks /\ FreedUnused

\* Most steps leave the tasks and the counts alone.
LEMMA CountsKept ==
  ASSUME SrtkAssumption, TypeInv, Counts, UNCHANGED <<rtkpos_queue, torn, ended>>,
         \A b \in Baseline : bl'[b].on = bl[b].on,
         \A b \in Baseline : Working(b)' = Working(b),
         wk.pc \in {"exited", "crashed"} => wk'.pc \in {"exited", "crashed"},
         \A b \in Baseline \ torn : bl'[b].at = "freed" =>
           bl[b].at = "freed" \/ bl[b].on = 0 \/ wk'.pc \in {"exited", "crashed"}
  PROVE  Counts'
<1>1. \A b : Waiting(b)' = Waiting(b)
  BY DEF Waiting
<1>2. CountsTasks'
  BY <1>1 DEF Counts, CountsTasks
<1>3. FreedUnused'
  BY DEF Counts, FreedUnused
<1> QED BY <1>2, <1>3 DEF Counts

LEMMA CountsQueue ==
  ASSUME SrtkAssumption, TypeInv, Counts, Queue
  PROVE  Counts'
<1>1. /\ rt.bl \in Baseline /\ bl[rt.bl].at = "table" /\ rt.on \in Int /\ rt.obs \in Time \X Time
      /\ bl \in [Baseline -> BaselineType] /\ rtkpos_queue \in Seq(Task) /\ torn \subseteq Baseline
  BY DEF Queue, TypeInv, TypeOK, Threads, RtkType, Table
<1>2. /\ bl' = [bl EXCEPT ![rt.bl].on = rt.on + 1]
      /\ torn' = IF bl[rt.bl].on # rt.on THEN torn \union {rt.bl} ELSE torn
      /\ UNCHANGED <<wk, ended>>
  BY DEF Queue
<1>3. PICK t \in Task : t.bl = rt.bl /\ rtkpos_queue' = Append(rtkpos_queue, t)
  BY <1>1 DEF Queue, Task
<1>4. \A b \in Baseline : /\ Cardinality(Waiting(b)) \in Nat
                          /\ Cardinality(Waiting(b)') = IF rt.bl = b THEN Cardinality(Waiting(b)) + 1
                                                                     ELSE Cardinality(Waiting(b))
  BY <1>1, <1>3, CountQueued
<1>5. /\ \A b \in Baseline \ {rt.bl} : bl'[b] = bl[b]
      /\ bl'[rt.bl].on = rt.on + 1 /\ bl'[rt.bl].at = "table"
  <2>1. rt.on + 1 \in Int
    BY <1>1
  <2> QED BY <1>1, <1>2, <2>1 DEF BaselineType
<1>6. CountsTasks'
  <2> SUFFICES ASSUME ended' = <<>>, NEW b \in Baseline, b \notin torn'
               PROVE  bl'[b].on = Cardinality(Waiting(b)') + Working(b)'
    BY DEF CountsTasks
  <2>1. Working(b)' = Working(b) /\ Working(b) \in {0, 1}
    BY <1>2 DEF Working
  <2>2. b \notin torn /\ bl[b].on = Cardinality(Waiting(b)) + Working(b)
    BY <1>2 DEF Counts, CountsTasks
  <2>3. CASE b = rt.bl
    BY <1>2, <1>4, <1>5, <2>1, <2>2, <2>3
  <2>4. CASE b # rt.bl
    BY <1>4, <1>5, <2>1, <2>2, <2>4
  <2> QED BY <2>3, <2>4
<1>7. FreedUnused'
  BY <1>1, <1>2, <1>5 DEF Counts, FreedUnused
<1> QED BY <1>6, <1>7 DEF Counts

LEMMA CountsTake ==
  ASSUME SrtkAssumption, TypeInv, Counts, Take
  PROVE  Counts'
<1>1. /\ wk.pc = "empty" /\ UNCHANGED <<bl, torn, ended>>
      /\ rtkpos_queue \in Seq(Task) /\ wk \in WorkType
  BY DEF Take, history, TypeInv, TypeOK, Threads
<1>2. CASE rtkpos_queue = <<>>
  <2>1. rtkpos_queue' = rtkpos_queue /\ wk'.pc = "loop"
    BY <1>1, <1>2 DEF Take, WorkType
  <2>2. \A b : Working(b)' = Working(b)
    BY <1>1, <2>1 DEF Working
  <2> QED BY <1>1, <2>1, <2>2, CountsKept
<1>3. CASE rtkpos_queue # <<>>
  <2>1. /\ rtkpos_queue' = Tail(rtkpos_queue)
        /\ wk'.pc = "solve" /\ wk'.task = Head(rtkpos_queue)
    <3>1. Head(rtkpos_queue) \in Task
      BY <1>1, <1>3
    <3> QED BY <1>1, <1>3, <3>1 DEF Take, WorkType
  <2>2. CountsTasks'
    <3> SUFFICES ASSUME ended' = <<>>, NEW b \in Baseline, b \notin torn'
                 PROVE  bl'[b].on = Cardinality(Waiting(b)') + Working(b)'
      BY DEF CountsTasks
    <3>1. bl[b].on = Cardinality(Waiting(b)) + Working(b) /\ Working(b) = 0
      BY <1>1 DEF Counts, CountsTasks, Working
    <3>2. Working(b)' = IF Head(rtkpos_queue).bl = b THEN 1 ELSE 0
      BY <2>1 DEF Working
    <3>3. /\ Cardinality(Waiting(b)) \in Nat /\ Cardinality(Waiting(b)') \in Nat
          /\ Cardinality(Waiting(b)) = IF Head(rtkpos_queue).bl = b
                                       THEN Cardinality(Waiting(b)') + 1
                                       ELSE Cardinality(Waiting(b)')
      BY <1>1, <1>3, <2>1, CountTaken
    <3> QED BY <1>1, <3>1, <3>2, <3>3
  <2>3. FreedUnused'
    BY <1>1 DEF Counts, FreedUnused
  <2> QED BY <2>2, <2>3 DEF Counts
<1> QED BY <1>2, <1>3

LEMMA CountsDec ==
  ASSUME SrtkAssumption, TypeInv, Counts, Dec
  PROVE  Counts'
<1>1. /\ wk.pc = "dec" /\ wk.task.bl \in Baseline /\ wk.on \in Int /\ wk \in WorkType
      /\ bl \in [Baseline -> BaselineType] /\ torn \subseteq Baseline
      /\ bl[wk.task.bl].at # "freed"
  BY DEF Dec, Usable, TypeInv, TypeOK, Threads, WorkType, Task
<1>2. /\ bl' = [bl EXCEPT ![wk.task.bl].on = wk.on - 1]
      /\ torn' = IF bl[wk.task.bl].on # wk.on THEN torn \union {wk.task.bl} ELSE torn
      /\ UNCHANGED <<rtkpos_queue, ended>>
  BY DEF Dec
<1>3. wk'.pc = "publish"
  BY ONLY Dec, <1>1 DEF Dec, WorkType
<1>4. /\ \A b \in Baseline \ {wk.task.bl} : bl'[b] = bl[b]
      /\ bl'[wk.task.bl].on = wk.on - 1 /\ bl'[wk.task.bl].at = bl[wk.task.bl].at
  <2>1. wk.on - 1 \in Int
    BY <1>1
  <2> QED BY <1>1, <1>2, <2>1 DEF BaselineType
<1>5. CountsTasks'
  <2> SUFFICES ASSUME ended' = <<>>, NEW b \in Baseline, b \notin torn'
               PROVE  bl'[b].on = Cardinality(Waiting(b)') + Working(b)'
    BY DEF CountsTasks
  <2>1. Working(b)' = 0 /\ Waiting(b)' = Waiting(b)
    BY <1>2, <1>3 DEF Working, Waiting
  <2>2. Working(b) = IF b = wk.task.bl THEN 1 ELSE 0
    BY <1>1 DEF Working
  <2>3. b \notin torn /\ bl[b].on = Cardinality(Waiting(b)) + Working(b)
    BY <1>2 DEF Counts, CountsTasks
  <2>4. bl[b].on \in Int
    BY <1>1 DEF BaselineType
  <2>5. Cardinality(Waiting(b)) \in Nat
    BY CountType DEF TypeInv, TypeOK
  <2>6. CASE b = wk.task.bl
    BY <1>2, <1>4, <2>1, <2>2, <2>3, <2>5, <2>6
  <2>7. CASE b # wk.task.bl
    BY <1>4, <2>1, <2>2, <2>3, <2>5, <2>7
  <2> QED BY <2>6, <2>7
<1>6. FreedUnused'
  BY <1>1, <1>2, <1>4 DEF Counts, FreedUnused
<1> QED BY <1>5, <1>6 DEF Counts

LEMMA CountsCrash ==
  ASSUME SrtkAssumption, TypeInv, Counts, NEW where, NEW b, Crash(where, b)
  PROVE  Counts'
<1>1. /\ ended' # <<>> /\ UNCHANGED <<bl, torn>> /\ wk'.pc = "crashed"
  BY DEF Crash, TypeInv, Threads, WorkType
<1> QED BY <1>1 DEF Counts, CountsTasks, FreedUnused

\* A baseline that is freed by the rtk thread is not counted any more.
LEMMA CountsStep ==
  SrtkAssumption /\ TypeInv /\ Counts /\ [Next]_vars => Counts'
<1> SUFFICES ASSUME SrtkAssumption, TypeInv, Counts, [Next]_vars PROVE Counts'
  OBVIOUS
<1>0. bl \in [Baseline -> BaselineType] /\ wk \in WorkType
  BY DEF TypeInv, TypeOK, Threads
<1>1. CASE UNCHANGED <<bl, rtkpos_queue, wk, torn, ended>>
  <2>1. \A b : Working(b)' = Working(b)
    BY <1>1 DEF Working
  <2> QED BY <1>1, <2>1, CountsKept
<1>2. CASE Joined
  <2>1. UNCHANGED <<rtkpos_queue, wk, torn, ended>> /\ wk.pc = "exited"
    BY <1>2 DEF Joined, history
  <2>2. \A b \in Baseline : bl'[b].on = bl[b].on
    BY <1>0, <1>2 DEF Joined, BaselineType
  <2>3. \A b : Working(b)' = Working(b)
    BY <2>1 DEF Working
  <2> QED BY <2>1, <2>2, <2>3, CountsKept
<1>3. CASE Copy \/ DoAddBaseline \/ Remove \/ Free
  <2>1. UNCHANGED <<rtkpos_queue, wk, torn, ended>>
    BY <1>3 DEF Copy, DoAddBaseline, Remove, Free, history
  <2>2. \A b \in Baseline : /\ bl'[b].on = bl[b].on
                            /\ bl'[b].at = "freed" => bl[b].at = "freed" \/ bl[b].on = 0
    <3>1. CASE Copy
      BY <1>0, <3>1 DEF Copy, BaselineType
    <3>2. CASE DoAddBaseline
      <4>1. \/ bl' = bl
            \/ \E n \in Baseline : \E p : bl' = [bl EXCEPT ![n].pair = p, ![n].at = "table"]
        BY <3>2, NewBaseline DEF DoAddBaseline
      <4>2. ASSUME NEW n \in Baseline, NEW p, bl' = [bl EXCEPT ![n].pair = p, ![n].at = "table"]
            PROVE  /\ \A b \in Baseline : b # n => bl'[b] = bl[b]
                   /\ bl'[n].on = bl[n].on /\ bl'[n].at = "table"
        BY <1>0, <4>2 DEF BaselineType
      <4> QED BY <4>1, <4>2
    <3>3. CASE Remove
      BY <1>0, <3>3 DEF Remove, BaselineType
    <3>4. CASE Free
      BY <1>0, <3>4 DEF Free, BaselineType
    <3> QED BY <1>3, <3>1, <3>2, <3>3, <3>4
  <2>3. \A b : Working(b)' = Working(b)
    BY <2>1 DEF Working
  <2> QED BY <2>1, <2>2, <2>3, CountsKept
<1>4. CASE WorkLoop \/ Solve \/ Publish
  <2>1. UNCHANGED <<bl, rtkpos_queue, torn, ended>>
    BY <1>4 DEF WorkLoop, Solve, Publish, history
  <2>2. (\A b \in Baseline : Working(b)' = Working(b)) /\ wk.pc \notin {"exited", "crashed"}
    <3>1. CASE WorkLoop
      BY <1>0, <3>1 DEF WorkLoop, Working, WorkType
    <3>2. CASE Solve
      <4>1. wk.pc = "solve" /\ wk'.pc = "dec" /\ wk'.task = wk.task
        BY ONLY <1>0, <3>2 DEF Solve, WorkType
      <4> QED BY <4>1 DEF Working
    <3>3. CASE Publish
      BY <1>0, <3>3 DEF Publish, Working, WorkType
    <3> QED BY <1>4, <3>1, <3>2, <3>3
  <2> QED BY <2>1, <2>2, CountsKept
<1>5. CASE DoubleFree \/ UseAfterFree
  BY <1>5, CountsCrash DEF DoubleFree, UseAfterFree
<1> QED
  BY <1>1, <1>2, <1>3, <1>4, <1>5, CountsQueue, CountsTake, CountsDec
  DEF Next, vars, UpdObs, AddBaseline, DelBaseline, Close, RtkThread, Start, Started, Loop,
      Iter, ReadTime, Check, AddsDone, DelsDone, WorkThread, history

\* Where a crash is possible at all.
LEMMA FreedStep ==
  SrtkAssumption /\ TypeInv /\ Counts /\ FreedWhenDone /\ [Next]_vars => FreedWhenDone'
<1> SUFFICES ASSUME SrtkAssumption, TypeInv, Counts, FreedWhenDone, [Next]_vars
             PROVE  FreedWhenDone'
  OBVIOUS
<1>1. CASE UNCHANGED ended
  <2>1. torn \subseteq torn'
    BY DEF Next, vars, UpdObs, AddBaseline, DelBaseline, Close, Joined, RtkThread, Start, Started,
           Loop, Iter, ReadTime, Check, Copy, Queue, AddsDone, DoAddBaseline, DelsDone, Remove,
           Free, DoubleFree, Crash, WorkThread, WorkLoop, Take, Solve, Dec, Publish, UseAfterFree,
           history
  <2>2. ended # <<>> => UNCHANGED rtkpos_queue
    <3>1. ended # <<>> => rt.pc = "crashed" /\ wk.pc = "crashed"
      BY DEF TypeInv, Threads
    <3> QED
      BY <3>1 DEF Next, vars, UpdObs, AddBaseline, DelBaseline, Close, Joined, RtkThread, Start,
             Started, Loop, Iter, ReadTime, Check, Copy, Queue, AddsDone, DoAddBaseline, DelsDone,
             Remove, Free, DoubleFree, Crash, WorkThread, WorkLoop, Take, Solve, Dec, Publish,
             UseAfterFree
  <2>3. \A b : ended # <<>> => Waiting(b)' = Waiting(b)
    BY <2>2 DEF Waiting
  <2> QED BY <1>1, <2>1, <2>3 DEF FreedWhenDone
<1>2. CASE DoubleFree
  BY <1>2 DEF DoubleFree, Crash, FreedWhenDone
<1>3. CASE UseAfterFree
  <2> SUFFICES ASSUME NEW b \in Baseline, b \notin torn',
                      ended' \in {<<"solve", b>>, <<"dec", b>>, <<"publish", b>>}
               PROVE  ended' = <<"publish", b>> /\ Waiting(b)' = {}
    BY DEF FreedWhenDone
  <2>1. /\ wk.pc \in {"solve", "dec", "publish"} /\ wk.task.bl = b /\ torn' = torn
        /\ bl[b].at = "freed" /\ ended = <<>> /\ ended' = <<wk.pc, b>>
        /\ UNCHANGED rtkpos_queue
    BY <1>3 DEF UseAfterFree, Usable, Crash, TypeInv, Threads, Task
  <2>2. bl[b].on = 0 /\ bl[b].on = Cardinality(Waiting(b)) + Working(b)
    BY <2>1 DEF Counts, FreedUnused, CountsTasks
  <2>3. Cardinality(Waiting(b)) \in Nat /\ IsFiniteSet(Waiting(b))
    BY CountType DEF TypeInv, TypeOK
  <2>4. Working(b) = 0 /\ Cardinality(Waiting(b)) = 0
    BY <2>2, <2>3 DEF Working
  <2>5. Waiting(b) = {}
    BY <2>3, <2>4, FS_EmptySet
  <2>6. wk.pc = "publish"
    BY <2>1, <2>4 DEF Working
  <2> QED BY <2>1, <2>5, <2>6 DEF Waiting
<1> QED
  BY <1>1, <1>2, <1>3
  DEF Next, vars, UpdObs, AddBaseline, DelBaseline, Close, Joined, RtkThread, Start, Started,
      Loop, Iter, ReadTime, Check, Copy, Queue, AddsDone, DoAddBaseline, DelsDone, Remove,
      Free, WorkThread, WorkLoop, Take, Solve, Dec, Publish, history

-----------------------------------------------------------------------------
(* The order of the epochs.                                                *)

Order == EpochsInOrder /\ TimeIsLast

LEMMA OrderKept ==
  ASSUME TypeInv, Order, UNCHANGED <<rtkpos_queue, solved>>,
         wk' = wk \/ (wk'.pc # "solve"),
         \A b \in Baseline : bl'[b].time = bl[b].time,
         rt' = rt \/ rt'.pc # "queue"
  PROVE  Order'
<1>1. \A b : Waiting(b)' = Waiting(b)
  BY DEF Waiting
<1>2. wk'.pc = "solve" => wk' = wk
  OBVIOUS
<1>3. EpochsInOrder'
  BY <1>1, <1>2 DEF Order, EpochsInOrder, Epoch, Later
<1>4. \A b, t : Before(b, t) => /\ solved'[b] < t
                                /\ wk'.pc = "solve" /\ wk'.task.bl = b => Epoch(wk'.task) < t
                                /\ \A i \in Waiting(b)' : Epoch(rtkpos_queue'[i]) < t
  BY <1>1, <1>2 DEF Before
<1>5. \A b, t : Before(b, t) => Before(b, t)'
  BY <1>4 DEF Before
<1>6. \A b \in Baseline : Before(b, bl'[b].time + 1)
  BY DEF Order, TimeIsLast
<1>7. rt'.pc = "queue" => /\ rt'.obs[1] <= bl'[rt'.bl].time
                          /\ Before(rt'.bl, rt'.obs[1])
  <2> SUFFICES ASSUME rt'.pc = "queue" PROVE /\ rt.obs[1] <= bl[rt.bl].time
                                             /\ Before(rt.bl, rt.obs[1])
                                             /\ rt.bl \in Baseline /\ rt' = rt
    OBVIOUS
  <2> QED BY DEF Order, TimeIsLast, TypeInv, Threads, Table
<1>8. TimeIsLast'
  BY <1>4, <1>6, <1>7 DEF TimeIsLast, Before, Later
<1> QED BY <1>3, <1>8 DEF Order

LEMMA ReadingsKept ==
  ASSUME TypeInv, Readings, UNCHANGED obs,
         \A b \in Baseline : /\ bl'[b].time = bl[b].time /\ bl'[b].pair = bl[b].pair
                             /\ bl'[b].at = "unborn" <=> bl[b].at = "unborn",
         \/ rt' = rt
         \/ rt'.pc \notin {"time", "check", "copy"}
         \/ rt'.pc = "time" /\ rt'.side = 1
  PROVE  Readings'
<1>1. /\ \A b \in Baseline : IF bl'[b].at = "unborn" THEN bl'[b].time = none ELSE
           \E i \in {1, 2} : bl'[b].time <= obs'[bl'[b].pair[i]]
  BY DEF Readings
<1>2. CASE rt' = rt
  <2>1. rt.pc \in {"time", "check", "copy"} => rt.bl \in Baseline
    BY DEF TypeInv, Threads, Table
  <2> QED BY <1>1, <1>2, <2>1 DEF Readings
<1>3. CASE rt'.pc \notin {"time", "check", "copy"} \/ (rt'.pc = "time" /\ rt'.side = 1)
  BY <1>1, <1>3 DEF Readings
<1> QED BY <1>2, <1>3

\* What is before an epoch is before a later one.
LEMMA EarlierThan ==
  ASSUME SrtkAssumption, TypeInv, NEW b \in Baseline, NEW t \in Nat, NEW u \in Nat, t <= u,
         Before(b, t)
  PROVE  Before(b, u)
<1>1. /\ solved[b] \in Nat
      /\ \A task \in Task : Epoch(task) \in Nat
      /\ wk.pc = "solve" => wk.task \in Task
      /\ \A i \in Waiting(b) : rtkpos_queue[i] \in Task
  <2>1. Time \subseteq Nat
    BY DEF Time, SrtkAssumption
  <2>2. solved[b] \in Nat
    BY <2>1 DEF TypeInv, TypeOK
  <2>3. \A task \in Task : Epoch(task) \in Nat
    BY <2>1 DEF Task, Epoch, Later
  <2>4. wk.pc = "solve" => wk.task \in Task
    BY DEF TypeInv, Threads
  <2>5. \A i \in Waiting(b) : rtkpos_queue[i] \in Task
    BY DEF TypeInv, TypeOK, Waiting
  <2> QED BY <2>2, <2>3, <2>4, <2>5
<1>2. \A e \in Nat : e < t => e < u
  OBVIOUS
<1> QED BY <1>1, <1>2 DEF Before

\* The epochs of the stations increase.
LEMMA OrderObs ==
  ASSUME SrtkAssumption, TypeInv, OrderInv, NEW s \in Srcid, UpdObs(s)
  PROVE  OrderInv'
<1>1. UNCHANGED <<bl, rtkpos_queue, wk, rt, solved>>
  BY DEF UpdObs
<1>2. Order'
  BY <1>1, OrderKept DEF OrderInv, Order
<1>3. /\ obs \in [Srcid -> Time] /\ obs' \in [Srcid -> Time] /\ Time \subseteq Nat
      /\ \A q \in Srcid : obs[q] <= obs'[q]
  BY DEF UpdObs, TypeInv, TypeOK, Time, SrtkAssumption
<1>4. \A b \in Baseline, i \in {1, 2} :
        bl[b].at # "unborn" => bl[b].pair[i] \in Srcid /\ bl[b].time \in Time
  BY DEF TypeInv, TypeOK, Births, Pair, BaselineType
<1>5. rt.pc \in {"time", "check", "copy"} =>
        /\ rt.bl \in Baseline /\ bl[rt.bl].pair[1] \in Srcid /\ bl[rt.bl].pair[2] \in Srcid
        /\ bl[rt.bl].time \in Time /\ rt.time_cur \in Time /\ rt.obs[1] \in Time
  BY <1>4 DEF TypeInv, Threads, Table, RtkType
<1>6. \A b \in Baseline : IF bl[b].at = "unborn" THEN bl[b].time = none ELSE
         \E i \in {1, 2} : bl[b].time <= obs'[bl[b].pair[i]]
  <2> SUFFICES ASSUME NEW b \in Baseline, bl[b].at # "unborn"
               PROVE  \E i \in {1, 2} : bl[b].time <= obs'[bl[b].pair[i]]
    BY DEF OrderInv, Readings
  <2>1. PICK i \in {1, 2} : bl[b].time <= obs[bl[b].pair[i]]
    BY DEF OrderInv, Readings
  <2>2. obs[bl[b].pair[i]] <= obs'[bl[b].pair[i]]
    BY <1>3, <1>4
  <2>3. bl[b].time \in Nat /\ obs[bl[b].pair[i]] \in Nat /\ obs'[bl[b].pair[i]] \in Nat
    BY <1>3, <1>4
  <2> QED BY <2>1, <2>2, <2>3
<1>7. Readings'
  <2>1. rt.pc \in {"time", "check", "copy"} =>
          /\ obs[bl[rt.bl].pair[1]] <= obs'[bl[rt.bl].pair[1]]
          /\ obs[bl[rt.bl].pair[2]] <= obs'[bl[rt.bl].pair[2]]
          /\ obs[bl[rt.bl].pair[1]] \in Nat /\ obs'[bl[rt.bl].pair[1]] \in Nat
          /\ obs[bl[rt.bl].pair[2]] \in Nat /\ obs'[bl[rt.bl].pair[2]] \in Nat
          /\ bl[rt.bl].time \in Nat /\ rt.time_cur \in Nat /\ rt.obs[1] \in Nat
    BY <1>3, <1>5
  <2>2. Readings
    BY DEF OrderInv
  <2> QED BY ONLY <1>1, <1>6, <2>1, <2>2, SMT DEF Readings
<1> QED BY <1>2, <1>7 DEF OrderInv, Order

\* A baseline is made with no epoch.
LEMMA OrderAdd ==
  ASSUME SrtkAssumption, TypeInv, OrderInv, DoAddBaseline
  PROVE  OrderInv'
<1>1. UNCHANGED <<obs, rtkpos_queue, wk, rt, solved>> /\ rt.pc = "adds"
  BY DEF DoAddBaseline
<1>2. bl \in [Baseline -> BaselineType]
  BY DEF TypeInv, TypeOK
<1>3. \/ bl' = bl
      \/ \E n \in Baseline, p \in Pair : /\ bl' = [bl EXCEPT ![n].pair = p, ![n].at = "table"]
                                         /\ bl[n].at = "unborn"
  <2>1. Head(addbl_queue) \in Pair
    BY DEF DoAddBaseline, TypeInv, TypeOK
  <2> QED BY <2>1, NewBaseline DEF DoAddBaseline
<1>4. CASE bl' = bl
  BY <1>1, <1>4, OrderKept, ReadingsKept DEF OrderInv, Order
<1>5. ASSUME NEW n \in Baseline, NEW p \in Pair, bl[n].at = "unborn",
             bl' = [bl EXCEPT ![n].pair = p, ![n].at = "table"]
      PROVE  OrderInv'
  <2>1. /\ \A b \in Baseline : b # n => bl'[b] = bl[b]
        /\ bl'[n].time = bl[n].time /\ bl'[n].at = "table" /\ bl'[n].pair = p
    BY <1>2, <1>5 DEF BaselineType
  <2>2. Order'
    BY <1>1, <2>1, OrderKept DEF OrderInv, Order
  <2>3. \A b \in Baseline : IF bl'[b].at = "unborn" THEN bl'[b].time = none ELSE
           \E i \in {1, 2} : bl'[b].time <= obs'[bl'[b].pair[i]]
    <3> SUFFICES ASSUME NEW b \in Baseline
                 PROVE  IF bl'[b].at = "unborn" THEN bl'[b].time = none ELSE
                          \E i \in {1, 2} : bl'[b].time <= obs'[bl'[b].pair[i]]
      OBVIOUS
    <3>1. CASE b # n
      BY <1>1, <2>1, <3>1 DEF OrderInv, Readings
    <3>2. CASE b = n
      <4>1. bl'[n].time = 0
        BY <1>5, <2>1 DEF OrderInv, Readings, none
      <4>2. obs'[p[1]] \in Nat
        BY <1>1 DEF Pair, TypeInv, TypeOK, Time, SrtkAssumption
      <4> QED BY <2>1, <3>2, <4>1, <4>2
    <3> QED BY <3>1, <3>2
  <2>4. Readings'
    BY <1>1, <2>3 DEF Readings
  <2> QED BY <2>2, <2>4 DEF OrderInv, Order
<1> QED BY <1>3, <1>4, <1>5

\* Steps that only change where a baseline is, or where a thread is.
LEMMA OrderQuiet ==
  ASSUME SrtkAssumption, TypeInv, OrderInv, UNCHANGED <<obs, rtkpos_queue, solved>>,
         wk' = wk \/ (wk'.pc # "solve"),
         \A b \in Baseline : /\ bl'[b].time = bl[b].time /\ bl'[b].pair = bl[b].pair
                             /\ bl'[b].at = "unborn" <=> bl[b].at = "unborn",
         \/ rt' = rt
         \/ rt'.pc \notin {"time", "check", "copy", "queue"}
         \/ rt'.pc = "time" /\ rt'.side = 1
  PROVE  OrderInv'
<1>1. Order'
  BY OrderKept DEF OrderInv, Order
<1>2. Readings'
  BY ReadingsKept DEF OrderInv
<1> QED BY <1>1, <1>2 DEF OrderInv, Order

LEMMA OrderWatch ==
  ASSUME SrtkAssumption, TypeInv, OrderInv,
         \/ \E p \in Pair : AddBaseline(p) \/ DelBaseline(p)
         \/ Close \/ Joined
         \/ Start \/ Started \/ Loop \/ Iter \/ AddsDone \/ DelsDone
         \/ Remove \/ Free \/ DoubleFree
         \/ WorkLoop \/ Dec \/ Publish \/ UseAfterFree
  PROVE  OrderInv'
<1>0. /\ bl \in [Baseline -> BaselineType] /\ rt \in RtkType /\ wk \in WorkType
      /\ rt.pc = "spin" => rt.bl \in Baseline /\ bl[rt.bl].at = "removed"
      /\ delbl_queue \in Seq(Baseline)
  BY DEF TypeInv, TypeOK, Threads
<1>1. UNCHANGED <<obs, solved>>
  BY DEF AddBaseline, DelBaseline, Close, Joined, Start, Started, Loop, Iter, AddsDone, DelsDone,
         Remove, Free, DoubleFree, Crash, WorkLoop, Dec, Publish, UseAfterFree
<1>2. UNCHANGED rtkpos_queue
  BY DEF AddBaseline, DelBaseline, Close, Joined, Start, Started, Loop, Iter, AddsDone, DelsDone,
         Remove, Free, DoubleFree, Crash, WorkLoop, Dec, Publish, UseAfterFree
<1>3. wk' = wk \/ (wk'.pc # "solve")
  <2>1. CASE wk' = wk
    BY <2>1
  <2>2. CASE WorkLoop
    BY <1>0, <2>2 DEF WorkLoop, WorkType
  <2>3. CASE Dec \/ Publish
    BY ONLY <1>0, <2>3 DEF Dec, Publish, WorkType
  <2>4. CASE DoubleFree \/ UseAfterFree
    BY <1>0, <2>4 DEF DoubleFree, UseAfterFree, Crash, WorkType
  <2> QED
    BY <2>1, <2>2, <2>3, <2>4
    DEF AddBaseline, DelBaseline, Close, Joined, Start, Started, Loop, Iter, AddsDone, DelsDone,
        Remove, Free
<1>4. \A b \in Baseline : /\ bl'[b].time = bl[b].time /\ bl'[b].pair = bl[b].pair
                          /\ bl'[b].at = "unborn" <=> bl[b].at = "unborn"
  <2>1. CASE bl' = bl
    BY <2>1
  <2>2. CASE Joined
    BY <1>0, <2>2 DEF Joined, Table, BaselineType
  <2>3. CASE Remove
    <3>1. /\ Head(delbl_queue) \in Baseline /\ bl[Head(delbl_queue)].at = "table"
          /\ bl' = [bl EXCEPT ![Head(delbl_queue)].at = "removed"]
      BY <1>0, <2>3 DEF Remove
    <3> QED BY <1>0, <3>1 DEF BaselineType
  <2>4. CASE Free
    BY <1>0, <2>4 DEF Free, BaselineType
  <2>5. CASE Dec
    <3>1. /\ wk.task.bl \in Baseline /\ wk.on - 1 \in Int
          /\ bl' = [bl EXCEPT ![wk.task.bl].on = wk.on - 1]
      BY <2>5 DEF Dec, TypeInv, Threads, Task, WorkType
    <3> QED BY <1>0, <3>1 DEF BaselineType
  <2> QED
    BY <2>1, <2>2, <2>3, <2>4, <2>5
    DEF AddBaseline, DelBaseline, Close, Start, Started, Loop, Iter, AddsDone, DelsDone,
        DoubleFree, Crash, WorkLoop, Publish, UseAfterFree
<1>5. \/ rt' = rt
      \/ rt'.pc \notin {"time", "check", "copy", "queue"}
      \/ rt'.pc = "time" /\ rt'.side = 1
  <2>1. CASE rt' = rt
    BY <2>1
  <2>2. CASE Start \/ Started
    BY ONLY <1>0, <2>2 DEF Start, Started, RtkType
  <2>3. CASE Loop
    BY <1>0, <2>3 DEF Loop, RtkType
  <2>4. CASE Iter
    BY <1>0, <2>4 DEF Iter, RtkType
  <2>5. CASE AddsDone \/ DelsDone \/ Remove \/ Free
    BY <1>0, <2>5 DEF AddsDone, DelsDone, Remove, Free, RtkType
  <2>6. CASE DoubleFree \/ UseAfterFree
    BY <1>0, <2>6 DEF DoubleFree, UseAfterFree, Crash, RtkType
  <2> QED
    BY <2>1, <2>2, <2>3, <2>4, <2>5, <2>6
    DEF AddBaseline, DelBaseline, Close, Joined, WorkLoop, Dec, Publish
<1> QED BY <1>1, <1>2, <1>3, <1>4, <1>5, OrderQuiet

\* The comparison of the epochs.
LEMMA OrderCompare ==
  ASSUME SrtkAssumption, TypeInv, OrderInv, ReadTime \/ Check
  PROVE  OrderInv'
<1>1. UNCHANGED <<obs, bl, rtkpos_queue, solved, wk>> /\ rt.pc \in {"time", "check"}
  BY DEF ReadTime, Check
<1>2. /\ rt \in RtkType /\ rt.bl \in Baseline /\ bl[rt.bl].pair \in Pair /\ bl[rt.bl].at = "table"
      /\ bl[rt.bl].time \in Nat /\ rt.time_cur \in Nat /\ rt.side \in {1, 2}
  BY <1>1 DEF TypeInv, TypeOK, Threads, Table, Births, RtkType, Time, BaselineType, SrtkAssumption
<1>3. PICK o1, o2, t0 \in Nat : /\ o1 = obs[bl[rt.bl].pair[2]] /\ o2 = obs[bl[rt.bl].pair[1]]
                                /\ t0 = bl[rt.bl].time
  <2>1. obs \in [Srcid -> Time] /\ Time \subseteq Nat
    BY DEF TypeInv, TypeOK, Time, SrtkAssumption
  <2>2. bl[rt.bl].pair[1] \in Srcid /\ bl[rt.bl].pair[2] \in Srcid
    BY <1>2 DEF Pair
  <2>3. obs[bl[rt.bl].pair[1]] \in Nat /\ obs[bl[rt.bl].pair[2]] \in Nat
    BY <2>1, <2>2
  <2> QED BY <1>2, <2>3
<1>4. /\ t0 <= o1 \/ t0 <= o2
      /\ rt.pc = "time" /\ rt.side = 2 => t0 <= rt.time_cur \/ t0 <= o2
      /\ rt.pc = "check" => t0 < rt.time_cur
      /\ rt.pc = "check" /\ rt.side = 2 => rt.time_cur <= o1
  <2>1. \E i \in {1, 2} : bl[rt.bl].time <= obs[bl[rt.bl].pair[i]]
    BY <1>2 DEF OrderInv, Readings
  <2> QED BY <1>3, <2>1 DEF OrderInv, Readings
<1>5. rt'.bl = rt.bl /\ rt'.pc # "queue" /\ (rt'.pc = "copy" => rt'.side = 1)
  <2>1. CASE ReadTime
    BY <1>2, <2>1 DEF ReadTime, RtkType
  <2>2. CASE Check
    BY <1>2, <2>2 DEF Check, RtkType
  <2> QED BY <2>1, <2>2
<1>6. Order'
  BY <1>1, <1>5, OrderKept DEF OrderInv, Order
<1>7. /\ rt'.pc = "time" /\ rt'.side = 2 => t0 <= rt'.time_cur \/ t0 <= o2
      /\ rt'.pc \in {"check", "copy"} => t0 < rt'.time_cur
      /\ rt'.pc = "check" /\ rt'.side = 2 => rt'.time_cur <= o1
      /\ rt'.pc = "copy" => rt'.time_cur <= o1
  <2>1. CASE ReadTime
    <3>1. Now = IF rt.side = 1 THEN o1 ELSE o2
      BY <1>2, <1>3 DEF Now
    <3>2. /\ rt'.time_cur = Later(rt.time_cur, Now) /\ rt'.side = 3 - rt.side
          /\ rt'.pc = IF rt.side = 1 THEN "time"
                      ELSE IF Later(rt.time_cur, Now) = t0 THEN "iter" ELSE "check"
      BY <1>2, <1>3, <2>1 DEF ReadTime, RtkType
    <3>3. rt.pc = "time"
      BY <2>1 DEF ReadTime
    <3> QED BY ONLY <1>2, <1>3, <1>4, <3>1, <3>2, <3>3 DEF Later
  <2>2. CASE Check
    <3>1. Now = IF rt.side = 1 THEN o1 ELSE o2
      BY <1>2, <1>3 DEF Now
    <3>2. /\ rt'.time_cur = rt.time_cur /\ rt'.side = 3 - rt.side
          /\ rt'.pc = IF Now # rt.time_cur THEN "iter"
                      ELSE IF rt.side = 1 THEN "check" ELSE "copy"
      BY <1>2, <2>2 DEF Check, RtkType
    <3>3. rt.pc = "check"
      BY <2>2 DEF Check
    <3> QED BY ONLY <1>2, <1>3, <1>4, <3>1, <3>2, <3>3
  <2> QED BY <2>1, <2>2
<1>8. Readings'
  <2>1. \A b \in Baseline : IF bl[b].at = "unborn" THEN bl[b].time = none ELSE
           \E i \in {1, 2} : bl[b].time <= obs[bl[b].pair[i]]
    BY DEF OrderInv, Readings
  <2> QED BY ONLY <1>1, <1>3, <1>5, <1>7, <2>1, SMT DEF Readings
<1> QED BY <1>6, <1>8 DEF OrderInv, Order

\* What is copied is later than the last epoch, although it may have been overwritten.
LEMMA OrderCopy ==
  ASSUME SrtkAssumption, TypeInv, OrderInv, Copy
  PROVE  OrderInv'
<1>1. UNCHANGED <<obs, rtkpos_queue, solved, wk>> /\ rt.pc = "copy"
  BY DEF Copy
<1>2. /\ rt \in RtkType /\ rt.bl \in Baseline /\ bl[rt.bl].pair \in Pair /\ bl[rt.bl].at = "table"
      /\ bl[rt.bl].time \in Nat /\ rt.time_cur \in Nat /\ rt.side \in {1, 2} /\ rt.obs[1] \in Nat
      /\ bl \in [Baseline -> BaselineType]
  BY <1>1 DEF TypeInv, TypeOK, Threads, Table, Births, RtkType, Time, BaselineType, SrtkAssumption
<1>3. PICK o1, o2, t0 \in Nat : /\ o1 = obs[bl[rt.bl].pair[2]] /\ o2 = obs[bl[rt.bl].pair[1]]
                                /\ t0 = bl[rt.bl].time
  <2>1. obs \in [Srcid -> Time] /\ Time \subseteq Nat
    BY DEF TypeInv, TypeOK, Time, SrtkAssumption
  <2>2. bl[rt.bl].pair[1] \in Srcid /\ bl[rt.bl].pair[2] \in Srcid
    BY <1>2 DEF Pair
  <2>3. obs[bl[rt.bl].pair[1]] \in Nat /\ obs[bl[rt.bl].pair[2]] \in Nat
    BY <2>1, <2>2
  <2> QED BY <1>2, <2>3
<1>4. /\ rt.side = 1 => t0 < rt.time_cur /\ rt.time_cur <= o1
      /\ rt.side = 2 => t0 < rt.obs[1] /\ rt.obs[1] <= o1
  BY <1>1, <1>3 DEF OrderInv, Readings
<1>5. CASE rt.side = 1
  <2>1. /\ Now = o1 /\ bl' = bl
        /\ rt' = [rt EXCEPT !.side = 3 - rt.side, !.obs[rt.side] = Now,
                            !.on = bl[rt.bl].on, !.pc = "copy"]
    BY <1>3, <1>5 DEF Now, Copy
  <2>2. o1 \in Time
    BY <1>2, <1>3 DEF Pair, TypeInv, TypeOK
  <2>3. rt'.pc = "copy" /\ rt'.bl = rt.bl /\ rt'.side = 2 /\ rt'.obs[1] = o1
    BY <1>2, <1>5, <2>1, <2>2 DEF RtkType, BaselineType
  <2>4. Order'
    BY <1>1, <2>1, <2>3, OrderKept DEF OrderInv, Order
  <2>5. Readings'
    <3>1. \A b \in Baseline : IF bl[b].at = "unborn" THEN bl[b].time = none ELSE
             \E i \in {1, 2} : bl[b].time <= obs[bl[b].pair[i]]
      BY DEF OrderInv, Readings
    <3>2. t0 < o1
      BY <1>2, <1>3, <1>4, <1>5
    <3> QED BY ONLY <1>1, <1>3, <2>1, <2>3, <3>1, <3>2, SMT DEF Readings
  <2> QED BY <2>4, <2>5 DEF OrderInv, Order
<1>6. CASE rt.side = 2
  <2> DEFINE t1 == Later(rt.obs[1], o2)
  <2>1. /\ Now = o2 /\ bl' = [bl EXCEPT ![rt.bl].time = t1]
        /\ rt' = [rt EXCEPT !.side = 3 - rt.side, !.obs[rt.side] = Now,
                            !.on = bl[rt.bl].on, !.pc = "queue"]
    BY <1>3, <1>6 DEF Now, Copy
  <2>2. o2 \in Time /\ rt.obs \in Time \X Time
    BY <1>2, <1>3 DEF Pair, TypeInv, TypeOK, RtkType
  <2>3. rt'.pc = "queue" /\ rt'.bl = rt.bl /\ rt'.obs[1] = rt.obs[1] /\ rt'.obs[2] = o2
    BY <1>2, <1>6, <2>1, <2>2 DEF RtkType, BaselineType
  <2>4. /\ t1 \in Nat /\ t1 >= t0 + 1 /\ t1 <= Later(o1, o2)
    BY <1>2, <1>3, <1>4, <1>6 DEF Later
  <2>5. /\ \A b \in Baseline : b # rt.bl => bl'[b] = bl[b]
        /\ bl'[rt.bl].time = t1 /\ bl'[rt.bl].pair = bl[rt.bl].pair /\ bl'[rt.bl].at = "table"
    BY <1>2, <2>1 DEF BaselineType
  <2> HIDE DEF t1
  <2>6. \A b : Waiting(b)' = Waiting(b)
    BY <1>1 DEF Waiting
  <2>7. \A b, t : Before(b, t) => /\ solved'[b] < t
                                  /\ wk'.pc = "solve" /\ wk'.task.bl = b => Epoch(wk'.task) < t
                                  /\ \A i \in Waiting(b)' : Epoch(rtkpos_queue'[i]) < t
    BY <1>1, <2>6 DEF Before
  <2>8. Before(rt.bl, rt.obs[1])
    <3>1. Before(rt.bl, t0 + 1)
      BY <1>2, <1>3 DEF OrderInv, TimeIsLast
    <3>2. t0 + 1 \in Nat /\ t0 + 1 <= rt.obs[1]
      BY <1>2, <1>3, <1>4, <1>6
    <3> QED BY <1>2, <3>1, <3>2, EarlierThan
  <2>9. Before(rt.bl, t1 + 1) /\ rt.obs[1] <= t1
    <3>1. rt.obs[1] <= t1 /\ rt.obs[1] <= t1 + 1 /\ t1 + 1 \in Nat
      BY <1>2, <1>3, <2>4 DEF t1, Later
    <3> QED BY <1>2, <2>8, <3>1, EarlierThan
  <2>10. EpochsInOrder'
    BY <1>1, <2>6 DEF OrderInv, EpochsInOrder, Epoch, Later
  <2>11. \A b \in Baseline : Before(b, bl'[b].time + 1)
    BY <2>5, <2>9 DEF OrderInv, TimeIsLast
  <2>12. TimeIsLast'
    <3>1. rt'.pc = "queue" => /\ rt'.obs[1] <= bl'[rt'.bl].time
                              /\ Before(rt'.bl, rt'.obs[1])
      BY <2>3, <2>5, <2>8, <2>9
    <3> QED BY <2>7, <2>11, <3>1 DEF TimeIsLast, Before
  <2>13. Readings'
    <3>1. ASSUME NEW b \in Baseline
          PROVE  IF bl'[b].at = "unborn" THEN bl'[b].time = none ELSE
                   \E i \in {1, 2} : bl'[b].time <= obs'[bl'[b].pair[i]]
      <4>1. CASE b # rt.bl
        BY <1>1, <2>5, <4>1 DEF OrderInv, Readings
      <4>2. CASE b = rt.bl
        BY <1>1, <1>3, <2>4, <2>5, <4>2 DEF Later
      <4> QED BY <4>1, <4>2
    <3> QED BY <2>3, <3>1 DEF Readings
  <2> QED BY <2>10, <2>12, <2>13 DEF OrderInv, Order
<1> QED BY <1>2, <1>5, <1>6

\* A task is inserted after those of its baseline.
LEMMA OrderQueue ==
  ASSUME SrtkAssumption, TypeInv, OrderInv, Queue
  PROVE  OrderInv'
<1>1. UNCHANGED <<obs, solved, wk>> /\ rt.pc = "queue" /\ rt'.pc = "iter" /\ rt.bl \in Baseline
      /\ rt.on \in Int /\ rt.obs \in Time \X Time /\ bl \in [Baseline -> BaselineType]
  BY DEF Queue, TypeInv, TypeOK, Threads, Table, RtkType
<1>2. \A b \in Baseline : /\ bl'[b].time = bl[b].time /\ bl'[b].pair = bl[b].pair
                          /\ bl'[b].at = "unborn" <=> bl[b].at = "unborn"
  <2>1. bl' = [bl EXCEPT ![rt.bl].on = rt.on + 1] /\ rt.on + 1 \in Int
    BY <1>1 DEF Queue
  <2> QED BY <1>1, <2>1 DEF BaselineType
<1>3. Readings'
  BY <1>1, <1>2, ReadingsKept DEF OrderInv
<1>4. PICK task \in Task : /\ task.bl = rt.bl /\ Epoch(task) = rt.obs[1]
                           /\ rtkpos_queue' = Append(rtkpos_queue, task)
  <2> DEFINE task == [bl |-> rt.bl, obs |-> rt.obs]
  <2>1. task \in Task /\ task.bl = rt.bl /\ Epoch(task) = rt.obs[1]
    BY <1>1 DEF Task, Epoch
  <2>2. rtkpos_queue' = Append(rtkpos_queue, task)
    BY DEF Queue
  <2> QED BY <2>1, <2>2
<1>5. Before(rt.bl, rt.obs[1]) /\ rt.obs[1] <= bl[rt.bl].time
  BY <1>1 DEF OrderInv, TimeIsLast
<1> DEFINE n == Len(rtkpos_queue) + 1
<1>6. rtkpos_queue \in Seq(Task)
  BY DEF TypeInv, TypeOK
<1>7. \A b : /\ Waiting(b)' = IF rt.bl = b THEN Waiting(b) \union {n} ELSE Waiting(b)
             /\ \A i \in Waiting(b) : rtkpos_queue'[i] = rtkpos_queue[i] /\ i < n /\ i \in Nat
             /\ rtkpos_queue'[n] = task /\ n \in Nat
  BY <1>4, <1>6, TaskQueued
<1> HIDE DEF n
<1>8. EpochsInOrder'
  <2>1. wk.pc = "solve" => solved[wk.task.bl] < Epoch(wk.task)
    BY DEF OrderInv, EpochsInOrder
  <2>2. ASSUME NEW b \in Baseline, NEW i \in Waiting(b)'
        PROVE  /\ solved[b] < Epoch(rtkpos_queue'[i])
               /\ wk.pc = "solve" /\ wk.task.bl = b => Epoch(wk.task) < Epoch(rtkpos_queue'[i])
               /\ \A j \in Waiting(b)' : i < j => Epoch(rtkpos_queue'[i]) < Epoch(rtkpos_queue'[j])
    <3>1. CASE i \in Waiting(b)
      <4>1. /\ solved[b] < Epoch(rtkpos_queue[i])
            /\ wk.pc = "solve" /\ wk.task.bl = b => Epoch(wk.task) < Epoch(rtkpos_queue[i])
            /\ \A j \in Waiting(b) : i < j => Epoch(rtkpos_queue[i]) < Epoch(rtkpos_queue[j])
        BY <3>1 DEF OrderInv, EpochsInOrder
      <4>2. b = rt.bl => Epoch(rtkpos_queue[i]) < Epoch(task)
        BY <1>4, <1>5, <3>1 DEF Before
      <4> QED BY <1>7, <3>1, <4>1, <4>2
    <3>2. CASE i = n /\ b = rt.bl
      <4>1. rtkpos_queue'[i] = task /\ \A j \in Waiting(b)' : ~(i < j)
        BY <1>7, <3>2
      <4> QED BY <1>4, <1>5, <3>2, <4>1 DEF Before
    <3> QED BY <1>7, <2>2, <3>1, <3>2
  <2> QED BY <1>1, <2>1, <2>2 DEF EpochsInOrder, Epoch, Later
<1>9. TimeIsLast'
  <2>1. ASSUME NEW b \in Baseline
        PROVE  /\ solved[b] < bl[b].time + 1
               /\ wk.pc = "solve" /\ wk.task.bl = b => Epoch(wk.task) < bl[b].time + 1
               /\ \A i \in Waiting(b)' : Epoch(rtkpos_queue'[i]) < bl[b].time + 1
    <3>1. Before(b, bl[b].time + 1)
      BY DEF OrderInv, TimeIsLast
    <3>2. b = rt.bl => Epoch(task) < bl[b].time + 1
      BY <1>1, <1>4, <1>5 DEF BaselineType, Time, SrtkAssumption
    <3> QED BY <1>7, <3>1, <3>2 DEF Before
  <2> QED BY <1>1, <1>2, <2>1 DEF TimeIsLast, Before, Epoch, Later
<1> QED BY <1>3, <1>8, <1>9 DEF OrderInv

\* The work thread takes the earliest task of a baseline, and solves it.
LEMMA OrderTake ==
  ASSUME SrtkAssumption, TypeInv, OrderInv, Take
  PROVE  OrderInv'
<1>1. UNCHANGED <<obs, bl, rt, solved>> /\ wk.pc = "empty" /\ wk \in WorkType
      /\ rtkpos_queue \in Seq(Task)
  BY DEF Take, TypeInv, TypeOK, Threads
<1>2. Readings'
  BY <1>1, ReadingsKept DEF OrderInv
<1>3. CASE rtkpos_queue = <<>>
  <2>1. rtkpos_queue' = rtkpos_queue /\ wk'.pc # "solve"
    BY <1>1, <1>3 DEF Take, WorkType
  <2> QED BY <1>1, <1>2, <2>1, OrderKept DEF OrderInv, Order
<1>4. CASE rtkpos_queue # <<>>
  <2>1. PICK task \in Task : task = rtkpos_queue[1] /\ task = Head(rtkpos_queue)
    BY <1>1, <1>4
  <2>2. wk'.pc = "solve" /\ wk'.task = task /\ rtkpos_queue' = Tail(rtkpos_queue)
    BY <1>1, <1>4, <2>1 DEF Take, WorkType
  <2>3. \A b : /\ \A i : i \in Waiting(b)' <=> i \in Nat \ {0} /\ i + 1 \in Waiting(b)
               /\ \A i \in Waiting(b)' : rtkpos_queue'[i] = rtkpos_queue[i + 1]
               /\ 1 \in Waiting(b) <=> task.bl = b
    BY <1>1, <1>4, <2>1, <2>2, TaskTaken
  <2>4. task.bl \in Baseline
    BY DEF Task
  <2>5. EpochsInOrder'
    <3>1. solved[task.bl] < Epoch(task)
      BY <2>1, <2>3, <2>4 DEF OrderInv, EpochsInOrder
    <3>2. ASSUME NEW b \in Baseline, NEW i \in Waiting(b)'
          PROVE  /\ solved[b] < Epoch(rtkpos_queue'[i])
                 /\ task.bl = b => Epoch(task) < Epoch(rtkpos_queue'[i])
                 /\ \A j \in Waiting(b)' : i < j => Epoch(rtkpos_queue'[i]) < Epoch(rtkpos_queue'[j])
      <4>1. i + 1 \in Waiting(b) /\ rtkpos_queue'[i] = rtkpos_queue[i + 1] /\ i \in Nat \ {0}
        BY <2>3, <3>2
      <4>2. solved[b] < Epoch(rtkpos_queue[i + 1])
        BY <4>1 DEF OrderInv, EpochsInOrder
      <4>3. task.bl = b => Epoch(task) < Epoch(rtkpos_queue[i + 1])
        BY <2>1, <2>3, <4>1 DEF OrderInv, EpochsInOrder
      <4>4. ASSUME NEW j \in Waiting(b)', i < j
            PROVE  Epoch(rtkpos_queue[i + 1]) < Epoch(rtkpos_queue'[j])
        <5>1. j + 1 \in Waiting(b) /\ rtkpos_queue'[j] = rtkpos_queue[j + 1] /\ i + 1 < j + 1
          BY <2>3, <4>1, <4>4
        <5> QED BY <4>1, <5>1 DEF OrderInv, EpochsInOrder
      <4> QED BY <4>1, <4>2, <4>3, <4>4
    <3> QED BY <1>1, <2>2, <3>1, <3>2 DEF EpochsInOrder, Epoch, Later
  <2>6. \A b \in Baseline : \A t : Before(b, t) =>
          /\ solved[b] < t
          /\ task.bl = b => Epoch(task) < t
          /\ \A i \in Waiting(b)' : Epoch(rtkpos_queue'[i]) < t
    BY <2>1, <2>3 DEF Before
  <2>7. rt.pc = "queue" => rt.bl \in Baseline
    BY DEF TypeInv, Threads, Table
  <2>8. TimeIsLast'
    <3>1. \A b \in Baseline : Before(b, bl[b].time + 1)
      BY DEF OrderInv, TimeIsLast
    <3>2. rt.pc = "queue" => /\ rt.obs[1] <= bl[rt.bl].time
                             /\ Before(rt.bl, rt.obs[1])
      BY DEF OrderInv, TimeIsLast
    <3>3. \A b \in Baseline : \A t : Before(b, t) =>
            /\ solved'[b] < t
            /\ wk'.pc = "solve" /\ wk'.task.bl = b => Epoch(wk'.task) < t
            /\ \A i \in Waiting(b)' : Epoch(rtkpos_queue'[i]) < t
      BY <1>1, <2>2, <2>6
    <3> QED BY <1>1, <2>7, <3>1, <3>2, <3>3 DEF TimeIsLast, Before, Epoch, Later
  <2> QED BY <1>2, <2>5, <2>8 DEF OrderInv
<1> QED BY <1>3, <1>4

LEMMA OrderSolve ==
  ASSUME SrtkAssumption, TypeInv, OrderInv, Solve
  PROVE  OrderInv'
<1>1. UNCHANGED <<obs, bl, rt, rtkpos_queue>> /\ wk.pc = "solve" /\ wk \in WorkType
      /\ wk.task.bl \in Baseline /\ solved \in [Baseline -> Time]
  BY DEF Solve, TypeInv, TypeOK, Threads, Task
<1>2. Readings'
  BY <1>1, ReadingsKept DEF OrderInv
<1>3. wk'.pc = "dec"
  BY ONLY <1>1, Solve DEF Solve, WorkType
<1>4. \A b \in Baseline : solved'[b] = IF b = wk.task.bl THEN Epoch(wk.task) ELSE solved[b]
  BY <1>1 DEF Solve
<1>5. \A b : Waiting(b)' = Waiting(b)
  BY <1>1 DEF Waiting
<1>6. EpochsInOrder'
  BY <1>1, <1>3, <1>4, <1>5 DEF OrderInv, EpochsInOrder, Epoch, Later
<1>7. \A b \in Baseline : \A t : Before(b, t) =>
        /\ solved'[b] < t
        /\ \A i \in Waiting(b)' : Epoch(rtkpos_queue'[i]) < t
  BY <1>1, <1>4, <1>5 DEF Before
<1>8. rt.pc = "queue" => rt.bl \in Baseline
  BY DEF TypeInv, Threads, Table
<1>9. TimeIsLast'
  BY <1>1, <1>3, <1>7, <1>8 DEF OrderInv, TimeIsLast, Before, Epoch, Later
<1> QED BY <1>2, <1>6, <1>9 DEF OrderInv

LEMMA OrderStep ==
  SrtkAssumption /\ TypeInv /\ OrderInv /\ [Next]_vars => OrderInv'
<1> SUFFICES ASSUME SrtkAssumption, TypeInv, OrderInv, [Next]_vars PROVE OrderInv'
  OBVIOUS
<1>1. CASE UNCHANGED vars
  BY <1>1, OrderQuiet DEF vars
<1> QED
  BY <1>1, OrderObs, OrderAdd, OrderWatch, OrderCompare, OrderCopy, OrderQueue, OrderTake,
     OrderSolve
  DEF Next, RtkThread, WorkThread

-----------------------------------------------------------------------------
(* The theorems.                                                           *)

SrtkInv == TypeInv /\ Counts /\ OneDirection /\ FreedWhenDone /\ OrderInv

LEMMA InitInv == SrtkAssumption /\ Init => SrtkInv
<1> SUFFICES ASSUME SrtkAssumption, Init PROVE SrtkInv
  OBVIOUS
<1>1. /\ TypeInv /\ Table = {} /\ ended = <<>> /\ wk.pc = "loop" /\ rt.pc = "boot"
      /\ \A b \in Baseline : bl[b].on = 0 /\ bl[b].time = 0 /\ bl[b].at = "unborn" /\ solved[b] = 0
  BY InitTypes DEF Init, Table, none
<1>2. \A b : Waiting(b) = {} /\ Working(b) = 0
  BY DEF Init, Waiting, Working
<1>3. Cardinality({}) = 0
  BY FS_EmptySet
<1>4. Counts
  <2>1. ASSUME NEW b \in Baseline PROVE bl[b].on = Cardinality(Waiting(b)) + Working(b)
    <3>1. bl[b].on = 0 /\ Waiting(b) = {} /\ Working(b) = 0
      BY <1>1, <1>2
    <3> QED BY ONLY <1>3, <3>1
  <2> QED BY <1>1, <2>1 DEF Counts, CountsTasks, FreedUnused
<1>5. OneDirection /\ FreedWhenDone
  BY <1>1 DEF OneDirection, FreedWhenDone
<1>6. OrderInv
  BY <1>1, <1>2 DEF OrderInv, EpochsInOrder, TimeIsLast, Readings, Before, none
<1> QED BY <1>1, <1>4, <1>5, <1>6 DEF SrtkInv

\* The invariant of the engine: types, counts, directions and the order of the epochs.
THEOREM SrtkInductive == Spec => []SrtkInv
<1>1. Init => SrtkInv
  BY SrtkAssumption, InitInv
<1>2. SrtkInv /\ [Next]_vars => SrtkInv'
  BY SrtkAssumption, TypesStep, CountsStep, OneStep, FreedStep, OrderStep DEF SrtkInv
<1> QED BY <1>1, <1>2, PTL DEF Spec

\* Two stations have one baseline, in one direction, and its count is the number of its
\* tasks unless it was torn (srtk.c:188, :327-346).
THEOREM BaselinesAreSound == Spec => []BaselinesSound
<1>1. SrtkInv => BaselinesSound
  BY DEF SrtkInv, TypeInv, Counts, BaselinesSound
<1> QED BY <1>1, SrtkInductive, PTL

\* No epoch of a baseline is solved twice or out of order, however observations are
\* overwritten while they are compared and copied (srtk.c:105, :115, :271).
THEOREM EpochsAreInOrder == Spec => []EpochsInOrder
<1>1. SrtkInv => EpochsInOrder
  BY DEF SrtkInv, OrderInv
<1> QED BY <1>1, SrtkInductive, PTL

\* Unless its count was torn, a baseline is not freed under a task that the work thread
\* solves; what is read of it after bl->on-- can be freed, but under its last task only
\* (srtk.c:188-198, :244).
THEOREM NotFreedInUse == Spec => []FreedWhenDone
<1>1. SrtkInv => FreedWhenDone
  BY DEF SrtkInv
<1> QED BY <1>1, SrtkInductive, PTL
=============================================================================
