-------------------------------- MODULE Srtk --------------------------------
(***************************************************************************)
(* src/nrtk/srtk.c: an RTK engine.  Its rtk thread watches the             *)
(* observations of the stations, which the decoder thread overwrites       *)
(* without a lock, and queues a task for every epoch that the two stations *)
(* of a baseline share; its work thread solves the tasks.  Baselines are   *)
(* asked for and taken back by the nrtk thread and the command line, and   *)
(* freed by the rtk thread once bl->on says that no task needs them.       *)
(*                                                                         *)
(* Shared memory is read and written one access a step where threads race: *)
(* an observation, and bl->on, which both threads change unprotected.      *)
(* The three queues are locked and are sequences here (see QueueRing).     *)
(***************************************************************************)
EXTENDS Naturals, Integers, Sequences, FiniteSets

CONSTANTS Srcid,    \* the stations
          MaxTime,  \* bound: epochs of the observations; 0 stands for none
          MaxAdd,   \* bound: baselines asked for
          MaxDel    \* bound: baselines taken back

ASSUME SrtkAssumption == /\ MaxTime \in Nat \ {0}
                         /\ MaxAdd \in Nat
                         /\ MaxDel \in Nat

Time == 0 .. MaxTime
Pair == {p \in Srcid \X Srcid : p[1] # p[2]}     \* "base->rover"
Baseline == 1 .. MaxAdd                          \* cors_baseline_t, as calloc'ed
Task == [bl : Baseline, obs : Time \X Time]      \* rtkpos_task_t: robs and bobs
none == 0

Reverse(p) == <<p[2], p[1]>>
Later(t, u) == IF t > u THEN t ELSE u

VARIABLES obs,          \* cors->obs: the epoch of each station's observations
          bl,           \* the baselines: pair, on, time, and where they are
          addbl_queue, delbl_queue, rtkpos_queue,
          state,        \* srtk->state
          rt,           \* the rtk thread
          wk,           \* the work thread
          edge_bl,      \* the baseline of each edge that the network was told
          nadd, ndel,   \* history: calls of the two APIs
          solved,       \* history: the last epoch solved of each baseline
          behind,       \* history: the baselines whose last task has observations
                        \* of the rover older than those of the base
          torn,         \* history: the baselines with a lost update of bl->on
          ended         \* history: what freed memory the crash came upon

history == <<behind, torn, ended>>
vars == <<obs, bl, addbl_queue, delbl_queue, rtkpos_queue, state, rt, wk,
          edge_bl, nadd, ndel, solved, behind, torn, ended>>
apiVars == <<addbl_queue, delbl_queue, nadd, ndel>>

Place == {"unborn", "table", "removed", "freed"}
RtkPC == {"boot", "started", "loop", "iter", "time", "check", "copy", "queue",
          "adds", "dels", "spin", "exited", "crashed"}
WorkPC == {"loop", "empty", "solve", "dec", "publish", "exited", "crashed"}

Init == /\ obs = [s \in Srcid |-> none]
        /\ bl = [b \in Baseline |-> [pair |-> <<>>, on |-> 0, time |-> none, at |-> "unborn"]]
        /\ addbl_queue = <<>> /\ delbl_queue = <<>> /\ rtkpos_queue = <<>>
        /\ state = 1
        /\ rt = [pc |-> "boot", bl |-> 0, side |-> 1, time_cur |-> none,
                 obs |-> <<none, none>>, on |-> 0]
        /\ wk = [pc |-> "loop", task |-> <<>>, on |-> 0]
        /\ edge_bl = [p \in Pair |-> 0]
        /\ nadd = 0 /\ ndel = 0
        /\ solved = [b \in Baseline |-> none]
        /\ behind = {} /\ torn = {} /\ ended = <<>>

Table == {b \in Baseline : bl[b].at = "table"}
Find(p) == {b \in Table : bl[b].pair = p}

-----------------------------------------------------------------------------
(* The other threads.                                                      *)

\* cors_updobs, from the decoder thread: the epochs of a stream increase.
UpdObs(s) ==
  /\ rt.pc # "crashed"
  /\ \E t \in Time : t > obs[s] /\ obs' = [obs EXCEPT ![s] = t]
  /\ UNCHANGED <<bl, apiVars, rtkpos_queue, state, rt, wk, edge_bl, solved, history>>

\* cors_srtk_add_baseline.
AddBaseline(p) ==
  /\ state # 0
  /\ nadd < MaxAdd
  /\ nadd' = nadd + 1
  /\ addbl_queue' = Append(addbl_queue, p)
  /\ UNCHANGED <<obs, bl, delbl_queue, ndel, rtkpos_queue, state, rt, wk, edge_bl, solved, history>>

\* cors_srtk_del_baseline: the baseline is looked up now, and deleted later.
DelBaseline(p) ==
  /\ state # 0
  /\ ndel < MaxDel
  /\ ndel' = ndel + 1
  /\ \E b \in Find(p) : delbl_queue' = Append(delbl_queue, b)
  /\ UNCHANGED <<obs, bl, addbl_queue, nadd, rtkpos_queue, state, rt, wk, edge_bl, solved, history>>

\* cors_srtk_close ...
Close ==
  /\ state # 0
  /\ state' = 0
  /\ UNCHANGED <<obs, bl, apiVars, rtkpos_queue, rt, wk, edge_bl, solved, history>>

\* ... which frees the table after it has joined both threads.
Joined ==
  /\ rt.pc = "exited" /\ wk.pc = "exited" /\ Table # {}
  /\ bl' = [b \in Baseline |-> IF b \in Table THEN [bl[b] EXCEPT !.at = "freed"] ELSE bl[b]]
  /\ UNCHANGED <<obs, apiVars, rtkpos_queue, state, rt, wk, edge_bl, solved, history>>

\* Memory that was freed is used: the end of the program.
Crash(where, b) ==
  /\ state' = 0
  /\ rt' = [rt EXCEPT !.pc = "crashed"]
  /\ wk' = [wk EXCEPT !.pc = "crashed"]
  /\ ended' = <<where, b>>
  /\ UNCHANGED <<obs, bl, apiVars, rtkpos_queue, edge_bl, solved, behind, torn>>

-----------------------------------------------------------------------------
(* The rtk thread.                                                         *)

\* state++, a read and a write: it can undo the state=0 of an early close.
Start ==
  /\ rt.pc = "boot"
  /\ rt' = [rt EXCEPT !.pc = "started", !.on = state]
  /\ UNCHANGED <<obs, bl, apiVars, rtkpos_queue, state, wk, edge_bl, solved, history>>

Started ==
  /\ rt.pc = "started"
  /\ state' = rt.on + 1
  /\ rt' = [rt EXCEPT !.pc = "loop", !.on = 0]
  /\ UNCHANGED <<obs, bl, apiVars, rtkpos_queue, wk, edge_bl, solved, history>>

Loop ==
  /\ rt.pc = "loop" /\ state # 1
  /\ rt' = [rt EXCEPT !.pc = IF state = 0 THEN "exited" ELSE "iter", !.bl = 0]
  /\ UNCHANGED <<obs, bl, apiVars, rtkpos_queue, state, wk, edge_bl, solved, history>>

\* HASH_ITER goes through the table in the order of insertion, and
\* bl_time_sync looks the observations of both stations up: a baseline that
\* misses one is not in time.
Iter ==
  /\ rt.pc = "iter"
  /\ LET rest == {b \in Table : b > rt.bl}
     IN  \/ rest = {} /\ rt' = [rt EXCEPT !.pc = "adds"]
         \/ \E b \in rest :
              /\ \A c \in rest : b <= c
              /\ rt' = [rt EXCEPT !.bl = b, !.side = 1, !.time_cur = none,
                                  !.pc = IF \E i \in {1, 2} : obs[bl[b].pair[i]] = none
                                         THEN "iter" ELSE "time"]
  /\ UNCHANGED <<obs, bl, apiVars, rtkpos_queue, state, wk, edge_bl, solved, history>>

\* The observation of the station at rt.side as it is now: obsd[0] is the
\* rover's, obsd[1] the base's, and both are gone through in this order.
Now == obs[bl[rt.bl].pair[3 - rt.side]]

\* Both stations in turn: upd_bl_time, which an epoch already done ends ...
ReadTime ==
  /\ rt.pc = "time"
  /\ LET t == Later(rt.time_cur, Now)
     IN  rt' = [rt EXCEPT !.time_cur = t,
                          !.side = 3 - @,
                          !.pc = IF rt.side = 1 THEN "time"
                                 ELSE IF t = bl[rt.bl].time THEN "iter" ELSE "check"]
  /\ UNCHANGED <<obs, bl, apiVars, rtkpos_queue, state, wk, edge_bl, solved, history>>

\* Mutant: an epoch that one station still misses is marked as done.
CheckMarks ==
  /\ rt.pc = "check"
  /\ rt' = [rt EXCEPT !.side = 3 - @,
                      !.pc = IF Now # rt.time_cur THEN "iter"
                             ELSE IF rt.side = 1 THEN "check" ELSE "copy"]
  /\ bl' = [bl EXCEPT ![rt.bl].time = rt.time_cur]
  /\ UNCHANGED <<obs, apiVars, rtkpos_queue, state, wk, edge_bl, solved, history>>

\* ... the comparison with SRTK_STRICT_TIME_SYNC and SRTK_STRICT_BSTA_SYNC ...
Check ==
  /\ rt.pc = "check"
  /\ rt' = [rt EXCEPT !.side = 3 - @,
                      !.pc = IF Now # rt.time_cur THEN "iter"
                             ELSE IF rt.side = 1 THEN "check" ELSE "copy"]
  /\ UNCHANGED <<obs, bl, apiVars, rtkpos_queue, state, wk, edge_bl, solved, history>>

\* Mutant: the baseline remembers the earlier of the two epochs.
CopyEarlier ==
  /\ rt.pc = "copy"
  /\ rt' = [rt EXCEPT !.side = 3 - @, !.obs[rt.side] = Now,
                      !.on = bl[rt.bl].on,
                      !.pc = IF rt.side = 1 THEN "copy" ELSE "queue"]
  /\ bl' = IF rt.side = 1 THEN bl
           ELSE [bl EXCEPT ![rt.bl].time = IF rt.obs[1] < Now THEN rt.obs[1] ELSE Now]
  /\ UNCHANGED <<obs, apiVars, rtkpos_queue, state, wk, edge_bl, solved, history>>

\* ... and upd_rbobs, which copies what the stations have by then.  With the
\* copies upd_bl_stat sets bl->time, and new_rtkpos_task reads bl->on ...
Copy ==
  /\ rt.pc = "copy"
  /\ rt' = [rt EXCEPT !.side = 3 - @, !.obs[rt.side] = Now,
                      !.on = bl[rt.bl].on,
                      !.pc = IF rt.side = 1 THEN "copy" ELSE "queue"]
  /\ bl' = IF rt.side = 1 THEN bl
           ELSE [bl EXCEPT ![rt.bl].time = Later(rt.obs[1], Now)]
  /\ UNCHANGED <<obs, apiVars, rtkpos_queue, state, wk, edge_bl, solved, history>>

\* Mutant: a task is queued and not counted.
QueueUncounted ==
  /\ rt.pc = "queue"
  /\ rtkpos_queue' = Append(rtkpos_queue, [bl |-> rt.bl, obs |-> rt.obs])
  /\ rt' = [rt EXCEPT !.pc = "iter"]
  /\ UNCHANGED <<obs, bl, apiVars, state, wk, edge_bl, solved, history>>

\* ... which it writes back before add_rtkpos_work inserts the task.
Queue ==
  /\ rt.pc = "queue"
  /\ bl' = [bl EXCEPT ![rt.bl].on = rt.on + 1]
  /\ torn' = IF bl[rt.bl].on # rt.on THEN torn \union {rt.bl} ELSE torn
  /\ behind' = IF rt.obs[1] < rt.obs[2] THEN behind \union {rt.bl} ELSE behind \ {rt.bl}
  /\ rtkpos_queue' = Append(rtkpos_queue, [bl |-> rt.bl, obs |-> rt.obs])
  /\ rt' = [rt EXCEPT !.pc = "iter"]
  /\ UNCHANGED <<obs, apiVars, state, wk, edge_bl, solved, ended>>

\* add_baseline_work goes on until its queue is empty.
AddsDone ==
  /\ rt.pc = "adds" /\ addbl_queue = <<>>
  /\ rt' = [rt EXCEPT !.pc = "dels"]
  /\ UNCHANGED <<obs, bl, apiVars, rtkpos_queue, state, wk, edge_bl, solved, history>>

New(p) == CHOOSE b \in Baseline : bl[b].at = "unborn" /\ \A c \in Baseline : c < b => bl[c].at # "unborn"

\* do_add_baseline: dropped when the baseline exists; the baseline of the
\* other direction serves, too, and the network is told which one it is.
DoAddBaseline ==
  /\ rt.pc = "adds" /\ addbl_queue # <<>>
  /\ addbl_queue' = Tail(addbl_queue)
  /\ LET p == Head(addbl_queue)
     IN  \/ Find(p) # {} /\ UNCHANGED <<bl, edge_bl>>
         \/ /\ Find(p) = {}
            /\ \E b \in Find(Reverse(p)) : edge_bl' = [edge_bl EXCEPT ![p] = b]
            /\ UNCHANGED bl
         \/ /\ Find(p) = {} /\ Find(Reverse(p)) = {}
            /\ bl' = [bl EXCEPT ![New(p)].pair = p, ![New(p)].at = "table"]
            /\ edge_bl' = [edge_bl EXCEPT ![p] = New(p)]
  /\ UNCHANGED <<obs, delbl_queue, nadd, ndel, rtkpos_queue, state, rt, wk, solved, history>>

DelsDone ==
  /\ rt.pc = "dels" /\ delbl_queue = <<>>
  /\ rt' = [rt EXCEPT !.pc = "loop"]
  /\ UNCHANGED <<obs, bl, apiVars, rtkpos_queue, state, wk, edge_bl, solved, history>>

\* del_baseline_prc: HASH_DEL, and then do_del_baseline waits ...
Remove ==
  /\ rt.pc = "dels" /\ delbl_queue # <<>>
  /\ bl[Head(delbl_queue)].at = "table"
  /\ bl' = [bl EXCEPT ![Head(delbl_queue)].at = "removed"]
  /\ rt' = [rt EXCEPT !.bl = Head(delbl_queue), !.pc = "spin"]
  /\ delbl_queue' = Tail(delbl_queue)
  /\ UNCHANGED <<obs, addbl_queue, nadd, ndel, rtkpos_queue, state, wk, edge_bl, solved, history>>

\* Mutant: the baseline is freed without waiting.
FreeNow ==
  /\ rt.pc = "spin"
  /\ bl' = [bl EXCEPT ![rt.bl].at = "freed"]
  /\ rt' = [rt EXCEPT !.pc = "dels"]
  /\ UNCHANGED <<obs, apiVars, rtkpos_queue, state, wk, edge_bl, solved, history>>

\* ... for bl->on to become 0.
Free ==
  /\ rt.pc = "spin" /\ bl[rt.bl].on = 0
  /\ bl' = [bl EXCEPT ![rt.bl].at = "freed"]
  /\ rt' = [rt EXCEPT !.pc = "dels"]
  /\ UNCHANGED <<obs, apiVars, rtkpos_queue, state, wk, edge_bl, solved, history>>

\* The baseline was deleted by an earlier request.
DoubleFree ==
  /\ rt.pc = "dels" /\ delbl_queue # <<>>
  /\ bl[Head(delbl_queue)].at # "table"
  /\ Crash("twice", Head(delbl_queue))

RtkThread == \/ Start \/ Started \/ Loop \/ Iter \/ ReadTime \/ Check \/ Copy \/ Queue
             \/ AddsDone \/ DoAddBaseline \/ DelsDone \/ Remove \/ Free \/ DoubleFree

-----------------------------------------------------------------------------
(* The work thread.                                                        *)

WorkLoop ==
  /\ wk.pc = "loop" /\ state # 1
  /\ wk' = [wk EXCEPT !.pc = IF state = 0 THEN "exited" ELSE "empty"]
  /\ UNCHANGED <<obs, bl, apiVars, rtkpos_queue, state, rt, edge_bl, solved, history>>

\* rtk_process: nobody else takes tasks, so one that is seen can be taken.
Take ==
  /\ wk.pc = "empty"
  /\ IF rtkpos_queue = <<>>
       THEN wk' = [wk EXCEPT !.pc = "loop"] /\ UNCHANGED rtkpos_queue
       ELSE /\ wk' = [wk EXCEPT !.pc = "solve", !.task = Head(rtkpos_queue)]
            /\ rtkpos_queue' = Tail(rtkpos_queue)
  /\ UNCHANGED <<obs, bl, apiVars, state, rt, edge_bl, solved, history>>

\* The solution is the position of the rover at the time of the rover's
\* observations; those of the base are there to be subtracted.
Epoch(task) == task.obs[1]
Usable == wk.task # <<>> /\ bl[wk.task.bl].at # "freed"

\* do_rtkpos_work: rtkpos, then bl->on-- as a read ...
Solve ==
  /\ wk.pc = "solve" /\ Usable
  /\ solved' = [solved EXCEPT ![wk.task.bl] = Epoch(wk.task)]
  /\ wk' = [wk EXCEPT !.pc = "dec", !.on = bl[wk.task.bl].on]
  /\ UNCHANGED <<obs, bl, apiVars, rtkpos_queue, state, rt, edge_bl, history>>

\* Mutant: the task is not counted down.
DecNot ==
  /\ wk.pc = "dec" /\ Usable
  /\ wk' = [wk EXCEPT !.pc = "publish", !.on = 0]
  /\ UNCHANGED <<obs, bl, apiVars, rtkpos_queue, state, rt, edge_bl, solved, history>>

\* ... and a write, after which the solution is taken from bl->rtk.
Dec ==
  /\ wk.pc = "dec" /\ Usable
  /\ bl' = [bl EXCEPT ![wk.task.bl].on = wk.on - 1]
  /\ torn' = IF bl[wk.task.bl].on # wk.on THEN torn \union {wk.task.bl} ELSE torn
  /\ wk' = [wk EXCEPT !.pc = "publish", !.on = 0]
  /\ UNCHANGED <<obs, apiVars, rtkpos_queue, state, rt, edge_bl, solved, behind, ended>>

Publish ==
  /\ wk.pc = "publish" /\ Usable
  /\ wk' = [wk EXCEPT !.pc = "empty", !.task = <<>>]
  /\ UNCHANGED <<obs, bl, apiVars, rtkpos_queue, state, rt, edge_bl, solved, history>>

\* The task's baseline was freed.
UseAfterFree ==
  /\ wk.pc \in {"solve", "dec", "publish"} /\ ~Usable
  /\ Crash(wk.pc, wk.task.bl)

WorkThread == WorkLoop \/ Take \/ Solve \/ Dec \/ Publish \/ UseAfterFree

-----------------------------------------------------------------------------
Next == \/ \E s \in Srcid : UpdObs(s)
        \/ \E p \in Pair : AddBaseline(p) \/ DelBaseline(p)
        \/ Close
        \/ Joined
        \/ RtkThread
        \/ WorkThread

\* Both threads poll without blocking.
Fairness == WF_vars(RtkThread) /\ WF_vars(WorkThread)

Spec == Init /\ [][Next]_vars /\ Fairness

-----------------------------------------------------------------------------
(* Properties.                                                             *)

BaselineType == [pair : Pair \union {<<>>}, on : Int, time : Time, at : Place]

TypeOK == /\ obs \in [Srcid -> Time]
          /\ bl \in [Baseline -> BaselineType]
          /\ addbl_queue \in Seq(Pair)
          /\ delbl_queue \in Seq(Baseline)
          /\ rtkpos_queue \in Seq(Task)
          /\ state \in 0 .. 2
          /\ rt.pc \in RtkPC /\ rt.bl \in 0 .. MaxAdd /\ rt.side \in {1, 2}
          /\ wk.pc \in WorkPC /\ wk.task \in Task \union {<<>>}
          /\ edge_bl \in [Pair -> 0 .. MaxAdd]
          /\ nadd \in 0 .. MaxAdd /\ ndel \in 0 .. MaxDel
          /\ solved \in [Baseline -> Time]
          /\ behind \subseteq Baseline /\ torn \subseteq Baseline
          /\ ended \in {<<>>} \union ({"twice", "solve", "dec", "publish"} \X Baseline)

\* The task that is being solved, and those of a baseline that wait.
Working(b) == IF wk.pc \in {"solve", "dec"} /\ wk.task.bl = b THEN 1 ELSE 0
Waiting(b) == {i \in DOMAIN rtkpos_queue : rtkpos_queue[i].bl = b}

\* No epoch of a baseline is solved twice, and none after a later one, although
\* observations are overwritten between the checks and the copies
\* (srtk.c:105, :115, :271).
EpochsInOrder ==
  /\ wk.pc = "solve" => solved[wk.task.bl] < Epoch(wk.task)
  /\ \A b \in Baseline : \A i \in Waiting(b) :
       /\ solved[b] < Epoch(rtkpos_queue[i])
       /\ wk.pc = "solve" /\ wk.task.bl = b => Epoch(wk.task) < Epoch(rtkpos_queue[i])
       /\ \A j \in Waiting(b) : i < j => Epoch(rtkpos_queue[i]) < Epoch(rtkpos_queue[j])

\* Two stations have one baseline at a time, in one direction, however
\* requests for both directions and deletions follow each other; and the
\* network knows it under the name it was created by (srtk.c:327-346).
OneDirection ==
  \A b \in Table : /\ Find(bl[b].pair) = {b}
                   /\ Find(Reverse(bl[b].pair)) = {}
                   /\ edge_bl[bl[b].pair] = b

\* bl->on counts the tasks of a baseline that are queued or being solved, as
\* long as no update of one thread falls between the read and the write of the
\* other (srtk.c:188, and new_rtkpos_task).
CountsTasks ==
  ended = <<>> => \A b \in Baseline \ torn : bl[b].on = Cardinality(Waiting(b)) + Working(b)

\* What holds of the engine's baselines at any time: one for two stations, and a
\* count that is the number of its tasks (srtk.c:188, :327-346).
BaselinesSound == TypeOK /\ CountsTasks /\ OneDirection

\* A baseline is not freed under a task that is solved unless its count was
\* torn.  The lines after bl->on-- are not protected by the count: what they read
\* can be freed, but only under the last task, so that no other solution of the
\* baseline is lost (srtk.c:188-198, :244).
FreedWhenDone ==
  \A b \in Baseline \ torn :
    /\ ended \notin {<<"solve", b>>, <<"dec", b>>}
    /\ ended = <<"publish", b>> => Waiting(b) = {}

\* do_del_baseline does not wait for ever, unless a count was torn or the work
\* thread leaves, as it does on a close, with tasks still queued (srtk.c:222, :244).
WaitEnds == (rt.pc = "spin") ~> (rt.pc # "spin" \/ torn # {} \/ state = 0 \/ wk.pc = "exited")

\* Both stations have the observations of the last epoch.
InTime(b) == bl[b].pair # <<>> /\ \A i \in {1, 2} : obs[bl[b].pair[i]] = MaxTime

\* A thread has ended or will, unless Started undoes it.
Closing == state = 0 \/ {wk.pc, rt.pc} \intersect {"exited", "crashed"} # {}

\* An epoch that both stations have delivered, and that is not overwritten, is
\* not overlooked for good, unless the engine closes, crashes, removes the
\* baseline or waits to free another; or unless the base's observations of that
\* epoch came between the comparison and their copy, and the rover's after their
\* own: bl->time is then the epoch of the base, of which the rover's observations
\* are never solved (srtk.c:88-134, :271, :281-285).
LastEpochSolved ==
  \A b \in Baseline :
    b \in Table /\ InTime(b) ~>
      solved[b] = MaxTime \/ b \in behind \/ b \notin Table \/ Closing \/ rt.pc = "spin"

\* What the README calls the time synchronisation of the stations'
\* observations: a task has observations of one epoch.
TasksSynchronised ==
  \A i \in 1 .. Len(rtkpos_queue) : rtkpos_queue[i].obs[1] = rtkpos_queue[i].obs[2]

=============================================================================
