------------------------------ MODULE NrtkSync ------------------------------
(***************************************************************************)
(* The nrtk thread with its network, an RTK engine and their agreement:    *)
(* nrtk.c asks the engine for a baseline for every edge of the network,    *)
(* the engine answers with the baseline it has made, and the edge keeps a  *)
(* pointer to it.  Through these pointers the nrtk thread waits until all  *)
(* edges of a station have a solution of the station's epoch, and hands    *)
(* them to the virtual stations.                                           *)
(*                                                                         *)
(* Srtk takes the engine apart; here its thread goes from one queue to the *)
(* next, compares the observations of two stations and copies them while   *)
(* the decoder replaces them, and the work thread solves a task in one     *)
(* step.  There is one engine: a second one starts at NTRK_MAX_BLS         *)
(* baselines.  The names are this module's own where Nrtk has others, so   *)
(* that one proof module can extend both.                                  *)
(***************************************************************************)
EXTENDS Dtrignet, Sequences

CONSTANTS FromFile,  \* the stations of the sources file
          MaxTime,   \* bound: epochs of the observations; 0 stands for none
          MaxReq,    \* bound: requests to change the network
          MaxWork,   \* bound: epochs of all stations, and two for every request
          Manual,    \* bound: the edges that are asked for by hand
          MaxBl      \* bound: baselines the engine makes

ASSUME NrtkSyncAssumption == /\ Srcid \subseteq Nat /\ FromFile \subseteq Srcid
                             /\ Manual \subseteq Edge
                             /\ {MaxTime, MaxReq, MaxWork, MaxBl} \subseteq Nat

Time == 0 .. MaxTime
Baseline == 1 .. MaxBl
unset == 0

\* Observations that were copied for a task, by their epochs: the rover's and
\* the base's.  The time of a baseline or a solution is the later of the two.
Copies == Time \X Time
nothing == <<unset, unset>>
Epoch(x) == IF x[1] < x[2] THEN x[2] ELSE x[1]

VARIABLES edge_bl,    \* edge->bl of every edge, or none
          vt_time,    \* vt->time of every vertex
          pc,         \* where the nrtk thread is, ...
          todo,       \* ... the vertices it has yet to visit, ...
          vts,        \* ... the one it visits, ...
          time_cur,   \* ... and the epoch it found there
          ask,        \* addsrc_queue, delsrc_queue, addbl_queue, delbl_queue
          updbl,      \* updbl_queue: a baseline and its edge
          bl_pair,    \* of every baseline: its stations,
          bl_time,    \* the copies of its last task: bl->time is their Epoch,
          bl_sol,     \* whether bl->sol is set,
          bl_at,      \* and where it is
          epc,        \* where the engine's thread is, ...
          rt_bl,      \* ... the baseline it is at,
          rt_time,    \* and the epoch it found there, or copied
          addbl,      \* the engine's queues: see Batches below
          delbl,
          rtkpos,
          blsol,      \* cors->blsols: the copies each solution was made of, or
                      \* nothing: blsol->rtk.time is their Epoch
          obs,        \* cors->obs: the epoch of each station's observations
          sent,       \* history: the last epoch of each station for which the
                      \* virtual stations got all solutions
          known,      \* history: the srcids given out
          asked,      \* history: requests made
          torn,       \* history: edges deleted by hand since the last build
          again,      \* history: edges asked for more than once
          half,       \* history: edges deleted or added by hand
          raced,      \* history: stations whose epoch was overwritten in use
          missed,     \* history: edges that went before the engine had their
                      \* baseline
          crash       \* "no", or what the program crashed on

network == <<dtrig_net, edge_bl>>
nrtk == <<pc, todo, vts, time_cur>>
baselines == <<bl_pair, bl_time, bl_sol, bl_at>>
queues == <<addbl, delbl, rtkpos>>
pass == <<epc, rt_bl, rt_time>>
engine == <<baselines, pass, queues, blsol>>
marks == <<torn, again, missed>>
history == <<known, asked, marks, half, raced>>
sync == <<network, vt_time, nrtk, ask, updbl, engine, obs, sent, history, crash>>

Queue == {"addsrc", "delsrc", "addbl", "delbl"}
Phase == {"init", "subnet", "updbl"} \union Queue

-----------------------------------------------------------------------------
(* Batches: what one change of the network or one pass over the baselines  *)
(* puts into a queue comes in the order of HASH_ITER, which is CHOOSE's.   *)

First(q) == CHOOSE x \in q[1] : TRUE
Rest(q) == IF q[1] = {First(q)} THEN Tail(q) ELSE [q EXCEPT ![1] = @ \ {First(q)}]
Put(q, B) == IF B = {} THEN q ELSE Append(q, B)
All(q) == UNION {q[i] : i \in DOMAIN q}

SyncInit ==
  /\ dtrig_net = EmptyNet
  /\ edge_bl = [e \in Edge |-> unset]
  /\ vt_time = [s \in Srcid |-> unset]
  /\ pc = "init" /\ todo = FromFile /\ vts = {} /\ time_cur = unset
  /\ ask = [k \in Queue |-> <<>>]
  /\ updbl = <<>>
  /\ bl_pair = [b \in Baseline |-> <<>>]
  /\ bl_time = [b \in Baseline |-> nothing]
  /\ bl_sol = [b \in Baseline |-> FALSE]
  /\ bl_at = [b \in Baseline |-> "unborn"]
  /\ epc = "watch" /\ rt_bl = 0 /\ rt_time = unset
  /\ addbl = <<>> /\ delbl = <<>> /\ rtkpos = <<>>
  /\ blsol = [e \in Edge |-> nothing]
  /\ obs = [s \in Srcid |-> unset]
  /\ sent = [s \in Srcid |-> unset]
  /\ known = FromFile /\ asked = 0 /\ torn = {} /\ again = {} /\ half = {}
  /\ raced = {} /\ missed = {}
  /\ crash = "no"

\* nrtk_init is done before the other threads start.
Working == crash = "no" /\ pc # "init"
Crash(why) == /\ crash' = why
              /\ UNCHANGED <<network, vt_time, nrtk, ask, updbl, engine, obs, sent, history>>

Least(V) == {x \in V : \A y \in V : x <= y}

\* nrtk_init_dtrignet: the stations of the file come in the order of their ids, ...
InitStation ==
  /\ pc = "init"
  /\ \E s \in Least(todo) : /\ \E r \in AddVertex(dtrig_net, s) : dtrig_net' = r.net
                           /\ todo' = todo \ {s}
  /\ UNCHANGED <<edge_bl, vt_time, pc, vts, time_cur, ask, updbl, engine, obs, sent, history, crash>>

\* ... and the engine is asked for the baselines of all edges.
InitEngine ==
  /\ pc = "init" /\ todo = {}
  /\ pc' = "subnet" /\ todo' = dtrig_net.vertexs
  /\ addbl' = Put(addbl, dtrig_net.edges)
  /\ UNCHANGED <<network, vt_time, vts, time_cur, ask, updbl, baselines, pass, delbl, rtkpos, blsol,
                 obs, sent, history, crash>>

-----------------------------------------------------------------------------
(* Other threads: observations, and requests to change the network.        *)

Work == 2 * asked + Cardinality({x \in Srcid \X Time : unset < x[2] /\ x[2] <= obs[x[1]]})

\* Mutant: chunks may be decoded out of order.
UpdObsAny(s) ==
  /\ Working /\ s \in known
  /\ \E t \in Time \ {unset} : t # obs[s] /\ obs' = [obs EXCEPT ![s] = t]
  /\ UNCHANGED <<network, vt_time, nrtk, ask, updbl, engine, sent, history, crash>>

\* cors_updobs, from the decoder thread: the epochs of a stream increase.
UpdObs(s) ==
  /\ Working /\ s \in known
  /\ \E t \in Time : t > obs[s] /\ Work + (t - obs[s]) <= MaxWork /\ obs' = [obs EXCEPT ![s] = t]
  /\ UNCHANGED <<network, vt_time, nrtk, ask, updbl, engine, sent, history, crash>>

Request(k, data) ==
  /\ Working /\ asked < MaxReq /\ Work + 2 <= MaxWork
  /\ ask' = [ask EXCEPT ![k] = Append(@, data)]
  /\ asked' = asked + 1
  /\ UNCHANGED <<network, vt_time, nrtk, updbl, engine, obs, sent, marks, raced, crash>>

\* cors_add_source, with a new srcid, and cors_del_source.
AskAddSource(s) ==
  /\ s \notin known /\ \A x \in Srcid : x < s => x \in known
  /\ Request("addsrc", s)
  /\ known' = known \union {s}
  /\ UNCHANGED half

AskDelSource(s) ==
  /\ s \in known
  /\ Request("delsrc", s)
  /\ UNCHANGED <<known, half>>

\* cors_basenet_add_baseline and cors_basenet_del_baseline.
AskBaseline(k, e) ==
  /\ {e[1], e[2]} \subseteq known
  /\ Request(k, e)
  /\ half' = half \union {e}
  /\ UNCHANGED known

-----------------------------------------------------------------------------
(* The engine.                                                             *)

Born == {b \in Baseline : bl_at[b] # "unborn"}
Table == {b \in Baseline : bl_at[b] = "table"}
Find(e) == {b \in Table : bl_pair[b] = e}
Flip(e) == <<e[2], e[1]>>

\* rtk_thread goes through the table in the order of insertion, and bl_time_sync
\* reads the rover's epoch, which is nothing new for the baseline or ...
Look ==
  /\ Working /\ epc = "watch"
  /\ LET rest == {b \in Table : b > rt_bl}
     IN  \/ /\ rest = {}
            /\ epc' = "adds" /\ rt_bl' = 0 /\ UNCHANGED rt_time
         \/ \E b \in Least(rest) :
              LET t == obs[bl_pair[b][2]]
              IN  /\ rt_bl' = b
                  /\ IF t \in {unset, Epoch(bl_time[b])}
                     THEN UNCHANGED <<epc, rt_time>>
                     ELSE epc' = "check" /\ rt_time' = t
  /\ UNCHANGED <<network, vt_time, nrtk, ask, updbl, baselines, queues, blsol, obs, sent, history,
                 crash>>

\* ... must be the base's, too, if not at once; an epoch that one of them has
\* left by then is passed over.
Check ==
  /\ Working /\ epc = "check"
  /\ IF obs[bl_pair[rt_bl][1]] = rt_time
     THEN epc' = "rover" /\ UNCHANGED rt_time
     ELSE epc' = "watch" /\ rt_time' = unset
  /\ UNCHANGED <<network, vt_time, nrtk, ask, updbl, baselines, rt_bl, queues, blsol, obs, sent,
                 history, crash>>

\* upd_rbobs copies what the rover has by now, ...
CopyRover ==
  /\ Working /\ epc = "rover"
  /\ epc' = "base" /\ rt_time' = obs[bl_pair[rt_bl][2]]
  /\ UNCHANGED <<network, vt_time, nrtk, ask, updbl, baselines, rt_bl, queues, blsol, obs, sent,
                 history, crash>>

\* ... and then what the base has: the task is for these two, and their later
\* epoch is that of the baseline.
CopyBase ==
  /\ Working /\ epc = "base"
  /\ LET x == <<rt_time, obs[bl_pair[rt_bl][1]]>>
     IN  /\ bl_time' = [bl_time EXCEPT ![rt_bl] = x]
         /\ rtkpos' = Put(rtkpos, {<<rt_bl, x>>})
  /\ epc' = "watch" /\ rt_time' = unset
  /\ UNCHANGED <<network, vt_time, nrtk, ask, updbl, bl_pair, bl_sol, bl_at, rt_bl, addbl, delbl, blsol,
                 obs, sent, history, crash>>

\* ... then it adds the baselines asked for: one that exists is left alone,
\* also if the network asks for a new edge; the other direction's serves, and
\* the network is told which baseline it is ...
AddBaseline ==
  /\ Working /\ epc = "adds" /\ addbl # <<>>
  /\ addbl' = Rest(addbl)
  /\ LET e == First(addbl)
     IN  \/ /\ Find(e) # {}
            /\ UNCHANGED <<bl_pair, bl_at, updbl>>
         \/ /\ Find(e) = {}
            /\ \E b \in Find(Flip(e)) : updbl' = Append(updbl, <<b, e>>)
            /\ UNCHANGED <<bl_pair, bl_at>>
         \/ /\ Find(e) = {} /\ Find(Flip(e)) = {}
            /\ \E b \in Least(Baseline \ Born) :
                 /\ bl_pair' = [bl_pair EXCEPT ![b] = e]
                 /\ bl_at' = [bl_at EXCEPT ![b] = "table"]
                 /\ updbl' = Append(updbl, <<b, e>>)
  /\ UNCHANGED <<network, vt_time, nrtk, ask, bl_time, bl_sol, pass, delbl, rtkpos, blsol,
                 obs, sent, history, crash>>

\* ... and takes those out that it was asked to delete, ...
DelBaseline ==
  /\ Working /\ epc = "dels" /\ delbl # <<>>
  /\ \A b \in Baseline : bl_at[b] # "leaving"
  /\ bl_at[First(delbl)] = "table"
  /\ bl_at' = [bl_at EXCEPT ![First(delbl)] = "leaving"]
  /\ delbl' = Rest(delbl)
  /\ UNCHANGED <<network, vt_time, nrtk, ask, updbl, bl_pair, bl_time, bl_sol, pass, addbl, rtkpos,
                 blsol, obs, sent, history, crash>>

\* ... each to be freed as soon as no task needs it, before the next.
FreeBaseline(b) ==
  /\ Working /\ bl_at[b] = "leaving"
  /\ \A x \in All(rtkpos) : x[1] # b
  /\ bl_at' = [bl_at EXCEPT ![b] = "freed"]
  /\ UNCHANGED <<network, vt_time, nrtk, ask, updbl, bl_pair, bl_time, bl_sol, pass, queues, blsol,
                 obs, sent, history, crash>>

\* One that was asked for twice is freed by then.
FreedTwice ==
  /\ Working /\ epc = "dels" /\ delbl # <<>>
  /\ bl_at[First(delbl)] = "freed"
  /\ Crash("freed twice")

\* The thread goes on when the queue is empty.
EngineGoesOn ==
  /\ Working
  /\ \/ epc = "adds" /\ addbl = <<>> /\ epc' = "dels"
     \/ /\ epc = "dels" /\ delbl = <<>> /\ epc' = "watch"
        /\ \A b \in Baseline : bl_at[b] # "leaving"
  /\ UNCHANGED <<network, vt_time, nrtk, ask, updbl, baselines, rt_bl, rt_time, queues, blsol, obs,
                 sent, history, crash>>

\* do_rtkpos_work and cors_updblsol: the baseline gets the pointer to its
\* solution when that is new in the table, where it stays for ever.
Solve ==
  /\ Working /\ rtkpos # <<>>
  /\ LET b == First(rtkpos)[1]
     IN  /\ blsol' = [blsol EXCEPT ![bl_pair[b]] = First(rtkpos)[2]]
         /\ bl_sol' = [bl_sol EXCEPT ![b] = @ \/ blsol[bl_pair[b]] = nothing]
  /\ rtkpos' = Rest(rtkpos)
  /\ UNCHANGED <<network, vt_time, nrtk, ask, updbl, bl_pair, bl_time, bl_at, pass, addbl, delbl,
                 obs, sent, history, crash>>

-----------------------------------------------------------------------------
(* The nrtk thread, synchronisation.                                       *)

\* The edges of a station that have a solution of the epoch, by rtk->time.
InTime(s, t) == {e \in dtrig_net.edge_list[s] :
                   edge_bl[e] # unset /\ bl_sol[edge_bl[e]] /\ Epoch(blsol[bl_pair[edge_bl[e]]]) = t}

Dangling(E) == \E e \in E : edge_bl[e] # unset /\ bl_at[edge_bl[e]] = "freed"

\* Mutant: the epoch counts as done before it is compared.
VisitMarks ==
  /\ Working /\ pc = "subnet"
  /\ \E s \in Least(todo) :
       /\ IF obs[s] \in {unset, vt_time[s]}
          THEN todo' = todo \ {s} /\ UNCHANGED <<pc, vts, time_cur>>
          ELSE pc' = "sync" /\ vts' = {s} /\ time_cur' = obs[s] /\ UNCHANGED todo
       /\ vt_time' = [vt_time EXCEPT ![s] = obs[s]]
  /\ UNCHANGED <<network, ask, updbl, engine, obs, sent, history, crash>>

\* do_subnet_work comes to a vertex, and subnet_time_sync reads the epoch of
\* the observations ...
Visit ==
  /\ Working /\ pc = "subnet"
  /\ \E s \in Least(todo) :
       IF obs[s] \in {unset, vt_time[s]}
       THEN todo' = todo \ {s} /\ UNCHANGED <<pc, vts, time_cur>>
       ELSE pc' = "sync" /\ vts' = {s} /\ time_cur' = obs[s] /\ UNCHANGED todo
  /\ UNCHANGED <<network, vt_time, ask, updbl, engine, obs, sent, history, crash>>

Leave(s) == pc' = "subnet" /\ vts' = {} /\ todo' = todo \ {s} /\ UNCHANGED time_cur

\* ... and compares the solutions of all its edges with it.
Sync(s) ==
  /\ Working /\ pc = "sync" /\ vts = {s}
  /\ ~Dangling(dtrig_net.edge_list[s])
  /\ IF InTime(s, time_cur) = dtrig_net.edge_list[s]
     THEN pc' = "update" /\ UNCHANGED <<todo, vts, time_cur>>
     ELSE Leave(s)
  /\ UNCHANGED <<network, vt_time, ask, updbl, engine, obs, sent, history, crash>>

\* upd_subnet_stat and upd_vrs follow the pointers to what is there by now;
\* out_subnet_stat looks the rover of every baseline up in the network.
Update(s) ==
  /\ Working /\ pc = "update" /\ vts = {s}
  /\ ~Dangling(dtrig_net.edge_list[s])
  /\ vt_time' = [vt_time EXCEPT ![s] = obs[s]]
  /\ IF obs[s] = time_cur /\ InTime(s, time_cur) = dtrig_net.edge_list[s]
     THEN sent' = [sent EXCEPT ![s] = time_cur] /\ UNCHANGED raced
     ELSE raced' = raced \union {s} /\ UNCHANGED sent
  /\ Leave(s)
  /\ UNCHANGED <<network, ask, updbl, engine, obs, known, asked, marks, half, crash>>

\* The rover has left the network: its position is read through NULL.
RoverLeft(s) ==
  /\ Working /\ pc = "update" /\ vts = {s}
  /\ \E e \in dtrig_net.edge_list[s] : bl_pair[edge_bl[e]][2] \notin dtrig_net.vertexs
  /\ Crash("no rover")

\* The baseline of an edge was freed.
BaselineFreed(s) ==
  /\ Working /\ pc \in {"sync", "update"} /\ vts = {s}
  /\ Dangling(dtrig_net.edge_list[s])
  /\ Crash("freed baseline")

\* The edges that d->edge points to.
Around(d) == {<<d[1], d[2]>>, <<d[2], d[3]>>, <<d[3], d[1]>>}

\* The second loop of do_subnet_work: dtrig_time_sync follows the edges of
\* every triangle and their baselines; its result is logged only.
Triangles ==
  /\ Working /\ pc = "subnet" /\ todo = {}
  /\ LET E == {p[2] : p \in {x \in dtrig_net.trig_edge : x[2] \in Around(x[1])}}
     IN  \/ /\ E \intersect torn = {} /\ ~Dangling(E)
            /\ pc' = "addsrc"
            /\ UNCHANGED <<network, vt_time, todo, vts, time_cur, ask, updbl, engine, obs, sent,
                           history, crash>>
         \/ E \intersect torn # {} /\ Crash("freed edge")
         \/ E \intersect torn = {} /\ Dangling(E) /\ Crash("freed baseline")

-----------------------------------------------------------------------------
(* The nrtk thread, tasks.                                                 *)

\* The baselines that cors_srtk_del_baseline finds: it looks them up at once.
Asked(E) == {b \in Table : bl_pair[b] \in E}

\* Mutant: the baselines of edges that go are kept.
ChangeKeep(n, plus, minus) ==
  /\ dtrig_net' = n
  /\ edge_bl' = [e \in Edge |-> IF e \in dtrig_net.edges \intersect n.edges THEN edge_bl[e] ELSE unset]
  /\ addbl' = Put(addbl, plus) /\ UNCHANGED delbl

\* Mutant: the edges of the network are taken for those that went.
ChangeEdges(n, plus, minus) ==
  /\ dtrig_net' = n
  /\ edge_bl' = [e \in Edge |-> IF e \in dtrig_net.edges \intersect n.edges THEN edge_bl[e] ELSE unset]
  /\ addbl' = Put(addbl, plus) /\ delbl' = Put(delbl, Asked(n.edges))

\* The network becomes n, whose new edges have no baseline; the engine is
\* asked for the baselines of the edges added, and to delete those of the
\* edges that went (nrtk_upd_bls).
Change(n, plus, minus) ==
  /\ dtrig_net' = n
  /\ edge_bl' = [e \in Edge |-> IF e \in dtrig_net.edges \intersect n.edges THEN edge_bl[e] ELSE unset]
  /\ addbl' = Put(addbl, plus) /\ delbl' = Put(delbl, Asked(minus))

\* The edges for whose stations the engine will be or was asked for a baseline,
\* and those that go before the engine has it.
Waits(e) == {e, Flip(e)} \intersect All(addbl) # {}
Of(e) == {b \in Born : bl_pair[b] \in {e, Flip(e)}}
Mark(plus, minus) == /\ again' = again \union {e \in plus : Waits(e) \/ Of(e) # {}}
                     /\ missed' = missed \union {e \in minus : Waits(e)}

\* One task of the queue of the phase.
TakeFrom(k) == /\ Working /\ pc = k /\ ask[k] # <<>>
               /\ ask' = [ask EXCEPT ![k] = Tail(@)]
               /\ UNCHANGED <<vt_time, nrtk, updbl, baselines, pass, rtkpos, blsol, obs, sent,
                              known, asked, half, raced, crash>>

DoAddSource ==
  /\ TakeFrom("addsrc")
  /\ \E r \in AddVertex(dtrig_net, Head(ask["addsrc"])) :
       /\ Change(r.net, r.add, r.del) /\ Mark(r.add, r.del)
       /\ torn' = IF r.net.vertexs = dtrig_net.vertexs THEN torn ELSE {}

\* nrtk_del_source, when edge_add and edge_del happen to be NULL (see Nrtk).
DoDelSource ==
  /\ TakeFrom("delsrc")
  /\ \E r \in DelVertex(dtrig_net, Head(ask["delsrc"])) :
       Change(r.net, r.add, r.del) /\ Mark(r.add, r.del)
  /\ torn' = IF Head(ask["delsrc"]) \in dtrig_net.vertexs THEN {} ELSE torn

\* nrtk_add_bl: the engine is asked also if the edge exists or cannot be made.
DoAddBl ==
  /\ TakeFrom("addbl")
  /\ LET e == Head(ask["addbl"])
     IN  Change(AddEdge(dtrig_net, e[1], e[2]), {e}, {}) /\ Mark({e}, {})
  /\ UNCHANGED torn

\* nrtk_del_bl.
DoDelBl ==
  /\ TakeFrom("delbl")
  /\ LET e == Head(ask["delbl"])
     IN  /\ Change(DelEdge(dtrig_net, e[1], e[2]), {}, {e}) /\ Mark({}, {e})
         /\ torn' = torn \union {e}

\* nrtk_upd_bl: an edge that is there gets its baseline.
DoUpdBl ==
  /\ Working /\ pc = "updbl" /\ updbl # <<>>
  /\ LET d == Head(updbl)
     IN  edge_bl' = IF d[2] \in dtrig_net.edges THEN [edge_bl EXCEPT ![d[2]] = d[1]] ELSE edge_bl
  /\ updbl' = Tail(updbl)
  /\ UNCHANGED <<dtrig_net, vt_time, nrtk, ask, engine, obs, sent, history, crash>>

\* The queues are drained one after the other, then the loop begins again.
After == [addsrc |-> "delsrc", delsrc |-> "addbl", addbl |-> "delbl", delbl |-> "updbl"]

NextPhase ==
  /\ Working
  /\ \/ /\ pc \in Queue /\ ask[pc] = <<>>
        /\ pc' = After[pc] /\ UNCHANGED todo
     \/ /\ pc = "updbl" /\ updbl = <<>>
        /\ pc' = "subnet" /\ todo' = dtrig_net.vertexs
  /\ UNCHANGED <<network, vt_time, vts, time_cur, ask, updbl, engine, obs, sent, history, crash>>

-----------------------------------------------------------------------------
Start == InitStation \/ InitEngine

Outside == \/ \E s \in Srcid : UpdObs(s) \/ AskAddSource(s) \/ AskDelSource(s)
           \/ \E e \in Manual : AskBaseline("addbl", e) \/ AskBaseline("delbl", e)

NrtkThread == \/ Visit \/ Triangles \/ NextPhase
              \/ \E s \in Srcid : Sync(s) \/ Update(s) \/ RoverLeft(s) \/ BaselineFreed(s)
              \/ DoAddSource \/ DoDelSource \/ DoAddBl \/ DoDelBl \/ DoUpdBl

RtkThread == \/ Look \/ Check \/ CopyRover \/ CopyBase
             \/ AddBaseline \/ DelBaseline \/ FreedTwice \/ EngineGoesOn
             \/ \E b \in Baseline : FreeBaseline(b)

SyncNext == Start \/ Outside \/ NrtkThread \/ RtkThread \/ Solve

SyncSpec == SyncInit /\ [][SyncNext]_sync

-----------------------------------------------------------------------------
(* Properties.                                                             *)

Batched(q, X) == q \in Seq((SUBSET X) \ {{}})

SyncTypeOK ==
  /\ dtrig_net \in Net
  /\ edge_bl \in [Edge -> 0 .. MaxBl]
  /\ vt_time \in [Srcid -> Time] /\ sent \in [Srcid -> Time] /\ obs \in [Srcid -> Time]
  /\ pc \in Phase \union {"sync", "update"}
  /\ todo \subseteq Srcid /\ vts \subseteq Srcid /\ time_cur \in Time
  /\ ask["addsrc"] \in Seq(Srcid) /\ ask["delsrc"] \in Seq(Srcid)
  /\ ask["addbl"] \in Seq(Edge) /\ ask["delbl"] \in Seq(Edge)
  /\ DOMAIN ask = Queue
  /\ updbl \in Seq(Baseline \X Edge)
  /\ bl_pair \in [Baseline -> Edge \union {<<>>}]
  /\ bl_time \in [Baseline -> Copies]
  /\ bl_sol \in [Baseline -> BOOLEAN]
  /\ bl_at \in [Baseline -> {"unborn", "table", "leaving", "freed"}]
  /\ \A b \in Born : bl_pair[b] \in Edge
  /\ epc \in {"watch", "check", "rover", "base", "adds", "dels"}
  /\ rt_bl \in 0 .. MaxBl /\ rt_time \in Time
  /\ Batched(addbl, Edge) /\ Batched(delbl, Baseline) /\ Batched(rtkpos, Baseline \X Copies)
  /\ blsol \in [Edge -> Copies]
  /\ known \subseteq Srcid /\ torn \subseteq Edge /\ again \subseteq Edge /\ half \subseteq Edge
  /\ raced \subseteq Srcid /\ missed \subseteq Edge

\* Edges whose baseline was asked for more than once, or by hand.
Odd(e) == {e, Flip(e)} \intersect (again \union half) # {}

\* Nothing is waiting for the nrtk thread or the engine.
Quiet == /\ Working
         /\ \A k \in Queue : ask[k] = <<>>
         /\ updbl = <<>> /\ addbl = <<>> /\ delbl = <<>>

\* When all is done every edge of the network points to the baseline of the
\* engine that serves it, in one direction or the other, unless it was asked for
\* again or by hand (nrtk.c:103, srtk.c:324, :345, dtrignet.c:395).
EdgesServed ==
  Quiet => \A e \in dtrig_net.edges :
             Odd(e) \/ edge_bl[e] \in Find(e) \union Find(Flip(e))

\* And the engine processes no baseline that is no edge, but for those whose
\* deletion came before the engine had them (srtk.c:458, nrtk.c:118).
NoStrayBaseline ==
  Quiet => \A b \in Table : \/ Odd(bl_pair[b])
                           \/ bl_pair[b] \in dtrig_net.edges \union missed

\* What network and engine owe each other when nothing is waiting: a baseline for
\* every edge, and no other.
NetworkServed == SyncTypeOK /\ EdgesServed /\ NoStrayBaseline

\* The nrtk thread and the engine use what was freed, or is not there, only
\* in these circumstances.
CrashExcused ==
  /\ crash = "freed baseline" => \E e \in dtrig_net.edges : Dangling({e}) /\ Odd(e)
  /\ crash = "freed edge" => torn # {}
  /\ crash = "freed twice" => \E b \in All(delbl) : bl_at[b] = "freed" /\ Odd(bl_pair[b])
  /\ crash = "no rover" => ~(Cardinality(dtrig_net.vertexs) >= 3)

\* A station's epoch is handed on once, and never after a later one, however
\* its observations and solutions are overwritten meanwhile (nrtk.c:337, :441).
EpochsForward ==
  [][\A s \in Srcid : vt_time'[s] # vt_time[s] => vt_time'[s] > vt_time[s] /\ sent'[s] >= sent[s]]_sync

\* All stations that the present epoch of s takes have it.
Delivered(s) ==
  /\ s \in dtrig_net.vertexs /\ obs[s] # unset
  /\ \A e \in dtrig_net.edge_list[s] : obs[e[2]] = obs[s]

\* Both stations of a baseline have an epoch that it has not had.
Due(b) == LET t == obs[bl_pair[b][1]]
          IN  t # unset /\ obs[bl_pair[b][2]] = t /\ t # Epoch(bl_time[b])

\* The threads of the engine have nothing to do, and the nrtk thread is between two
\* vertices.
AtRest == Quiet /\ rtkpos = <<>> /\ vts = {} /\ \A b \in Table : ~Due(b)

\* The last task of the baseline got observations of two epochs: they were replaced
\* between comparison and copy.
Mixed(b) == bl_time[b][1] # bl_time[b][2]

\* Such an epoch does not get stuck: when all threads have come to rest the virtual
\* stations have got it, or it is compared at the next visit, with success; unless an
\* edge of the station was asked for again or by hand, or an epoch was overwritten
\* while it was handed on (nrtk.c:347, :354, cors.c:371).  What nrtk.c takes for a
\* solution of the epoch was made of observations of it, unless the engine mixed the
\* observations of two epochs (srtk.c:108-115).
Synchronised ==
  AtRest => \A s \in Srcid : Delivered(s) =>
    /\ \/ sent[s] = obs[s]
       \/ vt_time[s] # obs[s] /\ InTime(s, obs[s]) = dtrig_net.edge_list[s]
       \/ \E e \in dtrig_net.edge_list[s] : Odd(e)
       \/ s \in raced
    /\ \A e \in dtrig_net.edge_list[s] :
         \/ Odd(e) \/ Mixed(edge_bl[e])
         \/ blsol[bl_pair[edge_bl[e]]] = <<obs[s], obs[s]>>

=============================================================================
