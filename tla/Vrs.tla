-------------------------------- MODULE Vrs --------------------------------
(***************************************************************************)
(* src/vrs/vrs.c with the parts of nrtk.c that drive it: every virtual     *)
(* station has a triangle of the station network and a master, the nearest *)
(* corner, which has it in its list.  The nrtk thread changes both when    *)
(* the network changes, adds and deletes virtual stations, and leaves an   *)
(* update in a queue for each of them when its master has a new epoch; the *)
(* vrs thread works on the updates, with pointers into what the nrtk       *)
(* thread changes.                                                         *)
(*                                                                         *)
(* Start-up (init_vrs) runs in the main thread beside the nrtk thread and  *)
(* is one step here.  The positions of virtual stations are not zero.      *)
(***************************************************************************)
EXTENDS Dtrignet, Sequences, SequencesExt

CONSTANTS Vsta,       \* virtual stations, each a structure of its own
          None,       \* the NULL of vsta->trig and vsta->msta
          MaxVertex,  \* bound: stations in the network at a time
          Manual,     \* bound: the edges that are added or deleted by hand
          MaxQueue    \* bound: updates in the queue when an epoch comes

\* What the theorems assume.
VrsNames == None \notin Srcid \union Triangle /\ IsFiniteSet(Vsta)

VARIABLES thread,      \* the vrs thread: "off" before init_vrs, "init" before
                       \* its handles are made, "up", "closed"
          stas,        \* the virtual stations of vrs->stas
          freed,       \* those that were deleted
          trig, msta,  \* vsta->trig and vsta->msta
          vsta_list,   \* the list of every vertex
          upd_queue,   \* updates, see Task
          work,        \* the update the vrs thread is at, in a sequence
          used,        \* history: the srcids given out so far
          cut, added,  \* history: edges deleted and added by hand since the last
                       \* build
          moved,       \* history: virtual stations that had another master before
          prog         \* "crashed" once freed or missing memory was used

net == <<dtrig_net, used, cut, added>>
vstas == <<stas, freed>>
place == <<trig, msta, vsta_list, moved>>
queue == <<upd_queue, work>>
vars == <<thread, net, vstas, place, queue, prog>>

\* An update interpolates along both edges of the triangle at the master, or along
\* none of which anything is known.
Task == [vsta : Vsta, msta : Srcid, along : {"both", "nothing"}]

Init == /\ thread = "off"
        /\ dtrig_net = EmptyNet /\ used = {} /\ cut = {} /\ added = {}
        /\ stas = {} /\ freed = {}
        /\ trig = [v \in Vsta |-> None] /\ msta = [v \in Vsta |-> None]
        /\ vsta_list = [s \in Srcid |-> {}] /\ moved = {}
        /\ upd_queue = <<>> /\ work = <<>>
        /\ prog = "runs"

Crash == prog' = "crashed"

-----------------------------------------------------------------------------
(* Triangle and master.                                                    *)

Corner(d) == {d[1], d[2], d[3]}

\* find_bsta_trig: the triangle the position lies in or, outside of all, the one
\* that is last in the table; NULL if there is none.
Trigs(n) == IF n.dtrigs = {} THEN {None} ELSE n.dtrigs

\* find_bsta_trig and find_master_bsta of the stations V: the new master gets them
\* in its list, and the old one keeps them.
Place(V, n) ==
  \E d \in [V -> Trigs(n)] : \E m \in [V -> Srcid \union {None}] :
    /\ \A v \in V : m[v] \in IF d[v] = None THEN {None} ELSE Corner(d[v])
    /\ trig' = [v \in Vsta |-> IF v \in V THEN d[v] ELSE trig[v]]
    /\ msta' = [v \in Vsta |-> IF v \in V THEN m[v] ELSE msta[v]]
    /\ vsta_list' = [s \in Srcid |-> vsta_list[s] \union {v \in V : m[v] = s}]
    /\ moved' = moved \union {v \in V : msta[v] \notin {None, m[v]}}

-----------------------------------------------------------------------------
(* Start and close.                                                        *)

\* init_vrs, with the stations V of the file; vrs_blsol_vsta goes through the
\* triangle of each.
InitVrs(V) ==
  /\ thread = "off" /\ thread' = "init"
  /\ stas' = V
  /\ Place(V, dtrig_net)
  /\ prog' = IF \E v \in V : trig'[v] = None THEN "crashed" ELSE prog
  /\ UNCHANGED <<net, freed, queue>>

\* vrs_thread.
Boot ==
  /\ thread = "init" /\ thread' = "up"
  /\ UNCHANGED <<net, vstas, place, queue, prog>>

\* cors_vrs_close, after the nrtk thread was joined.
Close ==
  /\ thread \in {"init", "up"}
  /\ \/ thread = "up" /\ thread' = "closed" /\ work = <<>>
        /\ freed' = freed \union stas /\ stas' = {} /\ UNCHANGED prog
     \/ thread = "init" /\ Crash /\ UNCHANGED <<thread, vstas>>
  /\ UNCHANGED <<net, place, queue>>

-----------------------------------------------------------------------------
(* The nrtk thread.                                                        *)

\* generate_source_id counts up: no id is given again.
Fresh(s) == /\ s \notin used
            /\ \A x \in Srcid : x < s => x \in used
            /\ Cardinality(dtrig_net.vertexs) < MaxVertex

\* A build makes new edges of all, and the triangles point to them.
Mended(n) == IF n.vertexs = dtrig_net.vertexs THEN UNCHANGED <<cut, added>>
             ELSE cut' = {} /\ added' = {}

\* nrtk_add_source, and the stations of the sources file.
AddSource(s) ==
  /\ thread # "closed" /\ Fresh(s)
  /\ used' = used \union {s}
  /\ \E r \in AddVertex(dtrig_net, s) : dtrig_net' = r.net /\ Mended(r.net) /\ Place(stas, r.net)
  /\ UNCHANGED <<thread, vstas, queue, prog>>

\* nrtk_del_source (for its uninitialised edge lists see Nrtk).
DelSource(s) ==
  /\ thread \notin {"off", "closed"} /\ s \in dtrig_net.vertexs
  /\ \E r \in DelVertex(dtrig_net, s) : dtrig_net' = r.net /\ Mended(r.net) /\ Place(stas, r.net)
  /\ UNCHANGED <<thread, used, vstas, queue, prog>>

\* nrtk_add_bl and nrtk_del_bl change an edge, and nothing else: the triangles keep
\* their pointers, also to an edge that was freed.
ByHand(n) ==
  /\ thread \notin {"off", "closed"}
  /\ dtrig_net' = n
  /\ cut' = cut \union (dtrig_net.edges \ n.edges)
  /\ added' = added \union (n.edges \ dtrig_net.edges)
  /\ UNCHANGED <<thread, used, vstas, place, queue, prog>>

AddBl(e) == e[1] \in used /\ e[2] \in used /\ ByHand(AddEdge(dtrig_net, e[1], e[2]))
DelBl(e) == e[1] \in used /\ e[2] \in used /\ ByHand(DelEdge(dtrig_net, e[1], e[2]))

\* vrs_add_vsta, before init_vrs without a vrs->nrtk to go through; vrs_blsol_vsta.
AddVsta(v) ==
  /\ thread # "closed" /\ v \notin stas \union freed
  /\ \/ /\ thread # "off"
        /\ stas' = stas \union {v}
        /\ Place({v}, dtrig_net)
        /\ prog' = IF trig'[v] = None THEN "crashed" ELSE prog
     \/ thread = "off" /\ Crash /\ UNCHANGED <<stas, place>>
  /\ UNCHANGED <<thread, net, freed, queue>>

\* vrs_del_vsta goes through the triangle, and its master forgets the station.
DelVsta(v) ==
  /\ thread # "closed" /\ v \in stas
  /\ \/ /\ trig[v] # None
        /\ stas' = stas \ {v} /\ freed' = freed \union {v}
        /\ vsta_list' = [vsta_list EXCEPT ![msta[v]] = @ \ {v}]
        /\ UNCHANGED prog
     \/ trig[v] = None /\ Crash /\ UNCHANGED <<vstas, vsta_list>>
  /\ UNCHANGED <<thread, net, trig, msta, moved, queue>>

\* The edges of the triangle that start at its corner m.
EdgesAt(d, m) == {e \in EdgesOf(d) : e[1] = m}

\* They are both found in the list of m, by their pointers (vrs.c:372-381), or, where
\* the edge of a pointer was freed, another is that has its address by now.
BothEdges(d, m) ==
  \A e \in EdgesAt(d, m) :
    <<d, e>> \in dtrig_net.trig_edge /\ e \in dtrig_net.edge_list[m] /\ e \notin cut
OtherEdge(d, m) == EdgesAt(d, m) \intersect cut # {} /\ dtrig_net.edge_list[m] \intersect added # {}

\* do_subnet_work of a station m that is synchronised: cors_vrs_upd for its list.
\* Where an edge is not found the two baselines nearest in direction are looked
\* for, and taken if they are NULL (vrs.c:384-385).
Epoch(m) ==
  /\ thread # "closed" /\ m \in dtrig_net.vertexs
  /\ vsta_list[m] # {} /\ Len(upd_queue) < MaxQueue
  /\ LET V    == vsta_list[m]
         bad  == {v \in V : v \in freed \/ trig[v] = None}
         at   == {v \in V \ bad : m \in Corner(trig[v])}
         both == {v \in at : BothEdges(trig[v], m)}
     IN  IF bad # {} THEN Crash /\ UNCHANGED upd_queue
         ELSE \E none \in SUBSET (at \ both) :
              \E two \in SUBSET {v \in none : OtherEdge(trig[v], m)} :
              \E s \in SetToSeqs(both \union none) :
                /\ upd_queue' = upd_queue \o [i \in DOMAIN s |->
                     [vsta |-> s[i], msta |-> m,
                      along |-> IF s[i] \in both \union two THEN "both" ELSE "nothing"]]
                /\ prog' = IF s # <<>> /\ thread # "up" THEN "crashed" ELSE prog
  /\ UNCHANGED <<thread, net, vstas, place, work>>

-----------------------------------------------------------------------------
(* The vrs thread: upd_vrs_process.                                        *)

Take ==
  /\ thread = "up" /\ work = <<>> /\ upd_queue # <<>>
  /\ work' = <<Head(upd_queue)>> /\ upd_queue' = Tail(upd_queue)
  /\ UNCHANGED <<thread, net, vstas, place, prog>>

\* do_upd_vrs_work.
Work ==
  /\ work # <<>>
  /\ IF work[1].vsta \in freed THEN Crash /\ UNCHANGED work
     ELSE work' = <<>> /\ UNCHANGED prog
  /\ UNCHANGED <<thread, net, vstas, place, upd_queue>>

-----------------------------------------------------------------------------

Next == /\ prog = "runs"
        /\ \/ \E V \in SUBSET Vsta : InitVrs(V)
           \/ Boot \/ Close \/ Take \/ Work
           \/ \E s \in Srcid : AddSource(s) \/ DelSource(s) \/ Epoch(s)
           \/ \E e \in Manual : AddBl(e) \/ DelBl(e)
           \/ \E v \in Vsta : AddVsta(v) \/ DelVsta(v)

Spec == Init /\ [][Next]_vars

-----------------------------------------------------------------------------

TypeOK ==
  /\ thread \in {"off", "init", "up", "closed"}
  /\ dtrig_net \in Net /\ used \subseteq Srcid /\ cut \subseteq Edge /\ added \subseteq Edge
  /\ stas \subseteq Vsta /\ freed \subseteq Vsta /\ stas \intersect freed = {}
  /\ trig \in [Vsta -> Triangle \union {None}] /\ msta \in [Vsta -> Srcid \union {None}]
  /\ vsta_list \in [Srcid -> SUBSET Vsta] /\ moved \subseteq Vsta
  /\ upd_queue \in Seq(Task) /\ work \in {<<>>} \union {<<t>> : t \in Task}
  /\ prog \in {"runs", "crashed"}

\* A virtual station is in the list of its master (vrs.c:145-152), else no epoch of
\* the master would ever reach it, and its master is a corner of its triangle,
\* else every update of it would be dropped (vrs.c:366-369).
MasterKnows ==
  prog = "runs" => \A v \in stas :
    IF trig[v] = None THEN msta[v] = None
    ELSE msta[v] \in Corner(trig[v]) /\ v \in vsta_list[msta[v]]

\* With three stations or more in the network, every virtual station has a triangle
\* that is one of the network now, over stations of the network, if it has any
\* (nrtk.c:159, :171): whatever was left over from when there were fewer.
TriangleIsCurrent ==
  prog = "runs" /\ Cardinality(dtrig_net.vertexs) >= 3 => \A v \in stas :
    IF dtrig_net.dtrigs = {} THEN trig[v] = None
    ELSE trig[v] \in dtrig_net.dtrigs /\ Corner(trig[v]) \subseteq dtrig_net.vertexs

\* With three stations or more the master of a virtual station has both edges of
\* the triangle, so that an epoch of its own leads to an update along both
\* (vrs.c:371-382, on the edge pointers that dtrignet.c keeps), unless one of the two
\* was deleted by hand since the last build (dtrignet.c:373-386).
Interpolates ==
  prog = "runs" /\ Cardinality(dtrig_net.vertexs) >= 3 =>
    \A v \in stas : trig[v] # None =>
      BothEdges(trig[v], msta[v]) \/ EdgesAt(trig[v], msta[v]) \intersect cut # {}

\* A virtual station whose master was always the same is updated by its epochs
\* only, and forgotten when it is deleted; one that was moved stays in the list of
\* the master before (vrs.c:147).
Forgotten ==
  thread # "closed" => \A m \in Srcid : \A v \in vsta_list[m] \ moved : v \in stas /\ msta[v] = m

\* What ends the program: a station placed without a triangle (vrs.c:507, :640,
\* :368), a request before init_vrs, an update or a close before the thread has
\* made its handles, and a deleted station that was moved before, or has an update
\* that waits (vrs.c:394, :476).
CrashExcused ==
  prog = "crashed" =>
    \/ thread \in {"off", "init"}
    \/ \E v \in stas : trig[v] = None
    \/ \E m \in Srcid : vsta_list[m] \intersect freed \intersect moved # {}
    \/ work # <<>> /\ work[1].vsta \in freed
=============================================================================
