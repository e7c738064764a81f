------------------------------- MODULE Nrtk -------------------------------
(***************************************************************************)
(* src/nrtk/nrtk.c: the nrtk thread keeps the Delaunay network and tells   *)
(* the RTK engines which baselines to process.  Only that thread changes   *)
(* the network, one task at a time; tasks of different kinds wait in       *)
(* queues of their own and can be taken in any order, as here.             *)
(***************************************************************************)
EXTENDS Dtrignet

CONSTANTS MaxVertex,   \* bound: stations in the network at a time
          MaxManual    \* bound: baselines added or removed by hand

ASSUME NrtkAssumption == Srcid \subseteq Nat /\ MaxVertex \in Nat /\ MaxManual \in Nat

VARIABLES started,   \* nrtk_init has set nrtk->state
          alive,     \* FALSE once the program has crashed
          kdtree,    \* dtrig_net->vts_kdtree has been made
          bls,       \* the baselines asked of the engines and not taken back
          used,      \* history: the srcids given out so far
          manual,    \* history: baselines added or removed by hand so far
          orphan,    \* history: baselines asked for when a station was unknown
          cut        \* history: edges deleted by hand since the last build

vars == <<started, alive, kdtree, dtrig_net, bls, used, manual, orphan, cut>>

Init == /\ started = FALSE
        /\ alive = TRUE
        /\ kdtree = FALSE
        /\ dtrig_net = EmptyNet
        /\ bls = {}
        /\ used = {}
        /\ manual = 0
        /\ orphan = {}
        /\ cut = {}

\* generate_source_id counts up: no id is given again.
Fresh(s) == /\ s \notin used
            /\ \A x \in Srcid : x < s => x \in used
            /\ Cardinality(dtrig_net.vertexs) < MaxVertex
            /\ used' = used \union {s}

\* nrtk_init_dtrignet, first loop: a station of the sources file.  With an
\* empty file it returns before cors_dtrignet_init.
InitVertex(s) ==
  /\ ~started
  /\ Fresh(s)
  /\ kdtree' = TRUE
  /\ \E r \in AddVertex(dtrig_net, s) : dtrig_net' = r.net
  /\ UNCHANGED <<started, alive, bls, manual, orphan, cut>>

\* nrtk_init_dtrignet, second loop: the engines get the edges.  They answer
\* through updbl_queue, which nrtk_init sets up only then: one that is faster
\* crashes.
InitDone ==
  /\ ~started
  /\ started' = TRUE
  /\ bls' = dtrig_net.edges
  /\ alive' \in IF dtrig_net.edges = {} THEN {TRUE} ELSE BOOLEAN
  /\ UNCHANGED <<kdtree, dtrig_net, used, manual, orphan, cut>>

\* Mutant: the second loop of nrtk_upd_bls is missing.
UpdBlsAddOnly(r) == bls' = bls \union r.add

\* nrtk_upd_bls.
UpdBls(r) == bls' = (bls \union r.add) \ r.del

Running == started /\ alive

\* nrtk_add_source; kd_insert crashes on a network that was not initialised.
AddSource(s) ==
  /\ Running
  /\ Fresh(s)
  /\ \E r \in AddVertex(dtrig_net, s) :
       \/ /\ kdtree \/ s \notin r.net.vertexs
          /\ dtrig_net' = r.net /\ UpdBls(r)
          /\ cut' = IF s \in r.net.vertexs THEN {} ELSE cut
          /\ UNCHANGED alive
       \/ /\ ~kdtree /\ s \in r.net.vertexs
          /\ alive' = FALSE
          /\ UNCHANGED <<dtrig_net, bls, cut>>
  /\ UNCHANGED <<started, kdtree, manual, orphan>>

\* nrtk_del_source.  Its edge_add and edge_del are uninitialised and
\* cors_dtrignet_del_vertex does not set them: what the stack holds is either
\* NULL, as the previous task left it, or a pointer that crashes nrtk_upd_bls.
DelSource(s) ==
  /\ Running
  /\ \/ /\ \E r \in DelVertex(dtrig_net, s) : dtrig_net' = r.net /\ UpdBls(r)
        /\ cut' = IF s \in dtrig_net.vertexs THEN {} ELSE cut
        /\ UNCHANGED alive
     \/ /\ alive' = FALSE
        /\ UNCHANGED <<dtrig_net, bls, cut>>
  /\ UNCHANGED <<started, kdtree, used, manual, orphan>>

\* nrtk_add_bl: the engine is told even if the network has no such station.
AddBl(s, t) ==
  /\ Running
  /\ manual < MaxManual
  /\ manual' = manual + 1
  /\ dtrig_net' = AddEdge(dtrig_net, s, t)
  /\ bls' = bls \union {<<s, t>>}
  /\ orphan' = IF <<s, t>> \in dtrig_net'.edges THEN orphan ELSE orphan \union {<<s, t>>}
  /\ UNCHANGED <<started, alive, kdtree, used, cut>>

\* nrtk_del_bl.
DelBl(s, t) ==
  /\ Running
  /\ manual < MaxManual
  /\ manual' = manual + 1
  /\ dtrig_net' = DelEdge(dtrig_net, s, t)
  /\ bls' = bls \ {<<s, t>>}
  /\ cut' = cut \union {<<s, t>>}
  /\ UNCHANGED <<started, alive, kdtree, used, orphan>>

Next == \/ \E s \in Srcid : InitVertex(s) \/ AddSource(s)
        \/ \E s \in used : DelSource(s)
        \/ \E s, t \in used : s # t /\ (AddBl(s, t) \/ DelBl(s, t))
        \/ InitDone

Spec == Init /\ [][Next]_vars

-----------------------------------------------------------------------------
(* Properties.                                                             *)

TypeOK == /\ started \in BOOLEAN
          /\ alive \in BOOLEAN
          /\ kdtree \in BOOLEAN
          /\ dtrig_net \in Net
          /\ bls \subseteq Edge
          /\ used \subseteq Srcid
          /\ manual \in 0 .. MaxManual
          /\ orphan \subseteq Edge
          /\ cut \subseteq Edge

\* subnet_time_sync counts the edges of a station by its edge_list
\* (nrtk.c:342-353): the list holds the edges that start there, and no edge
\* that was freed, however edges came and went.
EdgeListExact ==
  \A s \in Srcid : dtrig_net.edge_list[s] = {e \in dtrig_net.edges : e[1] = s}

\* Being neighbours is mutual, and backed by an edge in one direction at least
\* (dtrignet.c:111-112, :161-162); with del_edge_prc clearing both lists when
\* only one direction goes the converse does not hold.
NeighboursBacked ==
  \A s, t \in Srcid : t \in dtrig_net.vt_list[s] =>
    /\ s \in dtrig_net.vt_list[t]
    /\ {<<s, t>>, <<t, s>>} \intersect dtrig_net.edges # {}

\* With three stations or more no edge and no triangle is left of a station
\* that went (dtrignet.c:184-210): with fewer, build returns before it removes
\* anything, and the next build has to make up for it.
NoDeadStation ==
  Cardinality(dtrig_net.vertexs) >= 3 =>
    /\ dtrig_net.edges \subseteq dtrig_net.vertexs \X dtrig_net.vertexs
    /\ \A d \in dtrig_net.dtrigs : {d[1], d[2], d[3]} \subseteq dtrig_net.vertexs

\* A triangle is there once, in one of its three rotations (dtrignet.c:121-139).
NoRotatedTwin ==
  \A d, e \in dtrig_net.dtrigs : e \in Rotations(d) => e = d

\* dtrig_time_sync follows the edge pointers of a triangle (nrtk.c:394): with
\* three stations or more all are set, and lead to edges that exist unless one
\* was deleted by hand since the last build.
TrianglePointers ==
  Cardinality(dtrig_net.vertexs) >= 3 =>
    \A d \in dtrig_net.dtrigs : \A e \in EdgesOf(d) :
      <<d, e>> \in dtrig_net.trig_edge /\ e \in dtrig_net.edges \union cut

\* The engines process the edges between the stations of the network, added
\* and deleted by its differences (nrtk.c:108-122), and beside edges only
\* baselines that were asked for when the network did not know a station.
BaselinesFollowEdges ==
  started => /\ dtrig_net.edges \intersect (dtrig_net.vertexs \X dtrig_net.vertexs) \subseteq bls
             /\ bls \subseteq dtrig_net.edges \union orphan

-----------------------------------------------------------------------------
\* The network has only stations that were given a srcid, so that a new one
\* finds nothing of its own in it.
StationsKnown == /\ dtrig_net.vertexs \subseteq used
                 /\ dtrig_net.edges \subseteq used \X used

\* The inductive invariant.
IInv == /\ TypeOK
        /\ StationsKnown
        /\ EdgeListExact
        /\ NeighboursBacked
        /\ NoDeadStation
        /\ NoRotatedTwin
        /\ TrianglePointers
        /\ BaselinesFollowEdges

=============================================================================
