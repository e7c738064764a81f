----------------------------- MODULE Dtrignet -----------------------------
(***************************************************************************)
(* src/dtrignet/dtrignet.c: the Delaunay network of the base stations and  *)
(* its incremental update.  A network is a record; the operations return   *)
(* the network after the call and the edges they added and deleted.        *)
(*                                                                         *)
(* A srcid is given to one station only, so it stands for the vertex       *)
(* structure too, and an edge, written "a->b" in the code, is the pair     *)
(* <<a, b>>.  A vertex that was removed is unlinked and not freed: edges   *)
(* and triangles may still point to it.                                    *)
(***************************************************************************)
EXTENDS Naturals, FiniteSets

CONSTANTS Srcid,              \* the srcids a station can have
          Triangulation(_)    \* what triangulate() may return for the
                              \* vertices of the network: it depends on their
                              \* positions, which the streams update

VARIABLE dtrig_net            \* nrtk->dtrig_net

Edge == {e \in Srcid \X Srcid : e[1] # e[2]}
Triangle == Srcid \X Srcid \X Srcid

\* The corners of a triangle are different stations.
Corners(V) == {d \in V \X V \X V : d[1] # d[2] /\ d[2] # d[3] /\ d[3] # d[1]}

\* The ids under which the code looks a triangle up: id1, id2 and id3 of
\* upd_dtrig and del_dtrigs.
Rotations(d) == {d, <<d[2], d[3], d[1]>>, <<d[3], d[1], d[2]>>}

\* Triangulations are over the given vertices and hold a triangle once.
ASSUME TriangulationAssumption ==
  \A V \in SUBSET Srcid : \A T \in Triangulation(V) :
    /\ T \subseteq Corners(V)
    /\ \A d, e \in T : e \in Rotations(d) => e = d

-----------------------------------------------------------------------------
(* cors_dtrig_net_t.                                                       *)

Net == [vertexs   : SUBSET Srcid,
        edges     : SUBSET Edge,
        vt_list   : [Srcid -> SUBSET Srcid],  \* neighbours, of every vertex
        edge_list : [Srcid -> SUBSET Edge],   \* edges that start at a vertex
        dtrigs    : SUBSET Triangle,
        trig_edge : SUBSET (Triangle \X Edge)]
            \* the pointers d->edge and d->edge_f of the triangles

EmptyNet == [vertexs   |-> {},
             edges     |-> {},
             vt_list   |-> [s \in Srcid |-> {}],
             edge_list |-> [s \in Srcid |-> {}],
             dtrigs    |-> {},
             trig_edge |-> {}]

\* A call's result: the network, *edge_add and *edge_del.
Result(net, add, del) == [net |-> net, add |-> add, del |-> del]

\* The six directed edges of a triangle.
EdgesOf(d) == {<<d[1], d[2]>>, <<d[2], d[3]>>, <<d[3], d[1]>>,
               <<d[2], d[1]>>, <<d[3], d[2]>>, <<d[1], d[3]>>}

-----------------------------------------------------------------------------
(* upd_edge for a set of edges that holds both directions of each, and     *)
(* del_edge_prc for a set of edges.                                        *)

Link(net, E) ==
  LET new == E \ net.edges IN
  [net EXCEPT !.edges = @ \union E,
              !.vt_list = [s \in Srcid |-> @[s] \union {t \in Srcid : <<s, t>> \in E}],
              !.edge_list = [s \in Srcid |-> @[s] \union {e \in new : e[1] = s}]]

\* Mutant: only the vertex at which the edge ends forgets it.
UnlinkEnd(net, E) ==
  [net EXCEPT !.edges = @ \ E,
              !.vt_list = [s \in Srcid |->
                             @[s] \ {t \in Srcid : <<s, t>> \in E \/ <<t, s>> \in E}],
              !.edge_list = [s \in Srcid |-> @[s] \ {e \in E : e[2] = s}]]

\* One direction going is enough for the two vertices to be neighbours no
\* longer, whether or not the other direction stays.
Unlink(net, E) ==
  [net EXCEPT !.edges = @ \ E,
              !.vt_list = [s \in Srcid |->
                             @[s] \ {t \in Srcid : <<s, t>> \in E \/ <<t, s>> \in E}],
              !.edge_list = [s \in Srcid |-> @[s] \ E]]

-----------------------------------------------------------------------------
(* cors_dtrignet_build.                                                    *)

\* upd_dtrig for the triangles T of the triangulation, then del_dtrigs.
UpdTriangles(dtrigs, T) ==
  {d \in dtrigs : Rotations(d) \intersect T # {}}
    \union {d \in T : Rotations(d) \intersect dtrigs = {}}

\* Three vertices or more: the edges and triangles become those of the
\* triangulation T.
Rebuild(net, T) ==
  LET cur  == UNION {EdgesOf(d) : d \in T}
      del  == net.edges \ cur
      next == Unlink(Link(net, cur), del)
  IN  Result([next EXCEPT !.dtrigs = UpdTriangles(@, T)], cur \ net.edges, del)

\* Two vertices: they are joined, and nothing is removed.
Join(net) ==
  LET cur == {e \in net.vertexs \X net.vertexs : e[1] # e[2]}
  IN  Result(Link(net, cur), cur \ net.edges, {})

\* The results build may have: none is changed with one vertex or none.
Build(net) ==
  CASE Cardinality(net.vertexs) >= 3 -> {Rebuild(net, T) : T \in Triangulation(net.vertexs)}
    [] Cardinality(net.vertexs) = 2  -> {Join(net)}
    [] OTHER                         -> {Result(net, {}, {})}

\* Mutant: the triangles are not pointed to the edges again.
UpdTriangleEdgesNot(net) == net

\* upd_dtrig_edge: look the edges of every triangle up.
UpdTriangleEdges(net) ==
  [net EXCEPT !.trig_edge = {p \in net.dtrigs \X net.edges : p[2] \in EdgesOf(p[1])}]

Rebuilt(net) == {Result(UpdTriangleEdges(r.net), r.add, r.del) : r \in Build(net)}

-----------------------------------------------------------------------------
(* The operations; AddVertex and DelVertex give the results they may have. *)

\* A station without a position does not come into the network.
AddVertex(net, s) ==
  {Result(net, {}, {})}
    \union IF s \in net.vertexs THEN {} ELSE Rebuilt([net EXCEPT !.vertexs = @ \union {s}])

DelVertex(net, s) ==
  IF s \notin net.vertexs THEN {Result(net, {}, {})}
  ELSE Rebuilt([net EXCEPT !.vertexs = @ \ {s}])

\* cors_dtrignet_add_edge: one direction only.
AddEdge(net, s, t) ==
  IF <<s, t>> \in net.edges \/ ~({s, t} \subseteq net.vertexs) THEN net
  ELSE [net EXCEPT !.edges = @ \union {<<s, t>>},
                   !.vt_list = [x \in Srcid |-> @[x] \union {y \in Srcid : {x, y} = {s, t}}],
                   !.edge_list = [x \in Srcid |-> @[x] \union {e \in {<<s, t>>} : e[1] = x}]]

\* cors_dtrignet_del_edge: the triangles keep their pointers.
DelEdge(net, s, t) ==
  IF <<s, t>> \notin net.edges \/ ~({s, t} \subseteq net.vertexs) THEN net
  ELSE Unlink(net, {<<s, t>>})

=============================================================================
