----------------------------- MODULE NrtkProofs -----------------------------
(***************************************************************************)
(* Proofs about the network of the base stations and those who use it, for *)
(* any set of srcids, any number of stations and any triangulations: the   *)
(* operations of Dtrignet keep the redundant structures of a network       *)
(* consistent, and a build makes them agree with the triangulation; every  *)
(* property of the network that Nrtk keeps is part of one inductive        *)
(* invariant, IInv; the virtual stations of Vrs find what they need in the *)
(* network; and the network and the engine of NrtkSync owe each other      *)
(* nothing when all is done.                                               *)
(***************************************************************************)
EXTENDS Nrtk, NrtkSync, Sequences, FiniteSetTheorems, TLAPS

Symmetric(E) == \A e \in E : <<e[2], e[1]>> \in E

\* The lists of a network agree with its edges.
Consistent(net) ==
  /\ net \in Net
  /\ \A s \in Srcid : net.edge_list[s] = {e \in net.edges : e[1] = s}
  /\ \A s, t \in Srcid : t \in net.vt_list[s] =>
       /\ s \in net.vt_list[t]
       /\ <<s, t>> \in net.edges \/ <<t, s>> \in net.edges

\* The parts of a network that linking and unlinking leave alone.
SameRest(net, old) == /\ net.vertexs = old.vertexs
                      /\ net.dtrigs = old.dtrigs
                      /\ net.trig_edge = old.trig_edge

\* upd_edge keeps the lists consistent (dtrignet.c:106-113).
LEMMA LinkConsistent ==
  ASSUME NEW net, Consistent(net),
         NEW E \in SUBSET Edge, Symmetric(E)
  PROVE  /\ Consistent(Link(net, E))
         /\ Link(net, E).edges = net.edges \union E
         /\ SameRest(Link(net, E), net)
<1> DEFINE new == E \ net.edges
           vt == [s \in Srcid |-> net.vt_list[s] \union {t \in Srcid : <<s, t>> \in E}]
           el == [s \in Srcid |-> net.edge_list[s] \union {e \in new : e[1] = s}]
           res == Link(net, E)
<1>1. net \in Net
  BY DEF Consistent
<1>2. res = [net EXCEPT !.edges = net.edges \union E, !.vt_list = vt, !.edge_list = el]
  BY <1>1 DEF Link, Net
<1>3. /\ res.edges = net.edges \union E /\ res.vt_list = vt /\ res.edge_list = el
      /\ SameRest(res, net)
  BY <1>1, <1>2 DEF Net, SameRest
<1>4. res \in Net
  <2>1. vt \in [Srcid -> SUBSET Srcid] /\ el \in [Srcid -> SUBSET Edge]
    BY <1>1 DEF Net
  <2> QED BY <1>1, <1>2, <2>1 DEF Net
<1>5. \A s \in Srcid : el[s] = {e \in net.edges \union E : e[1] = s}
  BY DEF Consistent
<1>6. ASSUME NEW s \in Srcid, NEW t \in Srcid, t \in vt[s]
      PROVE  /\ s \in vt[t]
             /\ <<s, t>> \in net.edges \union E \/ <<t, s>> \in net.edges \union E
  <2>1. CASE t \in net.vt_list[s]
    BY <2>1 DEF Consistent
  <2>2. CASE <<s, t>> \in E
    <3>1. <<t, s>> \in E
      BY <2>2 DEF Symmetric
    <3> QED BY <2>2, <3>1
  <2> QED BY <1>6, <2>1, <2>2
<1> QED BY <1>3, <1>4, <1>5, <1>6 DEF Consistent

\* del_edge_prc keeps the lists consistent, also when only one direction of an
\* edge goes (dtrignet.c:158-168).
LEMMA UnlinkConsistent ==
  ASSUME NEW net, Consistent(net),
         NEW E \in SUBSET Edge
  PROVE  /\ Consistent(Unlink(net, E))
         /\ Unlink(net, E).edges = net.edges \ E
         /\ SameRest(Unlink(net, E), net)
<1> DEFINE vt == [s \in Srcid |->
                    net.vt_list[s] \ {t \in Srcid : <<s, t>> \in E \/ <<t, s>> \in E}]
           el == [s \in Srcid |-> net.edge_list[s] \ E]
           res == Unlink(net, E)
<1>1. net \in Net
  BY DEF Consistent
<1>2. res = [net EXCEPT !.edges = net.edges \ E, !.vt_list = vt, !.edge_list = el]
  BY <1>1 DEF Unlink, Net
<1>3. /\ res.edges = net.edges \ E /\ res.vt_list = vt /\ res.edge_list = el
      /\ SameRest(res, net)
  BY <1>1, <1>2 DEF Net, SameRest
<1>4. res \in Net
  <2>1. vt \in [Srcid -> SUBSET Srcid] /\ el \in [Srcid -> SUBSET Edge]
    BY <1>1 DEF Net
  <2> QED BY <1>1, <1>2, <2>1 DEF Net
<1>5. \A s \in Srcid : el[s] = {e \in net.edges \ E : e[1] = s}
  BY DEF Consistent
<1>6. ASSUME NEW s \in Srcid, NEW t \in Srcid, t \in vt[s]
      PROVE  /\ s \in vt[t]
             /\ <<s, t>> \in net.edges \ E \/ <<t, s>> \in net.edges \ E
  BY <1>6 DEF Consistent
<1> QED BY <1>3, <1>4, <1>5, <1>6 DEF Consistent

-----------------------------------------------------------------------------
(* Building, for the triangulation or the pair of stations it starts from. *)

\* What a build makes of a network with three stations or more.
Triangulated(net, old) ==
  \E T \in Triangulation(old.vertexs) :
    /\ net.edges = UNION {EdgesOf(d) : d \in T}
    /\ net.dtrigs = UpdTriangles(old.dtrigs, T)

\* A change of the edges that leaves the two directions of an edge together.
Together(new, old) ==
  \A s, t \in Srcid : (<<s, t>> \in old <=> <<t, s>> \in old)
                       => (<<s, t>> \in new <=> <<t, s>> \in new)

\* The corners of the triangles are stations, so their edges join stations.
LEMMA TriangleEdges ==
  ASSUME NEW V \in SUBSET Srcid, NEW T \in Triangulation(V)
  PROVE  /\ UNION {EdgesOf(d) : d \in T} \subseteq Edge
         /\ UNION {EdgesOf(d) : d \in T} \subseteq V \X V
         /\ Symmetric(UNION {EdgesOf(d) : d \in T})
         /\ T \subseteq V \X V \X V
<1>1. T \subseteq Corners(V)
  BY TriangulationAssumption
<1>2. ASSUME NEW d \in T
      PROVE  /\ EdgesOf(d) \subseteq Edge
             /\ EdgesOf(d) \subseteq V \X V
             /\ Symmetric(EdgesOf(d))
             /\ d \in V \X V \X V
  BY <1>1 DEF Corners, EdgesOf, Edge, Symmetric
<1>3. Symmetric(UNION {EdgesOf(d) : d \in T})
  BY <1>2 DEF Symmetric
<1> QED BY <1>2, <1>3

\* cors_dtrignet_build: the lists stay consistent, the differences reported are
\* those of the edges, and with three stations the network is the triangulation.
LEMMA BuildConsistent ==
  ASSUME NEW net, Consistent(net),
         NEW r \in Build(net)
  PROVE  /\ Consistent(r.net)
         /\ r.net.vertexs = net.vertexs
         /\ r.add = r.net.edges \ net.edges
         /\ r.del = net.edges \ r.net.edges
         /\ r.net.edges \subseteq net.edges \union (net.vertexs \X net.vertexs)
         /\ r.net.dtrigs \subseteq Triangle
         /\ Cardinality(net.vertexs) >= 3 => Triangulated(r.net, net)
         /\ ~(Cardinality(net.vertexs) >= 3) => r.net.dtrigs = net.dtrigs
         /\ Together(r.net.edges, net.edges)
<1>1. net \in Net /\ net.vertexs \subseteq Srcid /\ net.edges \subseteq Edge
  BY DEF Consistent, Net
<1>2. CASE Cardinality(net.vertexs) >= 3
  <2>1. PICK T \in Triangulation(net.vertexs) : r = Rebuild(net, T)
    BY <1>2 DEF Build
  <2> DEFINE cur == UNION {EdgesOf(d) : d \in T}
             lnk == Link(net, cur)
             del == net.edges \ cur
             nxt == Unlink(lnk, del)
  <2>2. /\ cur \subseteq Edge /\ Symmetric(cur) /\ cur \subseteq net.vertexs \X net.vertexs
        /\ T \subseteq net.vertexs \X net.vertexs \X net.vertexs
    BY <1>1, TriangleEdges
  <2>3. Consistent(lnk) /\ lnk.edges = net.edges \union cur /\ SameRest(lnk, net)
    BY <2>2, LinkConsistent
  <2>4. Consistent(nxt) /\ nxt.edges = lnk.edges \ del /\ SameRest(nxt, lnk)
    BY <1>1, <2>3, UnlinkConsistent
  <2>5. UpdTriangles(net.dtrigs, T) \subseteq Triangle
    BY <1>1, <2>2 DEF UpdTriangles, Net, Triangle
  <2>6. /\ r.net = [nxt EXCEPT !.dtrigs = UpdTriangles(net.dtrigs, T)]
        /\ r.add = cur \ net.edges
        /\ r.del = del
    <3> nxt \in Net /\ nxt.dtrigs = net.dtrigs
      BY <2>3, <2>4 DEF Consistent, SameRest
    <3> HIDE DEF nxt
    <3>1. r = Result([nxt EXCEPT !.dtrigs = UpdTriangles(@, T)], cur \ net.edges, del)
      BY <2>1 DEF Rebuild, nxt
    <3> QED BY <3>1 DEF Result, Net
  <2> HIDE DEF nxt, lnk, cur
  <2>7. /\ r.net \in Net
        /\ r.net.vertexs = nxt.vertexs /\ r.net.edges = nxt.edges
        /\ r.net.vt_list = nxt.vt_list /\ r.net.edge_list = nxt.edge_list
        /\ r.net.dtrigs = UpdTriangles(net.dtrigs, T)
    BY <2>4, <2>5, <2>6 DEF Consistent, Net
  <2>8. Consistent(r.net)
    BY <2>4, <2>7 DEF Consistent
  <2>9. r.net.edges = cur
    BY <2>3, <2>4, <2>7
  <2>10. Triangulated(r.net, net)
    BY <2>7, <2>9 DEF Triangulated, cur
  <2>11. Together(r.net.edges, net.edges)
    BY <2>2, <2>9 DEF Symmetric, Together
  <2> QED
    BY <1>2, <2>2, <2>3, <2>4, <2>5, <2>6, <2>7, <2>8, <2>9, <2>10, <2>11 DEF SameRest
<1>3. CASE Cardinality(net.vertexs) = 2
  <2> DEFINE cur == {e \in net.vertexs \X net.vertexs : e[1] # e[2]}
  <2>1. r = Result(Link(net, cur), cur \ net.edges, {})
    BY <1>3 DEF Build, Join
  <2>2. cur \subseteq Edge /\ Symmetric(cur)
    BY <1>1 DEF Edge, Symmetric
  <2>3. Consistent(Link(net, cur)) /\ Link(net, cur).edges = net.edges \union cur
        /\ SameRest(Link(net, cur), net)
    BY <2>2, LinkConsistent
  <2>4. r.net = Link(net, cur) /\ r.add = cur \ net.edges /\ r.del = {}
    BY <2>1 DEF Result
  <2>5. /\ r.net.vertexs = net.vertexs /\ r.net.dtrigs = net.dtrigs
        /\ net.dtrigs \subseteq Triangle
    BY <1>1, <2>3, <2>4 DEF SameRest, Net
  <2>6. r.net.edges \subseteq net.edges \union (net.vertexs \X net.vertexs)
    BY <2>3, <2>4
  <2>7. r.add = r.net.edges \ net.edges /\ r.del = net.edges \ r.net.edges
    BY <2>3, <2>4
  <2>8. ~(Cardinality(net.vertexs) >= 3)
    BY <1>3
  <2>9. Together(r.net.edges, net.edges)
    BY <2>2, <2>3, <2>4 DEF Symmetric, Together
  <2> HIDE DEF cur
  <2> QED BY <2>3, <2>4, <2>5, <2>6, <2>7, <2>8, <2>9
<1>4. CASE ~(Cardinality(net.vertexs) >= 3) /\ Cardinality(net.vertexs) # 2
  <2>1. r = Result(net, {}, {})
    BY <1>4 DEF Build
  <2>2. r.net = net /\ r.add = {} /\ r.del = {}
    BY <2>1 DEF Result
  <2> QED BY <1>1, <1>4, <2>2 DEF Net, Together
<1> QED BY <1>2, <1>3, <1>4

\* No triangle is there in two rotations.
NoTwin(D) == \A d, e \in D : e \in Rotations(d) => e = d

\* What holds of a network with three stations or more after a build: edges
\* and triangles are of its stations, and every triangle points to its edges.
Closed(net) ==
  /\ net.edges \subseteq net.vertexs \X net.vertexs
  /\ \A d \in net.dtrigs : {d[1], d[2], d[3]} \subseteq net.vertexs
  /\ \A d \in net.dtrigs : \A e \in EdgesOf(d) :
       <<d, e>> \in net.trig_edge /\ e \in net.edges

\* Turning a triangle keeps its edges and its corners, and can be turned back.
LEMMA RotationSame ==
  ASSUME NEW d \in Triangle, NEW e \in Rotations(d)
  PROVE  /\ e \in Triangle
         /\ EdgesOf(e) = EdgesOf(d)
         /\ {e[1], e[2], e[3]} = {d[1], d[2], d[3]}
         /\ d \in Rotations(e)
<1>1. PICK a \in Srcid, b \in Srcid, c \in Srcid : d = <<a, b, c>>
  BY DEF Triangle
<1>2. Rotations(d) = {<<a, b, c>>, <<b, c, a>>, <<c, a, b>>}
  BY <1>1 DEF Rotations
<1>3. CASE e = <<a, b, c>>
  BY <1>1, <1>3 DEF Triangle, Rotations, EdgesOf
<1>4. CASE e = <<b, c, a>>
  BY <1>1, <1>4 DEF Triangle, Rotations, EdgesOf
<1>5. CASE e = <<c, a, b>>
  BY <1>1, <1>5 DEF Triangle, Rotations, EdgesOf
<1> QED BY <1>2, <1>3, <1>4, <1>5

\* upd_dtrig and del_dtrigs leave no triangle twice (dtrignet.c:121-139).
LEMMA NoTwinKept ==
  ASSUME NEW D \in SUBSET Triangle, NoTwin(D),
         NEW V \in SUBSET Srcid, NEW T \in Triangulation(V)
  PROVE  NoTwin(UpdTriangles(D, T))
<1>1. T \subseteq Triangle
  <2>1. T \subseteq V \X V \X V
    BY TriangleEdges
  <2> QED BY <2>1 DEF Triangle
<1>2. NoTwin(T)
  BY TriangulationAssumption DEF NoTwin
<1> SUFFICES ASSUME NEW d \in UpdTriangles(D, T), NEW e \in UpdTriangles(D, T),
                    e \in Rotations(d)
             PROVE  e = d
  BY DEF NoTwin
<1>3. /\ d \in D \/ (d \in T /\ Rotations(d) \intersect D = {})
      /\ e \in D \/ (e \in T /\ Rotations(e) \intersect D = {})
  BY DEF UpdTriangles
<1>4. d \in Triangle
  BY <1>1, <1>3
<1>5. d \in Rotations(e)
  BY <1>4, RotationSame
<1> QED BY <1>2, <1>3, <1>5 DEF NoTwin

\* After upd_dtrig and del_dtrigs every triangle is one of the triangulation, in
\* some rotation.
LEMMA FromTriangulation ==
  ASSUME NEW D \in SUBSET Triangle,
         NEW V \in SUBSET Srcid, NEW T \in Triangulation(V),
         NEW d \in UpdTriangles(D, T)
  PROVE  /\ {d[1], d[2], d[3]} \subseteq V
         /\ EdgesOf(d) \subseteq UNION {EdgesOf(x) : x \in T}
<1>1. T \subseteq V \X V \X V
  BY TriangleEdges
<1>2. d \in Triangle
  BY <1>1 DEF UpdTriangles, Triangle
<1>3. PICK e \in T : e \in Rotations(d)
  BY DEF UpdTriangles, Rotations
<1>4. EdgesOf(e) = EdgesOf(d) /\ {e[1], e[2], e[3]} = {d[1], d[2], d[3]}
  BY <1>2, <1>3, RotationSame
<1>5. {e[1], e[2], e[3]} \subseteq V
  BY <1>1
<1> QED BY <1>3, <1>4, <1>5

\* A build and upd_dtrig_edge, as add_vertex and del_vertex end: with three
\* stations or more the network is closed, whatever was left in it before.
LEMMA RebuiltClosed ==
  ASSUME NEW net, Consistent(net), NoTwin(net.dtrigs),
         NEW r \in Rebuilt(net)
  PROVE  /\ Consistent(r.net)
         /\ NoTwin(r.net.dtrigs)
         /\ r.net.vertexs = net.vertexs
         /\ r.add = r.net.edges \ net.edges
         /\ r.del = net.edges \ r.net.edges
         /\ r.net.edges \subseteq net.edges \union (net.vertexs \X net.vertexs)
         /\ Cardinality(net.vertexs) >= 3 => Closed(r.net)
         /\ Together(r.net.edges, net.edges)
         /\ \A p \in r.net.trig_edge : p[2] \in r.net.edges
<1>1. PICK q \in Build(net) : r = Result(UpdTriangleEdges(q.net), q.add, q.del)
  BY DEF Rebuilt
<1>2. r.net = UpdTriangleEdges(q.net) /\ r.add = q.add /\ r.del = q.del
  BY <1>1 DEF Result
<1>3. /\ Consistent(q.net)
      /\ q.net.vertexs = net.vertexs
      /\ q.add = q.net.edges \ net.edges
      /\ q.del = net.edges \ q.net.edges
      /\ q.net.edges \subseteq net.edges \union (net.vertexs \X net.vertexs)
      /\ q.net.dtrigs \subseteq Triangle
      /\ Cardinality(net.vertexs) >= 3 => Triangulated(q.net, net)
      /\ ~(Cardinality(net.vertexs) >= 3) => q.net.dtrigs = net.dtrigs
      /\ Together(q.net.edges, net.edges)
  BY BuildConsistent
<1>4. q.net \in Net /\ net \in Net
  BY <1>3 DEF Consistent
<1> DEFINE ptr == {p \in q.net.dtrigs \X q.net.edges : p[2] \in EdgesOf(p[1])}
<1>5. /\ r.net \in Net
      /\ r.net.vertexs = q.net.vertexs /\ r.net.edges = q.net.edges
      /\ r.net.vt_list = q.net.vt_list /\ r.net.edge_list = q.net.edge_list
      /\ r.net.dtrigs = q.net.dtrigs /\ r.net.trig_edge = ptr
  <2>1. r.net = [q.net EXCEPT !.trig_edge = ptr]
    BY <1>2 DEF UpdTriangleEdges
  <2>2. ptr \in SUBSET (Triangle \X Edge)
    BY <1>4 DEF Net
  <2> HIDE DEF ptr
  <2> QED BY <1>4, <2>1, <2>2 DEF Net
<1>6. Consistent(r.net)
  BY <1>3, <1>5 DEF Consistent
<1>7. net.vertexs \in SUBSET Srcid /\ net.dtrigs \in SUBSET Triangle
  BY <1>4 DEF Net
<1>8. \A p \in r.net.trig_edge : p[2] \in r.net.edges
  BY <1>5
<1>9. CASE Cardinality(net.vertexs) >= 3
  <2>1. PICK T \in Triangulation(net.vertexs) :
          /\ q.net.edges = UNION {EdgesOf(d) : d \in T}
          /\ q.net.dtrigs = UpdTriangles(net.dtrigs, T)
    BY <1>3, <1>9 DEF Triangulated
  <2>2. NoTwin(r.net.dtrigs)
    BY <1>5, <1>7, <2>1, NoTwinKept
  <2>3. r.net.edges \subseteq net.vertexs \X net.vertexs
    BY <1>5, <1>7, <2>1, TriangleEdges
  <2>4. ASSUME NEW d \in r.net.dtrigs
        PROVE  /\ {d[1], d[2], d[3]} \subseteq net.vertexs
               /\ EdgesOf(d) \subseteq q.net.edges
    BY <1>5, <1>7, <2>1, FromTriangulation
  <2>5. Closed(r.net)
    BY <1>3, <1>5, <2>3, <2>4 DEF Closed
  <2> QED BY <1>2, <1>3, <1>5, <1>6, <1>8, <2>2, <2>5
<1>10. CASE ~(Cardinality(net.vertexs) >= 3)
  BY <1>2, <1>3, <1>5, <1>6, <1>8, <1>10
<1> QED BY <1>9, <1>10

-----------------------------------------------------------------------------
(* The two operations that build.                                          *)

\* Whatever add_vertex and del_vertex do to a network, what the lists say is
\* right and the differences reported are those of the edges.
NetStep(net, V, r) ==
  /\ Consistent(r.net)
  /\ NoTwin(r.net.dtrigs)
  /\ r.net.vertexs = V
  /\ r.add = r.net.edges \ net.edges
  /\ r.del = net.edges \ r.net.edges
  /\ r.net.edges \subseteq net.edges \union (V \X V)
  /\ Cardinality(V) >= 3 => Closed(r.net)
  /\ Together(r.net.edges, net.edges)
  /\ \A p \in r.net.trig_edge : p[2] \in r.net.edges

\* A build after the stations were changed to V.
LEMMA VertexsChanged ==
  ASSUME NEW net, Consistent(net), NoTwin(net.dtrigs),
         NEW V \in SUBSET Srcid,
         NEW r \in Rebuilt([net EXCEPT !.vertexs = V])
  PROVE  NetStep(net, V, r)
<1> DEFINE nxt == [net EXCEPT !.vertexs = V]
<1>1. /\ nxt \in Net
      /\ nxt.vertexs = V /\ nxt.edges = net.edges
      /\ nxt.vt_list = net.vt_list /\ nxt.edge_list = net.edge_list
      /\ nxt.dtrigs = net.dtrigs
  BY DEF Consistent, Net
<1>2. Consistent(nxt)
  BY <1>1 DEF Consistent
<1>3. r \in Rebuilt(nxt)
  OBVIOUS
<1> HIDE DEF nxt
<1> QED BY <1>1, <1>2, <1>3, RebuiltClosed DEF NetStep

\* A call that comes back at once.
NoStep(net, r) == r.net = net /\ r.add = {} /\ r.del = {}

\* A station with a new srcid, with or without a position.
LEMMA AddVertexStep ==
  ASSUME NEW net, Consistent(net), NoTwin(net.dtrigs),
         NEW s \in Srcid, s \notin net.vertexs,
         NEW r \in AddVertex(net, s)
  PROVE  NoStep(net, r) \/ NetStep(net, net.vertexs \union {s}, r)
<1>1. net \in Net /\ net.vertexs \union {s} \in SUBSET Srcid
  BY DEF Consistent, Net
<1>2. CASE r = Result(net, {}, {})
  BY <1>2 DEF NoStep, Result
<1>3. CASE r \in Rebuilt([net EXCEPT !.vertexs = net.vertexs \union {s}])
  BY <1>1, <1>3, VertexsChanged
<1> QED BY <1>1, <1>2, <1>3 DEF AddVertex, Net

\* A station that goes.
LEMMA DelVertexStep ==
  ASSUME NEW net, Consistent(net), NoTwin(net.dtrigs),
         NEW s \in net.vertexs,
         NEW r \in DelVertex(net, s)
  PROVE  NetStep(net, net.vertexs \ {s}, r)
<1>1. net \in Net /\ net.vertexs \ {s} \in SUBSET Srcid
  BY DEF Consistent, Net
<1>2. r \in Rebuilt([net EXCEPT !.vertexs = net.vertexs \ {s}])
  BY <1>1 DEF DelVertex, Net
<1> QED BY <1>1, <1>2, VertexsChanged

-----------------------------------------------------------------------------
(* The nrtk thread.                                                        *)

\* The properties that are about the network alone, in the terms of the lemmas,
\* before a step and after it.
LEMMA PartsBefore ==
  ASSUME IInv
  PROVE  Consistent(dtrig_net) /\ NoTwin(dtrig_net.dtrigs)
<1>1. dtrig_net \in Net
  BY DEF IInv, TypeOK
<1>2. NoTwin(dtrig_net.dtrigs)
  BY DEF IInv, NoRotatedTwin, NoTwin
<1>3. ASSUME NEW s \in Srcid, NEW t \in Srcid, t \in dtrig_net.vt_list[s]
      PROVE  /\ s \in dtrig_net.vt_list[t]
             /\ <<s, t>> \in dtrig_net.edges \/ <<t, s>> \in dtrig_net.edges
  BY <1>3 DEF IInv, NeighboursBacked
<1>4. \A s \in Srcid : dtrig_net.edge_list[s] = {e \in dtrig_net.edges : e[1] = s}
  BY DEF IInv, EdgeListExact
<1> QED BY <1>1, <1>2, <1>3, <1>4 DEF Consistent

\* The same, from the lemmas back to the properties, after a step.
LEMMA PartsAfter ==
  ASSUME NEW net, net = dtrig_net', Consistent(net), NoTwin(net.dtrigs)
  PROVE  (dtrig_net \in Net /\ EdgeListExact /\ NeighboursBacked /\ NoRotatedTwin)'
<1>1. net \in Net /\ EdgeListExact'
  BY DEF Consistent, EdgeListExact
<1>2. NoRotatedTwin'
  BY DEF NoTwin, NoRotatedTwin
<1>3. ASSUME NEW s \in Srcid, NEW t \in Srcid, t \in net.vt_list[s]
      PROVE  /\ s \in net.vt_list[t]
             /\ {<<s, t>>, <<t, s>>} \intersect net.edges # {}
  BY <1>3 DEF Consistent
<1>4. NeighboursBacked'
  BY <1>3 DEF NeighboursBacked
<1> QED BY <1>1, <1>2, <1>4

-----------------------------------------------------------------------------
(* The two operations on an edge.                                          *)

\* cors_dtrignet_add_edge.
LEMMA AddEdgeStep ==
  ASSUME NEW net, Consistent(net),
         NEW s \in Srcid, NEW t \in Srcid, s # t
  PROVE  /\ Consistent(AddEdge(net, s, t))
         /\ SameRest(AddEdge(net, s, t), net)
         /\ \/ AddEdge(net, s, t) = net
            \/ /\ AddEdge(net, s, t).edges = net.edges \union {<<s, t>>}
               /\ {s, t} \subseteq net.vertexs
         /\ {s, t} \subseteq net.vertexs => <<s, t>> \in AddEdge(net, s, t).edges
<1>1. CASE <<s, t>> \in net.edges \/ ~({s, t} \subseteq net.vertexs)
  BY <1>1 DEF AddEdge, SameRest
<1>2. CASE ~(<<s, t>> \in net.edges \/ ~({s, t} \subseteq net.vertexs))
  <2> DEFINE vt == [x \in Srcid |-> net.vt_list[x] \union {y \in Srcid : {x, y} = {s, t}}]
             el == [x \in Srcid |-> net.edge_list[x] \union {e \in {<<s, t>>} : e[1] = x}]
             res == AddEdge(net, s, t)
  <2>1. net \in Net /\ <<s, t>> \in Edge
    BY DEF Consistent, Edge
  <2>2. vt \in [Srcid -> SUBSET Srcid] /\ el \in [Srcid -> SUBSET Edge]
    BY <2>1 DEF Net
  <2>3. res = [net EXCEPT !.edges = net.edges \union {<<s, t>>},
                          !.vt_list = vt, !.edge_list = el]
    BY <1>2, <2>1 DEF AddEdge, Net
  <2> HIDE DEF vt, el, res
  <2>4. /\ res \in Net
        /\ res.edges = net.edges \union {<<s, t>>}
        /\ res.vt_list = vt /\ res.edge_list = el
        /\ SameRest(res, net)
    BY <2>1, <2>2, <2>3 DEF Net, SameRest
  <2>5. ASSUME NEW x \in Srcid
        PROVE  el[x] = {e \in res.edges : e[1] = x}
    BY <2>1, <2>4 DEF Consistent, Net, el
  <2>6. ASSUME NEW x \in Srcid, NEW y \in Srcid, y \in vt[x]
        PROVE  /\ x \in vt[y]
               /\ <<x, y>> \in res.edges \/ <<y, x>> \in res.edges
    <3>1. CASE y \in net.vt_list[x]
      BY <2>4, <3>1 DEF Consistent, vt
    <3>2. CASE {x, y} = {s, t}
      <4>1. x \in vt[y]
        BY <3>2 DEF vt
      <4>2. (x = s /\ y = t) \/ (x = t /\ y = s)
        BY <3>2
      <4> QED BY <2>4, <4>1, <4>2
    <3> QED BY <2>6, <3>1, <3>2 DEF vt
  <2>7. Consistent(res)
    BY <2>4, <2>5, <2>6 DEF Consistent
  <2> QED BY <1>2, <2>4, <2>7 DEF res
<1> QED BY <1>1, <1>2

\* cors_dtrignet_del_edge.
LEMMA DelEdgeStep ==
  ASSUME NEW net, Consistent(net),
         NEW s \in Srcid, NEW t \in Srcid, s # t
  PROVE  /\ Consistent(DelEdge(net, s, t))
         /\ SameRest(DelEdge(net, s, t), net)
         /\ \/ DelEdge(net, s, t) = net
            \/ DelEdge(net, s, t).edges = net.edges \ {<<s, t>>}
         /\ {s, t} \subseteq net.vertexs => <<s, t>> \notin DelEdge(net, s, t).edges
<1>1. CASE <<s, t>> \notin net.edges \/ ~({s, t} \subseteq net.vertexs)
  BY <1>1 DEF DelEdge, SameRest
<1>2. CASE ~(<<s, t>> \notin net.edges \/ ~({s, t} \subseteq net.vertexs))
  <2>1. {<<s, t>>} \in SUBSET Edge
    BY DEF Edge
  <2>2. DelEdge(net, s, t) = Unlink(net, {<<s, t>>})
    BY <1>2 DEF DelEdge
  <2> QED BY <2>1, <2>2, UnlinkConsistent
<1> QED BY <1>1, <1>2

-----------------------------------------------------------------------------
(* The invariant.                                                          *)

\* The parts of IInv that do not speak of the engines.
NetworkInv == /\ dtrig_net \in Net
              /\ StationsKnown
              /\ EdgeListExact
              /\ NeighboursBacked
              /\ NoDeadStation
              /\ NoRotatedTwin
              /\ TrianglePointers

\* A step that builds, from the network with the stations V.  A station that is
\* new finds no edge of its own: its srcid was not used.
LEMMA BuildStep ==
  ASSUME IInv, NEW V, NEW r, NetStep(dtrig_net, V, r),
         V \subseteq used', used \subseteq used', used' \subseteq Srcid,
         dtrig_net' = r.net
  PROVE  NetworkInv'
<1> DEFINE net == r.net
<1>1. Consistent(net) /\ NoTwin(net.dtrigs) /\ net.vertexs = V
  BY DEF NetStep
<1>2. (dtrig_net \in Net /\ EdgeListExact /\ NeighboursBacked /\ NoRotatedTwin)'
  BY <1>1, PartsAfter
<1>3. StationsKnown'
  <2>1. dtrig_net.edges \subseteq used' \X used'
    BY DEF IInv, StationsKnown
  <2>2. net.edges \subseteq dtrig_net.edges \union (V \X V)
    BY DEF NetStep
  <2> QED BY <1>1, <2>1, <2>2 DEF StationsKnown
<1>4. Cardinality(net.vertexs) >= 3 => Closed(net)
  BY DEF NetStep
<1>5. NoDeadStation' /\ TrianglePointers'
  BY <1>4 DEF NoDeadStation, TrianglePointers, Closed
<1> QED BY <1>2, <1>3, <1>5 DEF NetworkInv

\* nrtk_upd_bls after a build (nrtk.c:108-122): the differences bring the
\* baselines of the engines to the edges of the network.
LEMMA BuildBls ==
  ASSUME IInv, started, NEW V, NEW r, NetStep(dtrig_net, V, r),
         \A e \in dtrig_net.edges : e \in V \X V =>
            e \in dtrig_net.vertexs \X dtrig_net.vertexs,
         dtrig_net' = r.net, UpdBls(r), orphan' = orphan
  PROVE  BaselinesFollowEdges' /\ (bls \subseteq Edge)'
<1> DEFINE old == dtrig_net.edges
           new == r.net.edges
<1>1. r.net \in Net /\ r.net.vertexs = V /\ new \subseteq Edge
  BY DEF NetStep, Consistent, Net
<1>2. bls' = (bls \union (new \ old)) \ (old \ new)
  BY DEF UpdBls, NetStep
<1>3. /\ old \intersect (dtrig_net.vertexs \X dtrig_net.vertexs) \subseteq bls
      /\ bls \subseteq old \union orphan
      /\ bls \subseteq Edge
  BY DEF IInv, BaselinesFollowEdges, TypeOK
<1>4. bls' \subseteq Edge /\ bls' \subseteq new \union orphan
  BY <1>1, <1>2, <1>3
<1>5. new \intersect (V \X V) \subseteq bls'
  BY <1>2, <1>3
<1> QED BY <1>1, <1>4, <1>5 DEF BaselinesFollowEdges

\* The empty network, before nrtk_init_dtrignet, satisfies the invariant.
LEMMA InitIInv == Init => IInv
<1> SUFFICES ASSUME Init PROVE IInv
  OBVIOUS
<1>1. /\ dtrig_net \in Net
      /\ dtrig_net.vertexs = {} /\ dtrig_net.edges = {} /\ dtrig_net.dtrigs = {}
      /\ \A s \in Srcid : dtrig_net.vt_list[s] = {} /\ dtrig_net.edge_list[s] = {}
  BY DEF Init, EmptyNet, Net
<1>2. TypeOK
  <2>1. 0 \in 0 .. MaxManual
    BY NrtkAssumption
  <2> QED BY <1>1, <2>1, Zenon DEF Init, TypeOK
<1>3. StationsKnown /\ NoRotatedTwin /\ NoDeadStation /\ TrianglePointers
  BY <1>1 DEF StationsKnown, NoRotatedTwin, NoDeadStation, TrianglePointers
<1>4. EdgeListExact /\ NeighboursBacked
  BY <1>1 DEF EdgeListExact, NeighboursBacked
<1>5. BaselinesFollowEdges
  BY DEF Init, BaselinesFollowEdges
<1> QED BY <1>2, <1>3, <1>4, <1>5 DEF IInv

-----------------------------------------------------------------------------
(* One lemma per action.                                                   *)

\* What leaves the network alone keeps its part of the invariant.
LEMMA NetworkUnchanged ==
  ASSUME IInv, UNCHANGED dtrig_net, used' = used, cut' = cut
  PROVE  NetworkInv'
BY DEF IInv, TypeOK, NetworkInv, StationsKnown, EdgeListExact, NeighboursBacked,
       NoDeadStation, NoRotatedTwin, TrianglePointers

\* A fresh station: add_vertex builds a network that keeps the invariant, or leaves
\* it as it is.
LEMMA FreshBuild ==
  ASSUME IInv, NEW s \in Srcid, Fresh(s), NEW r \in AddVertex(dtrig_net, s),
         dtrig_net' = r.net, s \in r.net.vertexs \/ cut' = cut
  PROVE  /\ NetworkInv'
         /\ used' \subseteq Srcid
         /\ \/ NoStep(dtrig_net, r)
            \/ NetStep(dtrig_net, dtrig_net.vertexs \union {s}, r)
         /\ \A e \in dtrig_net.edges :
              e \in (dtrig_net.vertexs \union {s}) \X (dtrig_net.vertexs \union {s})
                => e \in dtrig_net.vertexs \X dtrig_net.vertexs
<1>1. /\ s \notin used /\ used' = used \union {s} /\ used \subseteq Srcid
      /\ dtrig_net.vertexs \subseteq used /\ dtrig_net.edges \subseteq used \X used
  BY DEF Fresh, IInv, TypeOK, StationsKnown
<1>2. NoStep(dtrig_net, r) \/ NetStep(dtrig_net, dtrig_net.vertexs \union {s}, r)
  BY <1>1, PartsBefore, AddVertexStep
<1>3. NetworkInv'
  <2>1. CASE NetStep(dtrig_net, dtrig_net.vertexs \union {s}, r)
    BY <1>1, <2>1, BuildStep
  <2>2. CASE NoStep(dtrig_net, r)
    <3>1. dtrig_net' = dtrig_net /\ cut' = cut
      BY <1>1, <2>2 DEF NoStep
    <3>2. /\ EdgeListExact' /\ NeighboursBacked' /\ NoDeadStation'
          /\ NoRotatedTwin' /\ TrianglePointers' /\ (dtrig_net \in Net)'
      BY <3>1 DEF IInv, TypeOK, EdgeListExact, NeighboursBacked, NoDeadStation,
                  NoRotatedTwin, TrianglePointers
    <3>3. StationsKnown'
      BY <1>1, <3>1 DEF StationsKnown
    <3> QED BY <3>2, <3>3 DEF NetworkInv
  <2> QED BY <1>2, <2>1, <2>2
<1> QED BY <1>1, <1>2, <1>3

\* A station of the sources file: the engines have nothing yet.
LEMMA InitVertexIInv ==
  ASSUME IInv, NEW s \in Srcid, InitVertex(s)
  PROVE  IInv'
<1>1. PICK r \in AddVertex(dtrig_net, s) : dtrig_net' = r.net
  BY DEF InitVertex
<1>2. NetworkInv' /\ used' \subseteq Srcid
  BY <1>1, FreshBuild, Zenon DEF InitVertex
<1>3. TypeOK'
  BY <1>2, Zenon DEF InitVertex, IInv, TypeOK, NetworkInv
<1>4. BaselinesFollowEdges'
  BY DEF InitVertex, BaselinesFollowEdges
<1> QED BY <1>2, <1>3, <1>4 DEF IInv, NetworkInv

\* The engines are given the edges of the network at once.
LEMMA InitDoneIInv ==
  ASSUME IInv, InitDone
  PROVE  IInv'
<1>1. NetworkInv'
  BY NetworkUnchanged DEF InitDone
<1>2. dtrig_net.edges \subseteq Edge /\ alive' \in BOOLEAN
  BY DEF IInv, TypeOK, Net, InitDone
<1>3. TypeOK'
  BY <1>1, <1>2, Zenon DEF InitDone, IInv, TypeOK, NetworkInv
<1>4. BaselinesFollowEdges'
  BY DEF InitDone, BaselinesFollowEdges
<1> QED BY <1>1, <1>3, <1>4 DEF IInv, NetworkInv

\* A new station, or the crash on a network that was not initialised.
LEMMA AddSourceIInv ==
  ASSUME IInv, NEW s \in Srcid, AddSource(s)
  PROVE  IInv'
<1>1. started /\ Fresh(s) /\ used' = used \union {s} /\ orphan' = orphan
  BY DEF AddSource, Running, Fresh
<1>2. ASSUME NEW r \in AddVertex(dtrig_net, s), dtrig_net' = r.net, UpdBls(r),
             cut' = IF s \in r.net.vertexs THEN {} ELSE cut, alive' = alive
      PROVE  IInv'
  <2>1. s \in r.net.vertexs \/ cut' = cut
    BY <1>2
  <2>2. /\ NetworkInv'
        /\ used' \subseteq Srcid
        /\ \/ NoStep(dtrig_net, r)
           \/ NetStep(dtrig_net, dtrig_net.vertexs \union {s}, r)
        /\ \A e \in dtrig_net.edges :
             e \in (dtrig_net.vertexs \union {s}) \X (dtrig_net.vertexs \union {s})
               => e \in dtrig_net.vertexs \X dtrig_net.vertexs
    BY <1>1, <1>2, <2>1, FreshBuild
  <2>3. BaselinesFollowEdges' /\ bls' \subseteq Edge
    <3>1. CASE NoStep(dtrig_net, r)
      <4>1. bls' = bls /\ dtrig_net' = dtrig_net
        BY <1>2, <3>1 DEF NoStep, UpdBls
      <4> QED BY <1>1, <4>1 DEF IInv, TypeOK, BaselinesFollowEdges, AddSource
    <3>2. CASE NetStep(dtrig_net, dtrig_net.vertexs \union {s}, r)
      BY <1>1, <1>2, <2>2, <3>2, BuildBls
    <3> QED BY <2>2, <3>1, <3>2
  <2>4. cut' \subseteq Edge
    BY <1>2 DEF IInv, TypeOK
  <2>5. TypeOK'
    BY <1>2, <2>2, <2>3, <2>4, Zenon DEF AddSource, IInv, TypeOK, NetworkInv
  <2> QED BY <2>2, <2>3, <2>5 DEF IInv, NetworkInv
<1>3. ASSUME UNCHANGED <<dtrig_net, bls, cut>>, alive' = FALSE
      PROVE  IInv'
  <2>1. UNCHANGED <<started, dtrig_net, bls, cut, orphan>>
    BY <1>3 DEF AddSource
  <2>2. used' \subseteq Srcid
    BY <1>1 DEF IInv, TypeOK
  <2>3. TypeOK'
    BY <1>3, <2>1, <2>2, Zenon DEF AddSource, IInv, TypeOK
  <2>4. StationsKnown'
    BY <1>1, <2>1 DEF IInv, StationsKnown
  <2>5. /\ EdgeListExact' /\ NeighboursBacked' /\ NoDeadStation'
        /\ NoRotatedTwin' /\ TrianglePointers' /\ BaselinesFollowEdges'
    BY <2>1 DEF IInv, EdgeListExact, NeighboursBacked, NoDeadStation, NoRotatedTwin,
                TrianglePointers, BaselinesFollowEdges
  <2> QED BY <2>3, <2>4, <2>5 DEF IInv
<1>4. PICK r \in AddVertex(dtrig_net, s) :
        \/ /\ dtrig_net' = r.net /\ UpdBls(r) /\ alive' = alive
           /\ cut' = IF s \in r.net.vertexs THEN {} ELSE cut
        \/ UNCHANGED <<dtrig_net, bls, cut>> /\ alive' = FALSE
  BY Zenon DEF AddSource
<1> QED BY <1>2, <1>3, <1>4

\* A station that goes, one that is not known, or the crash.
LEMMA DelSourceIInv ==
  ASSUME IInv, NEW s \in Srcid, DelSource(s)
  PROVE  IInv'
<1>1. started /\ used' = used /\ orphan' = orphan
  BY DEF DelSource, Running
<1>2. ASSUME NEW r \in DelVertex(dtrig_net, s), dtrig_net' = r.net, UpdBls(r),
             s \in dtrig_net.vertexs, cut' = {}, alive' = alive
      PROVE  IInv'
  <2> DEFINE V == dtrig_net.vertexs \ {s}
  <2>1. NetStep(dtrig_net, V, r)
    BY <1>2, PartsBefore, DelVertexStep
  <2>2. V \subseteq used' /\ used \subseteq used' /\ used' \subseteq Srcid
    BY <1>1 DEF IInv, TypeOK, StationsKnown
  <2>3. NetworkInv'
    BY <1>2, <2>1, <2>2, BuildStep
  <2>4. \A e \in dtrig_net.edges : e \in V \X V =>
          e \in dtrig_net.vertexs \X dtrig_net.vertexs
    OBVIOUS
  <2> HIDE DEF V
  <2>5. BaselinesFollowEdges' /\ bls' \subseteq Edge
    BY <1>1, <1>2, <2>1, <2>4, BuildBls
  <2>6. TypeOK'
    BY <1>2, <2>3, <2>5, Zenon DEF DelSource, IInv, TypeOK, NetworkInv
  <2> QED BY <2>3, <2>5, <2>6 DEF IInv, NetworkInv
<1>3. ASSUME UNCHANGED <<dtrig_net, bls, cut>>, alive' \in BOOLEAN
      PROVE  IInv'
  <2>1. NetworkInv'
    BY <1>1, <1>3, NetworkUnchanged
  <2>2. TypeOK'
    BY <1>3, Zenon DEF DelSource, IInv, TypeOK
  <2>3. BaselinesFollowEdges'
    BY <1>1, <1>3 DEF DelSource, IInv, BaselinesFollowEdges
  <2> QED BY <2>1, <2>2, <2>3 DEF IInv, NetworkInv
<1>4. alive \in BOOLEAN
  BY DEF IInv, TypeOK
<1>5. CASE alive' = FALSE /\ UNCHANGED <<dtrig_net, bls, cut>>
  BY <1>3, <1>5
<1>6. CASE /\ \E r \in DelVertex(dtrig_net, s) : dtrig_net' = r.net /\ UpdBls(r)
           /\ cut' = IF s \in dtrig_net.vertexs THEN {} ELSE cut
           /\ alive' = alive
  <2>1. PICK r \in DelVertex(dtrig_net, s) : dtrig_net' = r.net /\ UpdBls(r)
    BY <1>6
  <2>2. CASE s \in dtrig_net.vertexs
    BY <1>2, <1>6, <2>1, <2>2
  <2>3. CASE s \notin dtrig_net.vertexs
    <3>1. r.net = dtrig_net /\ r.add = {} /\ r.del = {}
      BY <2>1, <2>3 DEF DelVertex, Result
    <3>2. bls' = bls
      BY <2>1, <3>1 DEF UpdBls
    <3> QED BY <1>3, <1>4, <1>6, <2>1, <2>3, <3>1, <3>2
  <2> QED BY <2>2, <2>3
<1> QED BY <1>5, <1>6 DEF DelSource

\* An edge that is added or deleted by hand leaves the network good if what is
\* taken away is remembered in cut.
LEMMA EdgeByHand ==
  ASSUME IInv, NEW net, Consistent(net), SameRest(net, dtrig_net), dtrig_net' = net,
         used' = used, cut \subseteq cut', dtrig_net.edges \subseteq net.edges \union cut',
         net.edges \subseteq dtrig_net.edges
                           \union (dtrig_net.vertexs \X dtrig_net.vertexs)
  PROVE  NetworkInv'
<1>1. /\ net.vertexs = dtrig_net.vertexs
      /\ net.dtrigs = dtrig_net.dtrigs
      /\ net.trig_edge = dtrig_net.trig_edge
  BY DEF SameRest
<1>2. NoTwin(net.dtrigs)
  BY <1>1, PartsBefore
<1>3. (dtrig_net \in Net /\ EdgeListExact /\ NeighboursBacked /\ NoRotatedTwin)'
  BY <1>2, PartsAfter
<1>4. StationsKnown'
  BY <1>1 DEF IInv, StationsKnown
<1>5. NoDeadStation'
  BY <1>1 DEF IInv, NoDeadStation
<1>6. TrianglePointers'
  BY <1>1 DEF IInv, TrianglePointers
<1> QED BY <1>3, <1>4, <1>5, <1>6 DEF NetworkInv

\* The bound on calls by hand is kept.
LEMMA ManualCounts ==
  ASSUME IInv, manual < MaxManual, manual' = manual + 1
  PROVE  manual' \in 0 .. MaxManual
BY NrtkAssumption DEF IInv, TypeOK

\* A baseline that is an edge of the network, or is remembered in orphan.
LEMMA AddBlIInv ==
  ASSUME IInv, NEW s \in used, NEW t \in used, s # t, AddBl(s, t)
  PROVE  IInv'
<1> DEFINE net == AddEdge(dtrig_net, s, t)
<1>1. /\ started' = started /\ used' = used /\ cut' = cut /\ dtrig_net' = net
      /\ bls' = bls \union {<<s, t>>}
      /\ orphan' = IF <<s, t>> \in net.edges THEN orphan ELSE orphan \union {<<s, t>>}
  BY DEF AddBl
<1>2. s \in Srcid /\ t \in Srcid /\ <<s, t>> \in Edge
  BY DEF IInv, TypeOK, Edge
<1>3. /\ Consistent(net)
      /\ SameRest(net, dtrig_net)
      /\ \/ net = dtrig_net
         \/ /\ net.edges = dtrig_net.edges \union {<<s, t>>}
            /\ {s, t} \subseteq dtrig_net.vertexs
      /\ {s, t} \subseteq dtrig_net.vertexs => <<s, t>> \in net.edges
  BY <1>2, PartsBefore, AddEdgeStep
<1> HIDE DEF net
<1>4. /\ dtrig_net.edges \subseteq net.edges
      /\ net.edges \subseteq dtrig_net.edges \union {<<s, t>>}
      /\ net.edges \subseteq dtrig_net.edges
                           \union (dtrig_net.vertexs \X dtrig_net.vertexs)
  BY <1>3
<1>5. NetworkInv'
  BY <1>1, <1>3, <1>4, EdgeByHand
<1>6. BaselinesFollowEdges'
  <2>1. net.vertexs = dtrig_net.vertexs
    BY <1>3 DEF SameRest
  <2> QED BY <1>1, <1>4, <2>1 DEF IInv, BaselinesFollowEdges
<1>7. TypeOK'
  <2>1. manual' \in 0 .. MaxManual
    BY ManualCounts DEF AddBl
  <2>2. bls' \subseteq Edge /\ orphan' \subseteq Edge
    BY <1>1, <1>2 DEF IInv, TypeOK
  <2> QED BY <1>5, <2>1, <2>2, Zenon DEF AddBl, IInv, TypeOK, NetworkInv
<1> QED BY <1>5, <1>6, <1>7 DEF IInv, NetworkInv

\* An edge that is deleted is remembered in cut.
LEMMA DelBlIInv ==
  ASSUME IInv, NEW s \in used, NEW t \in used, s # t, DelBl(s, t)
  PROVE  IInv'
<1> DEFINE net == DelEdge(dtrig_net, s, t)
<1>1. /\ started' = started /\ used' = used /\ orphan' = orphan /\ dtrig_net' = net
      /\ bls' = bls \ {<<s, t>>}
      /\ cut' = cut \union {<<s, t>>}
  BY DEF DelBl
<1>2. s \in Srcid /\ t \in Srcid /\ <<s, t>> \in Edge
  BY DEF IInv, TypeOK, Edge
<1>3. /\ Consistent(net)
      /\ SameRest(net, dtrig_net)
      /\ \/ net = dtrig_net
         \/ net.edges = dtrig_net.edges \ {<<s, t>>}
      /\ {s, t} \subseteq dtrig_net.vertexs => <<s, t>> \notin net.edges
  BY <1>2, PartsBefore, DelEdgeStep
<1> HIDE DEF net
<1>4. /\ net.edges \subseteq dtrig_net.edges
      /\ dtrig_net.edges \subseteq net.edges \union {<<s, t>>}
  BY <1>3
<1>5. NetworkInv'
  BY <1>1, <1>3, <1>4, EdgeByHand
<1>6. BaselinesFollowEdges'
  <2>1. net.vertexs = dtrig_net.vertexs
    BY <1>3 DEF SameRest
  <2> QED BY <1>1, <1>3, <1>4, <2>1 DEF IInv, BaselinesFollowEdges
<1>7. TypeOK'
  <2>1. manual' \in 0 .. MaxManual
    BY ManualCounts DEF DelBl
  <2>2. bls' \subseteq Edge /\ cut' \subseteq Edge
    BY <1>1, <1>2 DEF IInv, TypeOK
  <2> QED BY <1>5, <2>1, <2>2, Zenon DEF DelBl, IInv, TypeOK, NetworkInv
<1> QED BY <1>5, <1>6, <1>7 DEF IInv, NetworkInv

-----------------------------------------------------------------------------
(* The theorems.                                                           *)

\* Every step keeps the invariant.
LEMMA NextIInv == IInv /\ [Next]_vars => IInv'
<1> SUFFICES ASSUME IInv, [Next]_vars PROVE IInv'
  OBVIOUS
<1>1. used \subseteq Srcid
  BY DEF IInv, TypeOK
<1>2. ASSUME NEW s \in Srcid, InitVertex(s) PROVE IInv'
  BY <1>2, InitVertexIInv
<1>3. ASSUME NEW s \in Srcid, AddSource(s) PROVE IInv'
  BY <1>3, AddSourceIInv
<1>4. ASSUME NEW s \in used, DelSource(s) PROVE IInv'
  BY <1>1, <1>4, DelSourceIInv
<1>5. ASSUME NEW s \in used, NEW t \in used, s # t, AddBl(s, t) PROVE IInv'
  BY <1>5, AddBlIInv
<1>6. ASSUME NEW s \in used, NEW t \in used, s # t, DelBl(s, t) PROVE IInv'
  BY <1>6, DelBlIInv
<1>7. CASE InitDone
  BY <1>7, InitDoneIInv
<1>8. CASE UNCHANGED vars
  <2>1. NetworkInv'
    BY <1>8, NetworkUnchanged DEF vars
  <2>2. TypeOK' /\ BaselinesFollowEdges'
    BY <1>8 DEF vars, IInv, TypeOK, BaselinesFollowEdges
  <2> QED BY <2>1, <2>2 DEF IInv, NetworkInv
<1> QED BY <1>2, <1>3, <1>4, <1>5, <1>6, <1>7, <1>8 DEF Next

\* The inductive invariant holds for any set of srcids, any bounds and any
\* triangulations that satisfy the assumptions.
THEOREM NetworkInductive == Spec => []IInv
BY InitIInv, NextIInv, PTL DEF Spec

\* The network, the baselines and the histories keep their types.
THEOREM NrtkTypeCorrect == Spec => []TypeOK
<1>1. IInv => TypeOK
  BY DEF IInv
<1> QED BY <1>1, NetworkInductive, PTL

\* subnet_time_sync can rely on the edge lists (nrtk.c:342-353).
THEOREM EdgeListsExact == Spec => []EdgeListExact
<1>1. IInv => EdgeListExact
  BY DEF IInv
<1> QED BY <1>1, NetworkInductive, PTL

\* Neighbours are mutual and joined by an edge (dtrignet.c:111-112, :161-162).
THEOREM NeighboursAreBacked == Spec => []NeighboursBacked
<1>1. IInv => NeighboursBacked
  BY DEF IInv
<1> QED BY <1>1, NetworkInductive, PTL

\* Nothing points to a station that went, with three or more left
\* (dtrignet.c:184-210).
THEOREM NoDeadStations == Spec => []NoDeadStation
<1>1. IInv => NoDeadStation
  BY DEF IInv
<1> QED BY <1>1, NetworkInductive, PTL

\* Every triangle is there once (dtrignet.c:121-139).
THEOREM NoRotatedTwins == Spec => []NoRotatedTwin
<1>1. IInv => NoRotatedTwin
  BY DEF IInv
<1> QED BY <1>1, NetworkInductive, PTL

\* dtrig_time_sync finds the edges of every triangle (nrtk.c:394).
THEOREM TrianglesPoint == Spec => []TrianglePointers
<1>1. IInv => TrianglePointers
  BY DEF IInv
<1> QED BY <1>1, NetworkInductive, PTL

\* The engines process the edges of the network (nrtk.c:108-122).
THEOREM EnginesFollow == Spec => []BaselinesFollowEdges
<1>1. IInv => BaselinesFollowEdges
  BY DEF IInv
<1> QED BY <1>1, NetworkInductive, PTL

-----------------------------------------------------------------------------
(* Virtual stations: Vrs, over the same srcids and triangulations.         *)

CONSTANTS Vsta, None, MaxQueue
VARIABLES thread, stas, freed, trig, msta, vsta_list, upd_queue, work, added, moved, prog

Vr == INSTANCE Vrs

\* Vrs and Nrtk mean the same by a network and by the operations on it.
LEMMA SameNet ==
  /\ Vr!Net = Net /\ Vr!Triangle = Triangle /\ Vr!EmptyNet = EmptyNet
  /\ \A d : Vr!EdgesOf(d) = EdgesOf(d)
BY DEF Vr!Net, Net, Vr!Triangle, Triangle, Vr!EmptyNet, EmptyNet, Vr!Edge, Edge,
       Vr!EdgesOf, EdgesOf

LEMMA SameSize ==
  /\ \A S : Vr!Cardinality(S) = Cardinality(S)
  /\ \A S : Vr!IsFiniteSet(S) <=> IsFiniteSet(S)
BY Zenon DEF Vr!Cardinality, Cardinality, Vr!IsFiniteSet, IsFiniteSet

LEMMA SameRebuilt == ASSUME NEW n PROVE Vr!Rebuilt(n) = Rebuilt(n)
BY Zenon DEF Vr!Rebuilt, Rebuilt, Vr!Build, Build, Vr!Rebuild, Rebuild, Vr!Join, Join, Vr!Result, Result,
       Vr!Link, Link, Vr!Unlink, Unlink, Vr!EdgesOf, EdgesOf, Vr!UpdTriangles, UpdTriangles,
       Vr!Rotations, Rotations, Vr!UpdTriangleEdges, UpdTriangleEdges, Vr!Cardinality, Cardinality

LEMMA SameOperations ==
  ASSUME NEW n, NEW s
  PROVE  /\ Vr!AddVertex(n, s) = AddVertex(n, s)
         /\ Vr!DelVertex(n, s) = DelVertex(n, s)
         /\ \A t : /\ Vr!AddEdge(n, s, t) = AddEdge(n, s, t)
                  /\ Vr!DelEdge(n, s, t) = DelEdge(n, s, t)
BY SameRebuilt, Zenon DEF Vr!AddVertex, AddVertex, Vr!DelVertex, DelVertex, Vr!Result, Result,
   Vr!AddEdge, AddEdge, Vr!DelEdge, DelEdge, Vr!Unlink, Unlink

\* What is left of Closed when the edges of the set C were deleted by hand: the
\* triangles are of stations of the network, and point to edges that are there or
\* were deleted.
ClosedBut(n, C) ==
  /\ \A d \in n.dtrigs : {d[1], d[2], d[3]} \subseteq n.vertexs
  /\ \A d \in n.dtrigs : \A e \in EdgesOf(d) : <<d, e>> \in n.trig_edge /\ e \in n.edges \union C

\* The network is what the lemmas about the builds need and give, but for edges
\* deleted by hand.
NetworkSound == /\ Consistent(dtrig_net)
                /\ NoTwin(dtrig_net.dtrigs)
                /\ dtrig_net.vertexs \subseteq used
                /\ Cardinality(dtrig_net.vertexs) >= 3 => ClosedBut(dtrig_net, cut)

\* Before init_vrs there is nothing.
NothingYet == thread = "off" => /\ stas = {} /\ freed = {} /\ moved = {}
                                /\ \A m \in Srcid : vsta_list[m] = {}

\* A list holds stations that are there, or were.
Listed == \A m \in Srcid : vsta_list[m] \subseteq stas \union freed

\* What find_bsta_trig and find_master_bsta have settled for a station v: it has a
\* triangle of the network n if that has any, the master is a corner of it and has
\* the station in its list.
Placed(v, d, m, n, list) ==
  /\ n.dtrigs = {} => d = None
  /\ n.dtrigs # {} => d \in n.dtrigs
  /\ d = None => m = None
  /\ d # None => d \in Triangle /\ m \in Vr!Corner(d) /\ v \in list[m]

VrsInv == /\ Vr!TypeOK /\ NetworkSound /\ NothingYet /\ Listed
          /\ Vr!MasterKnows /\ Vr!TriangleIsCurrent /\ Vr!Forgotten /\ Vr!CrashExcused

-----------------------------------------------------------------------------
(* Placing a station.                                                      *)

\* The master of a triangle is a station.
LEMMA CornersAreStations == ASSUME NEW d \in Triangle PROVE Vr!Corner(d) \subseteq Srcid
BY DEF Triangle, Vr!Corner

\* find_bsta_trig and find_master_bsta (vrs.c:100-152): the stations V are settled
\* in the network, nothing changes for the others, and lists only grow.
LEMMA PlaceEffect ==
  ASSUME Vr!VrsNames, Vr!TypeOK, NEW n \in Net, NEW V \in SUBSET Vsta, Vr!Place(V, n)
  PROVE  /\ trig' \in [Vsta -> Triangle \union {None}]
         /\ msta' \in [Vsta -> Srcid \union {None}]
         /\ vsta_list' \in [Srcid -> SUBSET Vsta]
         /\ moved' \subseteq Vsta
         /\ \A v \in V : Placed(v, trig'[v], msta'[v], n, vsta_list')
         /\ \A v \in Vsta \ V : trig'[v] = trig[v] /\ msta'[v] = msta[v]
         /\ \A s \in Srcid : vsta_list'[s] = vsta_list[s] \union {v \in V : msta'[v] = s}
         /\ moved' = moved \union {v \in V : msta[v] \notin {None, msta'[v]}}
<1>1. PICK d \in [V -> Vr!Trigs(n)] : \E m \in [V -> Srcid \union {None}] :
        /\ \A v \in V : m[v] \in IF d[v] = None THEN {None} ELSE Vr!Corner(d[v])
        /\ trig' = [v \in Vsta |-> IF v \in V THEN d[v] ELSE trig[v]]
        /\ msta' = [v \in Vsta |-> IF v \in V THEN m[v] ELSE msta[v]]
        /\ vsta_list' = [s \in Srcid |-> vsta_list[s] \union {v \in V : m[v] = s}]
        /\ moved' = moved \union {v \in V : msta[v] \notin {None, m[v]}}
  BY DEF Vr!Place
<1>2. PICK m \in [V -> Srcid \union {None}] :
        /\ \A v \in V : m[v] \in IF d[v] = None THEN {None} ELSE Vr!Corner(d[v])
        /\ trig' = [v \in Vsta |-> IF v \in V THEN d[v] ELSE trig[v]]
        /\ msta' = [v \in Vsta |-> IF v \in V THEN m[v] ELSE msta[v]]
        /\ vsta_list' = [s \in Srcid |-> vsta_list[s] \union {v \in V : m[v] = s}]
        /\ moved' = moved \union {v \in V : msta[v] \notin {None, m[v]}}
  BY <1>1
<1>3. Vr!Trigs(n) \subseteq Triangle \union {None} /\ n.dtrigs \subseteq Triangle
  BY DEF Vr!Trigs, Net
<1>4. /\ trig \in [Vsta -> Triangle \union {None}] /\ msta \in [Vsta -> Srcid \union {None}]
      /\ vsta_list \in [Srcid -> SUBSET Vsta] /\ moved \subseteq Vsta
  BY SameNet DEF Vr!TypeOK
<1>5. ASSUME NEW v \in V
      PROVE  trig'[v] = d[v] /\ msta'[v] = m[v] /\ d[v] \in Vr!Trigs(n)
  BY <1>2
<1>6. ASSUME NEW v \in Vsta \ V
      PROVE  trig'[v] = trig[v] /\ msta'[v] = msta[v]
  BY <1>2
<1>7. trig' \in [Vsta -> Triangle \union {None}]
  BY <1>2, <1>3, <1>4
<1>8. msta' \in [Vsta -> Srcid \union {None}]
  BY <1>2, <1>4
<1>9. {v \in V : m[v] = msta'[v]} = V
  BY <1>5
<1>10. \A s \in Srcid : vsta_list'[s] = vsta_list[s] \union {v \in V : msta'[v] = s}
  BY <1>2, <1>5
<1>11. moved' = moved \union {v \in V : msta[v] \notin {None, msta'[v]}}
  BY <1>2, <1>5
<1>12. vsta_list' \in [Srcid -> SUBSET Vsta] /\ moved' \subseteq Vsta
  BY <1>2, <1>4
<1>13. ASSUME NEW v \in V
       PROVE  Placed(v, trig'[v], msta'[v], n, vsta_list')
  <2>1. trig'[v] \in Vr!Trigs(n)
    BY <1>5
  <2>2. msta'[v] \in IF trig'[v] = None THEN {None} ELSE Vr!Corner(trig'[v])
    BY <1>2, <1>5
  <2>3. CASE n.dtrigs = {}
    <3>1. trig'[v] = None
      BY <2>1, <2>3 DEF Vr!Trigs
    <3> QED BY <2>2, <2>3, <3>1 DEF Placed
  <2>4. CASE n.dtrigs # {}
    <3>1. trig'[v] \in n.dtrigs /\ trig'[v] \in Triangle /\ trig'[v] # None
      BY SameNet, <1>3, <2>1, <2>4 DEF Vr!Trigs, Vr!VrsNames
    <3>2. msta'[v] \in Vr!Corner(trig'[v]) /\ msta'[v] \in Srcid
      BY <2>2, <3>1, CornersAreStations
    <3>3. v \in vsta_list'[msta'[v]]
      BY <1>10, <3>2
    <3> QED BY <2>4, <3>1, <3>2, <3>3 DEF Placed
  <2> QED BY <2>3, <2>4
<1> QED BY <1>6, <1>7, <1>8, <1>10, <1>11, <1>12, <1>13

\* A station that is settled in a network that is sound has what MasterKnows and
\* TriangleIsCurrent promise of it.
LEMMA PlacedWell ==
  ASSUME NEW v, NEW d, NEW m, NEW n, NEW list, Placed(v, d, m, n, list),
         NEW C, Cardinality(n.vertexs) >= 3 => ClosedBut(n, C)
  PROVE  /\ IF d = None THEN m = None ELSE m \in Vr!Corner(d) /\ v \in list[m]
         /\ Cardinality(n.vertexs) >= 3 =>
              IF n.dtrigs = {} THEN d = None ELSE d \in n.dtrigs /\ Vr!Corner(d) \subseteq n.vertexs
<1>1. IF d = None THEN m = None ELSE m \in Vr!Corner(d) /\ v \in list[m]
  BY DEF Placed
<1>2. ASSUME Cardinality(n.vertexs) >= 3, n.dtrigs # {}
      PROVE  d \in n.dtrigs /\ Vr!Corner(d) \subseteq n.vertexs
  <2>1. d \in n.dtrigs
    BY <1>2 DEF Placed
  <2>2. \A x \in n.dtrigs : {x[1], x[2], x[3]} \subseteq n.vertexs
    BY <1>2 DEF ClosedBut
  <2> QED BY <2>1, <2>2 DEF Vr!Corner
<1>3. n.dtrigs = {} => d = None
  BY DEF Placed
<1> QED BY <1>1, <1>2, <1>3

\* What a step that places the stations V, among those of stas', keeps: the
\* stations that it leaves are either not there, or the network is the same.
LEMMA PlaceKeeps ==
  ASSUME Vr!VrsNames, VrsInv, prog = "runs", NEW V \in SUBSET Vsta, Vr!Place(V, dtrig_net'),
         NetworkSound', dtrig_net' \in Net,
         stas \subseteq stas', stas' = stas \union V, freed' = freed,
         dtrig_net' = dtrig_net \/ V = stas,
         thread # "closed"
  PROVE  Vr!MasterKnows' /\ Vr!TriangleIsCurrent' /\ Vr!Forgotten' /\ Listed'
<1>1. /\ trig' \in [Vsta -> Triangle \union {None}]
      /\ msta' \in [Vsta -> Srcid \union {None}]
      /\ \A v \in V : Placed(v, trig'[v], msta'[v], dtrig_net', vsta_list')
      /\ \A v \in Vsta \ V : trig'[v] = trig[v] /\ msta'[v] = msta[v]
      /\ \A s \in Srcid : vsta_list'[s] = vsta_list[s] \union {v \in V : msta'[v] = s}
      /\ moved' = moved \union {v \in V : msta[v] \notin {None, msta'[v]}}
  BY PlaceEffect DEF VrsInv
<1>2. Cardinality(dtrig_net'.vertexs) >= 3 => ClosedBut(dtrig_net', cut')
  BY DEF NetworkSound
<1>3. stas \subseteq Vsta /\ \A s \in Srcid : vsta_list[s] \subseteq Vsta
  BY DEF VrsInv, Vr!TypeOK
<1>4. ASSUME NEW v \in V
      PROVE  /\ IF trig'[v] = None THEN msta'[v] = None
                ELSE msta'[v] \in Vr!Corner(trig'[v]) /\ v \in vsta_list'[msta'[v]]
             /\ Cardinality(dtrig_net'.vertexs) >= 3 =>
                  IF dtrig_net'.dtrigs = {} THEN trig'[v] = None
                  ELSE trig'[v] \in dtrig_net'.dtrigs /\ Vr!Corner(trig'[v]) \subseteq dtrig_net'.vertexs
  BY <1>1, <1>2, <1>4, PlacedWell
<1>5. ASSUME NEW v \in stas \ V
      PROVE  /\ trig'[v] = trig[v] /\ msta'[v] = msta[v] /\ dtrig_net' = dtrig_net
             /\ IF trig[v] = None THEN msta[v] = None
                ELSE /\ msta[v] \in Vr!Corner(trig[v]) /\ v \in vsta_list[msta[v]]
                     /\ msta[v] \in Srcid
  <2>1. trig'[v] = trig[v] /\ msta'[v] = msta[v] /\ dtrig_net' = dtrig_net
    BY <1>1, <1>3, <1>5
  <2>2. trig[v] \in Triangle \union {None}
    BY SameNet, <1>3, <1>5 DEF VrsInv, Vr!TypeOK
  <2>3. IF trig[v] = None THEN msta[v] = None
        ELSE msta[v] \in Vr!Corner(trig[v]) /\ v \in vsta_list[msta[v]]
    BY <1>5 DEF VrsInv, Vr!MasterKnows
  <2>4. trig[v] # None => Vr!Corner(trig[v]) \subseteq Srcid
    BY <2>2, CornersAreStations
  <2> QED BY <2>1, <2>3, <2>4
<1>6. Vr!MasterKnows'
  <2> SUFFICES ASSUME NEW v \in stas'
               PROVE  IF trig'[v] = None THEN msta'[v] = None
                      ELSE msta'[v] \in Vr!Corner(trig'[v]) /\ v \in vsta_list'[msta'[v]]
    BY DEF Vr!MasterKnows
  <2>1. CASE v \in V
    BY <1>4, <2>1
  <2>2. CASE v \in stas \ V
    BY <1>1, <1>5, <2>2
  <2> QED BY <2>1, <2>2
<1>7. Vr!TriangleIsCurrent'
  <2> SUFFICES ASSUME Cardinality(dtrig_net'.vertexs) >= 3, NEW v \in stas'
               PROVE  IF dtrig_net'.dtrigs = {} THEN trig'[v] = None
                      ELSE trig'[v] \in dtrig_net'.dtrigs /\ Vr!Corner(trig'[v]) \subseteq dtrig_net'.vertexs
    BY SameSize DEF Vr!TriangleIsCurrent
  <2>1. CASE v \in V
    BY <1>4, <2>1
  <2>2. CASE v \in stas \ V
    BY SameSize, <1>5, <2>2 DEF VrsInv, Vr!TriangleIsCurrent
  <2> QED BY <2>1, <2>2
<1>8. Vr!Forgotten'
  <2> SUFFICES ASSUME NEW m \in Srcid, NEW v \in vsta_list'[m] \ moved'
               PROVE  v \in stas' /\ msta'[v] = m
    BY DEF Vr!Forgotten
  <2>1. CASE v \in vsta_list[m]
    <3>1. v \in stas /\ msta[v] = m /\ v \in Vsta
      BY <1>1, <1>3, <2>1 DEF VrsInv, Vr!Forgotten
    <3>2. m # None
      BY DEF Vr!VrsNames
    <3> QED BY <1>1, <3>1, <3>2
  <2>2. CASE v \notin vsta_list[m]
    BY <1>1, <2>2
  <2> QED BY <2>1, <2>2
<1>9. Listed'
  BY <1>1 DEF VrsInv, Listed
<1> QED BY <1>6, <1>7, <1>8, <1>9

-----------------------------------------------------------------------------
(* The invariant.                                                          *)

\* Before the first station.
LEMMA InitVrsInv == Vr!Init => VrsInv
<1> SUFFICES ASSUME Vr!Init PROVE VrsInv
  OBVIOUS
<1>1. EmptyNet \in Net /\ EmptyNet.vertexs = {} /\ EmptyNet.edges = {} /\ EmptyNet.dtrigs = {}
      /\ \A s \in Srcid : EmptyNet.vt_list[s] = {} /\ EmptyNet.edge_list[s] = {}
  BY DEF EmptyNet, Net
<1>2. Vr!TypeOK
  BY SameNet, <1>1 DEF Vr!Init, Vr!TypeOK
<1>3. ~(Cardinality({}) >= 3)
  BY FS_EmptySet
<1>4. NetworkSound
  BY SameNet, <1>1, <1>3 DEF Vr!Init, NetworkSound, Consistent, NoTwin
<1>5. NothingYet /\ Listed /\ Vr!MasterKnows /\ Vr!Forgotten /\ Vr!CrashExcused
  BY DEF Vr!Init, NothingYet, Listed, Vr!MasterKnows, Vr!Forgotten, Vr!CrashExcused
<1>6. Vr!TriangleIsCurrent
  BY DEF Vr!Init, Vr!TriangleIsCurrent
<1> QED BY <1>2, <1>4, <1>5, <1>6 DEF VrsInv

\* What leaves the stations, their places and the network alone keeps what is said
\* of them.
LEMMA PlacesUnchanged ==
  ASSUME VrsInv, prog = "runs", UNCHANGED <<Vr!net, Vr!place, Vr!vstas>>,
         thread' # "closed" => thread # "closed", thread' = "off" => thread = "off"
  PROVE  (NetworkSound /\ NothingYet /\ Listed /\ Vr!MasterKnows /\ Vr!TriangleIsCurrent /\ Vr!Forgotten)'
<1>1. /\ dtrig_net' = dtrig_net /\ used' = used /\ cut' = cut /\ stas' = stas /\ freed' = freed
      /\ trig' = trig /\ msta' = msta /\ vsta_list' = vsta_list /\ moved' = moved
  BY DEF Vr!net, Vr!place, Vr!vstas
<1>2. NetworkSound'
  BY <1>1 DEF VrsInv, NetworkSound
<1>3. NothingYet' /\ Listed'
  BY <1>1 DEF VrsInv, NothingYet, Listed
<1>4. Vr!MasterKnows' /\ Vr!TriangleIsCurrent'
  BY <1>1 DEF VrsInv, Vr!MasterKnows, Vr!TriangleIsCurrent
<1>5. Vr!Forgotten'
  BY <1>1 DEF VrsInv, Vr!Forgotten
<1> QED BY <1>2, <1>3, <1>4, <1>5

\* init_vrs, with the stations of the file.
LEMMA InitVrsStep ==
  ASSUME Vr!VrsNames, VrsInv, prog = "runs", NEW V \in SUBSET Vsta, Vr!InitVrs(V)
  PROVE  VrsInv'
<1>1. /\ thread = "off" /\ thread' = "init" /\ stas' = V /\ Vr!Place(V, dtrig_net)
      /\ dtrig_net' = dtrig_net /\ used' = used /\ cut' = cut /\ added' = added /\ freed' = freed
      /\ upd_queue' = upd_queue /\ work' = work
      /\ prog' \in {"runs", "crashed"}
  BY DEF Vr!InitVrs, Vr!net, Vr!queue
<1>2. /\ stas = {} /\ freed = {} /\ dtrig_net \in Net
  BY SameNet, <1>1 DEF VrsInv, NothingYet, Vr!TypeOK
<1>3. NetworkSound'
  BY <1>1 DEF VrsInv, NetworkSound
<1>4. Vr!Place(V, dtrig_net')
  BY <1>1
<1>5. Vr!MasterKnows' /\ Vr!TriangleIsCurrent' /\ Vr!Forgotten' /\ Listed'
  BY <1>1, <1>2, <1>3, <1>4, PlaceKeeps
<1>6. Vr!TypeOK'
  BY SameNet, <1>1, <1>2, PlaceEffect DEF VrsInv, Vr!TypeOK
<1>7. NothingYet' /\ Vr!CrashExcused'
  BY <1>1 DEF NothingYet, Vr!CrashExcused
<1> QED BY <1>3, <1>5, <1>6, <1>7 DEF VrsInv

\* vrs_thread makes its handles.
LEMMA BootStep == ASSUME VrsInv, prog = "runs", Vr!Boot PROVE VrsInv'
<1>1. /\ thread = "init" /\ thread' = "up" /\ UNCHANGED <<Vr!net, Vr!place, Vr!vstas>>
      /\ upd_queue' = upd_queue /\ work' = work /\ prog' = prog
  BY DEF Vr!Boot, Vr!queue
<1>2. (NetworkSound /\ NothingYet /\ Listed /\ Vr!MasterKnows /\ Vr!TriangleIsCurrent /\ Vr!Forgotten)'
  BY <1>1, PlacesUnchanged
<1>3. Vr!TypeOK' /\ Vr!CrashExcused'
  BY <1>1 DEF VrsInv, Vr!TypeOK, Vr!CrashExcused, Vr!net, Vr!place, Vr!vstas
<1> QED BY <1>2, <1>3 DEF VrsInv

\* cors_vrs_close frees the stations that are left.
LEMMA CloseStep == ASSUME VrsInv, prog = "runs", Vr!Close PROVE VrsInv'
<1>1. CASE thread = "init"
  <2>1. /\ thread' = "init" /\ UNCHANGED <<Vr!net, Vr!place, Vr!vstas>> /\ prog' = "crashed"
        /\ upd_queue' = upd_queue /\ work' = work
    BY <1>1 DEF Vr!Close, Vr!Crash, Vr!queue
  <2>2. (NetworkSound /\ NothingYet /\ Listed /\ Vr!MasterKnows /\ Vr!TriangleIsCurrent /\ Vr!Forgotten)'
    BY <1>1, <2>1, PlacesUnchanged
  <2>3. Vr!TypeOK' /\ Vr!CrashExcused'
    BY <1>1, <2>1 DEF VrsInv, Vr!TypeOK, Vr!CrashExcused, Vr!net, Vr!place, Vr!vstas
  <2> QED BY <2>2, <2>3 DEF VrsInv
<1>2. CASE thread # "init"
  <2>1. /\ thread' = "closed" /\ freed' = freed \union stas /\ stas' = {}
        /\ dtrig_net' = dtrig_net /\ used' = used /\ cut' = cut /\ added' = added
        /\ trig' = trig /\ msta' = msta
        /\ vsta_list' = vsta_list /\ moved' = moved
        /\ upd_queue' = upd_queue /\ work' = work /\ prog' = prog
    BY <1>2 DEF Vr!Close, Vr!net, Vr!place, Vr!queue
  <2>2. NetworkSound'
    BY <2>1 DEF VrsInv, NetworkSound
  <2>3. NothingYet' /\ Listed' /\ Vr!MasterKnows' /\ Vr!TriangleIsCurrent' /\ Vr!Forgotten'
    BY <2>1 DEF VrsInv, NothingYet, Listed, Vr!MasterKnows, Vr!TriangleIsCurrent, Vr!Forgotten
  <2>4. Vr!TypeOK' /\ Vr!CrashExcused'
    BY <2>1 DEF VrsInv, Vr!TypeOK, Vr!CrashExcused
  <2> QED BY <2>2, <2>3, <2>4 DEF VrsInv
<1> QED BY <1>1, <1>2

\* A network that add_vertex or del_vertex has built, or left as it was.
LEMMA SoundAfter ==
  ASSUME VrsInv, NEW V, NEW r, NetStep(dtrig_net, V, r) \/ NoStep(dtrig_net, r),
         dtrig_net' = r.net, Vr!Mended(r.net),
         V \subseteq used', used \subseteq used'
  PROVE  dtrig_net' \in Net /\ NetworkSound' /\ (cut \subseteq Edge)' /\ (added \subseteq Edge)'
<1>1. cut \subseteq Edge /\ added \subseteq Edge
  BY DEF VrsInv, Vr!TypeOK, Vr!Edge, Edge
<1>2. cut' \subseteq Edge /\ added' \subseteq Edge
  BY <1>1 DEF Vr!Mended
<1>3. CASE NetStep(dtrig_net, V, r)
  <2>1. Consistent(r.net) /\ NoTwin(r.net.dtrigs) /\ r.net.vertexs = V
        /\ (Cardinality(V) >= 3 => Closed(r.net))
    BY <1>3 DEF NetStep
  <2>2. Closed(r.net) => ClosedBut(r.net, cut')
    BY DEF Closed, ClosedBut
  <2> QED BY <1>2, <2>1, <2>2 DEF NetworkSound, Consistent
<1>4. CASE NoStep(dtrig_net, r)
  <2>1. dtrig_net' = dtrig_net /\ cut' = cut
    BY <1>4 DEF NoStep, Vr!Mended
  <2> QED BY <1>2, <2>1 DEF VrsInv, NetworkSound, Consistent
<1> QED BY <1>3, <1>4

\* A step of the nrtk thread after which the stations are placed again.
LEMMA PlacedAgain ==
  ASSUME Vr!VrsNames, VrsInv, prog = "runs", thread # "closed",
         dtrig_net' \in Net, NetworkSound', (cut \subseteq Edge)', (added \subseteq Edge)',
         used' \subseteq Srcid, Vr!Place(stas, dtrig_net'),
         thread' = thread, stas' = stas, freed' = freed,
         upd_queue' = upd_queue, work' = work, prog' = prog,
         thread' = "off" => stas = {}
  PROVE  VrsInv'
<1>1. stas \in SUBSET Vsta
  BY DEF VrsInv, Vr!TypeOK
<1>2. Vr!MasterKnows' /\ Vr!TriangleIsCurrent' /\ Vr!Forgotten' /\ Listed'
  BY <1>1, PlaceKeeps
<1>3. /\ trig' \in [Vsta -> Triangle \union {None}]
      /\ msta' \in [Vsta -> Srcid \union {None}]
      /\ vsta_list' \in [Srcid -> SUBSET Vsta]
      /\ moved' \subseteq Vsta
      /\ \A s \in Srcid : vsta_list'[s] = vsta_list[s] \union {v \in stas : msta'[v] = s}
      /\ moved' = moved \union {v \in stas : msta[v] \notin {None, msta'[v]}}
  BY <1>1, PlaceEffect DEF VrsInv
<1>4. Vr!Edge = Edge
  BY DEF Vr!Edge, Edge
<1>5. Vr!TypeOK'
  BY SameNet, <1>3, <1>4 DEF VrsInv, Vr!TypeOK
<1>6. NothingYet'
  BY <1>3 DEF VrsInv, NothingYet
<1>7. Vr!CrashExcused'
  BY DEF Vr!CrashExcused
<1> QED BY <1>2, <1>5, <1>6, <1>7 DEF VrsInv

\* nrtk_add_source.
LEMMA AddSourceStep ==
  ASSUME Vr!VrsNames, VrsInv, prog = "runs", NEW s \in Srcid, Vr!AddSource(s)
  PROVE  VrsInv'
<1>1. /\ thread # "closed" /\ s \notin used /\ used' = used \union {s}
      /\ thread' = thread /\ stas' = stas /\ freed' = freed
      /\ upd_queue' = upd_queue /\ work' = work /\ prog' = prog
  BY DEF Vr!AddSource, Vr!Fresh, Vr!vstas, Vr!queue
<1>2. PICK r \in AddVertex(dtrig_net, s) :
        dtrig_net' = r.net /\ Vr!Mended(r.net) /\ Vr!Place(stas, r.net)
  BY SameOperations DEF Vr!AddSource
<1>3. /\ Consistent(dtrig_net) /\ NoTwin(dtrig_net.dtrigs)
      /\ dtrig_net.vertexs \subseteq used /\ used \subseteq Srcid
      /\ thread = "off" => stas = {}
  BY DEF VrsInv, NetworkSound, NothingYet, Vr!TypeOK
<1>4. NoStep(dtrig_net, r) \/ NetStep(dtrig_net, dtrig_net.vertexs \union {s}, r)
  BY <1>1, <1>3, AddVertexStep
<1>5. dtrig_net' \in Net /\ NetworkSound' /\ (cut \subseteq Edge)' /\ (added \subseteq Edge)'
  BY <1>1, <1>2, <1>3, <1>4, SoundAfter
<1> QED BY <1>1, <1>2, <1>3, <1>5, PlacedAgain

\* nrtk_del_source.
LEMMA DelSourceStep ==
  ASSUME Vr!VrsNames, VrsInv, prog = "runs", NEW s \in Srcid, Vr!DelSource(s)
  PROVE  VrsInv'
<1>1. /\ thread \notin {"off", "closed"} /\ s \in dtrig_net.vertexs /\ used' = used
      /\ thread' = thread /\ stas' = stas /\ freed' = freed
      /\ upd_queue' = upd_queue /\ work' = work /\ prog' = prog
  BY DEF Vr!DelSource, Vr!vstas, Vr!queue
<1>2. PICK r \in DelVertex(dtrig_net, s) :
        dtrig_net' = r.net /\ Vr!Mended(r.net) /\ Vr!Place(stas, r.net)
  BY SameOperations DEF Vr!DelSource
<1>3. /\ Consistent(dtrig_net) /\ NoTwin(dtrig_net.dtrigs)
      /\ dtrig_net.vertexs \subseteq used /\ used \subseteq Srcid
  BY DEF VrsInv, NetworkSound, Vr!TypeOK
<1>4. NetStep(dtrig_net, dtrig_net.vertexs \ {s}, r)
  BY <1>1, <1>3, DelVertexStep
<1>5. dtrig_net' \in Net /\ NetworkSound' /\ (cut \subseteq Edge)' /\ (added \subseteq Edge)'
  BY <1>1, <1>2, <1>3, <1>4, SoundAfter
<1> QED BY <1>1, <1>2, <1>3, <1>5, PlacedAgain

\* nrtk_add_bl and nrtk_del_bl: what a triangle points to is there, or was deleted.
LEMMA EdgeStep ==
  ASSUME VrsInv, prog = "runs", NEW n, Consistent(n), SameRest(n, dtrig_net), Vr!ByHand(n)
  PROVE  VrsInv'
<1>1. /\ thread \notin {"off", "closed"} /\ dtrig_net' = n
      /\ cut' = cut \union (dtrig_net.edges \ n.edges)
      /\ added' = added \union (n.edges \ dtrig_net.edges)
      /\ thread' = thread /\ used' = used /\ stas' = stas /\ freed' = freed
      /\ trig' = trig /\ msta' = msta /\ vsta_list' = vsta_list /\ moved' = moved
      /\ upd_queue' = upd_queue /\ work' = work /\ prog' = prog
  BY DEF Vr!ByHand, Vr!vstas, Vr!place, Vr!queue
<1>2. /\ dtrig_net \in Net /\ n \in Net /\ Vr!Edge = Edge
      /\ n.vertexs = dtrig_net.vertexs /\ n.dtrigs = dtrig_net.dtrigs
      /\ n.trig_edge = dtrig_net.trig_edge
  BY SameNet DEF VrsInv, Vr!TypeOK, SameRest, Consistent, Vr!Edge, Edge
<1>3. dtrig_net.edges \subseteq Edge /\ n.edges \subseteq Edge
  BY <1>2 DEF Net
<1>4. ClosedBut(dtrig_net, cut) => ClosedBut(n, cut')
  <2>1. dtrig_net.edges \union cut \subseteq n.edges \union cut'
    BY <1>1
  <2> QED BY <1>2, <2>1 DEF ClosedBut
<1>5. NetworkSound'
  BY <1>1, <1>2, <1>4 DEF VrsInv, NetworkSound
<1>6. Vr!TypeOK'
  BY SameNet, <1>1, <1>2, <1>3 DEF VrsInv, Vr!TypeOK
<1>7. NothingYet' /\ Listed' /\ Vr!MasterKnows' /\ Vr!Forgotten' /\ Vr!CrashExcused'
  BY <1>1 DEF VrsInv, NothingYet, Listed, Vr!MasterKnows, Vr!Forgotten, Vr!CrashExcused
<1>8. Vr!TriangleIsCurrent'
  BY SameSize, <1>1, <1>2 DEF VrsInv, Vr!TriangleIsCurrent
<1> QED BY <1>5, <1>6, <1>7, <1>8 DEF VrsInv

LEMMA ByHandStep ==
  ASSUME VrsInv, prog = "runs", NEW e \in Manual, Vr!AddBl(e) \/ Vr!DelBl(e)
  PROVE  VrsInv'
<1>1. e[1] \in Srcid /\ e[2] \in Srcid /\ e[1] # e[2]
  BY NrtkSyncAssumption DEF Edge
<1>2. Consistent(dtrig_net)
  BY DEF VrsInv, NetworkSound
<1>3. Vr!ByHand(AddEdge(dtrig_net, e[1], e[2])) \/ Vr!ByHand(DelEdge(dtrig_net, e[1], e[2]))
  BY SameOperations DEF Vr!AddBl, Vr!DelBl
<1>4. CASE Vr!ByHand(AddEdge(dtrig_net, e[1], e[2]))
  BY <1>1, <1>2, <1>4, AddEdgeStep, EdgeStep
<1>5. CASE Vr!ByHand(DelEdge(dtrig_net, e[1], e[2]))
  BY <1>1, <1>2, <1>5, DelEdgeStep, EdgeStep
<1> QED BY <1>3, <1>4, <1>5

\* vrs_add_vsta.
LEMMA AddVstaStep ==
  ASSUME Vr!VrsNames, VrsInv, prog = "runs", NEW v \in Vsta, Vr!AddVsta(v)
  PROVE  VrsInv'
<1>1. /\ thread # "closed" /\ v \notin stas \union freed /\ thread' = thread
      /\ dtrig_net' = dtrig_net /\ used' = used /\ cut' = cut /\ added' = added /\ freed' = freed
      /\ upd_queue' = upd_queue /\ work' = work
  BY DEF Vr!AddVsta, Vr!net, Vr!queue
<1>2. CASE thread = "off"
  <2>1. UNCHANGED <<Vr!net, Vr!place, Vr!vstas>> /\ prog' = "crashed"
    BY <1>1, <1>2 DEF Vr!AddVsta, Vr!Crash, Vr!net, Vr!vstas
  <2>2. (NetworkSound /\ NothingYet /\ Listed /\ Vr!MasterKnows /\ Vr!TriangleIsCurrent /\ Vr!Forgotten)'
    BY <1>1, <2>1, PlacesUnchanged
  <2>3. Vr!TypeOK' /\ Vr!CrashExcused'
    BY <1>1, <1>2, <2>1 DEF VrsInv, Vr!TypeOK, Vr!CrashExcused, Vr!net, Vr!place, Vr!vstas
  <2> QED BY <2>2, <2>3 DEF VrsInv
<1>3. CASE thread # "off"
  <2>1. /\ stas' = stas \union {v} /\ Vr!Place({v}, dtrig_net)
        /\ prog' = IF trig'[v] = None THEN "crashed" ELSE prog
    BY <1>3 DEF Vr!AddVsta
  <2>2. dtrig_net \in Net /\ {v} \in SUBSET Vsta
    BY SameNet DEF VrsInv, Vr!TypeOK
  <2>3. NetworkSound'
    BY <1>1 DEF VrsInv, NetworkSound
  <2>4. Vr!MasterKnows' /\ Vr!TriangleIsCurrent' /\ Vr!Forgotten' /\ Listed'
    BY <1>1, <2>1, <2>2, <2>3, PlaceKeeps
  <2>5. Vr!TypeOK'
    BY SameNet, <1>1, <2>1, <2>2, PlaceEffect DEF VrsInv, Vr!TypeOK
  <2>6. NothingYet' /\ Vr!CrashExcused'
    BY <1>1, <1>3, <2>1 DEF NothingYet, Vr!CrashExcused
  <2> QED BY <2>3, <2>4, <2>5, <2>6 DEF VrsInv
<1> QED BY <1>2, <1>3

\* vrs_del_vsta.
LEMMA DelVstaStep ==
  ASSUME Vr!VrsNames, VrsInv, prog = "runs", NEW v \in Vsta, Vr!DelVsta(v)
  PROVE  VrsInv'
<1>1. /\ thread # "closed" /\ v \in stas /\ thread' = thread
      /\ dtrig_net' = dtrig_net /\ used' = used /\ cut' = cut /\ added' = added
      /\ trig' = trig /\ msta' = msta
      /\ moved' = moved /\ upd_queue' = upd_queue /\ work' = work
  BY DEF Vr!DelVsta, Vr!net, Vr!queue
<1>2. CASE trig[v] = None
  <2>1. UNCHANGED <<Vr!net, Vr!place, Vr!vstas>> /\ prog' = "crashed"
    BY <1>1, <1>2 DEF Vr!DelVsta, Vr!Crash, Vr!net, Vr!vstas, Vr!place
  <2>2. (NetworkSound /\ NothingYet /\ Listed /\ Vr!MasterKnows /\ Vr!TriangleIsCurrent /\ Vr!Forgotten)'
    BY <1>1, <2>1, PlacesUnchanged
  <2>3. Vr!TypeOK' /\ Vr!CrashExcused'
    BY <1>1, <1>2, <2>1 DEF VrsInv, Vr!TypeOK, Vr!CrashExcused, Vr!net, Vr!place, Vr!vstas
  <2> QED BY <2>2, <2>3 DEF VrsInv
<1>3. CASE trig[v] # None
  <2>1. /\ stas' = stas \ {v} /\ freed' = freed \union {v}
        /\ vsta_list' = [vsta_list EXCEPT ![msta[v]] = @ \ {v}]
        /\ prog' = prog
    BY <1>3 DEF Vr!DelVsta
  <2>2. /\ trig[v] \in Triangle /\ msta[v] \in Vr!Corner(trig[v])
        /\ vsta_list \in [Srcid -> SUBSET Vsta]
        /\ stas \subseteq Vsta /\ freed \subseteq Vsta /\ stas \intersect freed = {}
    BY SameNet, <1>1, <1>3 DEF VrsInv, Vr!TypeOK, Vr!MasterKnows
  <2>3. msta[v] \in Srcid
    BY <2>2, CornersAreStations
  <2>4. /\ vsta_list' \in [Srcid -> SUBSET Vsta]
        /\ \A m \in Srcid : vsta_list'[m] \subseteq vsta_list[m]
        /\ \A m \in Srcid : \A w \in vsta_list[m] : w # v => w \in vsta_list'[m]
        /\ v \notin vsta_list'[msta[v]]
    BY <2>1, <2>2, <2>3
  <2>5. NetworkSound'
    BY <1>1 DEF VrsInv, NetworkSound
  <2>6. Vr!TypeOK'
    BY <1>1, <2>1, <2>2, <2>4 DEF VrsInv, Vr!TypeOK
  <2>7. NothingYet'
    BY <1>1 DEF VrsInv, NothingYet
  <2>8. Listed'
    BY <2>1, <2>4 DEF VrsInv, Listed
  <2>9. Vr!MasterKnows'
    <3> SUFFICES ASSUME NEW w \in stas'
                 PROVE  IF trig[w] = None THEN msta[w] = None
                        ELSE msta[w] \in Vr!Corner(trig[w]) /\ w \in vsta_list'[msta[w]]
      BY <1>1 DEF Vr!MasterKnows
    <3>1. w \in stas /\ w # v /\ trig[w] \in Triangle \union {None}
      BY SameNet, <2>1, <2>2 DEF VrsInv, Vr!TypeOK
    <3>2. IF trig[w] = None THEN msta[w] = None
          ELSE msta[w] \in Vr!Corner(trig[w]) /\ w \in vsta_list[msta[w]]
      BY <3>1 DEF VrsInv, Vr!MasterKnows
    <3>3. trig[w] # None => Vr!Corner(trig[w]) \subseteq Srcid
      BY <3>1, CornersAreStations
    <3> QED BY <2>4, <3>1, <3>2, <3>3
  <2>10. Vr!TriangleIsCurrent'
    BY <1>1, <2>1 DEF VrsInv, Vr!TriangleIsCurrent
  <2>11. Vr!Forgotten'
    <3> SUFFICES ASSUME NEW m \in Srcid, NEW w \in vsta_list'[m] \ moved
                 PROVE  w \in stas' /\ msta[w] = m
      BY <1>1 DEF Vr!Forgotten
    <3>1. w \in stas /\ msta[w] = m
      BY <1>1, <2>4 DEF VrsInv, Vr!Forgotten
    <3>2. w # v
      BY <2>4, <3>1
    <3> QED BY <2>1, <3>1, <3>2
  <2>12. Vr!CrashExcused'
    BY <2>1 DEF Vr!CrashExcused
  <2> QED BY <2>5, <2>6, <2>7, <2>8, <2>9, <2>10, <2>11, <2>12 DEF VrsInv
<1> QED BY <1>2, <1>3

\* A finite set written as a sequence is a sequence of its members.
LEMMA Ordered ==
  ASSUME NEW S, IsFiniteSet(S), NEW s \in Vr!SetToSeqs(S)
  PROVE  s \in Seq(S)
<1>1. Cardinality(S) \in Nat
  BY FS_CardinalityType
<1>2. s \in [1 .. Cardinality(S) -> S]
  BY SameSize DEF Vr!SetToSeqs
<1> QED BY <1>1, <1>2

\* An epoch of the master m.  A station in its list that was deleted was moved
\* before, or it would not be in the list, and one without a triangle is one that
\* is there.
LEMMA EpochStep ==
  ASSUME Vr!VrsNames, VrsInv, prog = "runs", NEW m \in Srcid, Vr!Epoch(m)
  PROVE  VrsInv'
<1> DEFINE V    == vsta_list[m]
           bad  == {v \in V : v \in freed \/ trig[v] = None}
           at   == {v \in V \ bad : m \in Vr!Corner(trig[v])}
           both == {v \in at : Vr!BothEdges(trig[v], m)}
<1>1. thread # "closed" /\ UNCHANGED <<thread, Vr!net, Vr!vstas, Vr!place, work>>
  BY DEF Vr!Epoch
<1>2. (NetworkSound /\ NothingYet /\ Listed /\ Vr!MasterKnows /\ Vr!TriangleIsCurrent /\ Vr!Forgotten)'
  BY <1>1, PlacesUnchanged
<1>3. /\ V \subseteq Vsta /\ V \subseteq stas \union freed
      /\ \A v \in V \ moved : v \in stas /\ msta[v] = m
      /\ stas \intersect freed = {}
  BY <1>1 DEF VrsInv, Vr!TypeOK, Listed, Vr!Forgotten
<1>4. CASE bad # {}
  <2>1. prog' = "crashed" /\ upd_queue' = upd_queue
    BY <1>4 DEF Vr!Epoch, Vr!Crash
  <2>2. PICK v \in bad : TRUE
    BY <1>4
  <2>3. CASE v \in freed
    <3>1. v \in vsta_list[m] \intersect freed \intersect moved
      BY <1>3, <2>2, <2>3
    <3>2. \E x \in Srcid : vsta_list'[x] \intersect freed' \intersect moved' # {}
      BY <1>1, <3>1 DEF Vr!place, Vr!vstas
    <3>3. Vr!CrashExcused'
      BY <3>2 DEF Vr!CrashExcused
    <3>4. Vr!TypeOK'
      BY <1>1, <2>1 DEF VrsInv, Vr!TypeOK, Vr!net, Vr!place, Vr!vstas
    <3> QED BY <1>2, <3>3, <3>4 DEF VrsInv
  <2>4. CASE v \notin freed
    <3>1. v \in stas /\ trig[v] = None
      BY <1>3, <2>2, <2>4
    <3>2. \E x \in stas' : trig'[x] = None
      BY <1>1, <3>1 DEF Vr!place, Vr!vstas
    <3>3. Vr!CrashExcused'
      BY <3>2 DEF Vr!CrashExcused
    <3>4. Vr!TypeOK'
      BY <1>1, <2>1 DEF VrsInv, Vr!TypeOK, Vr!net, Vr!place, Vr!vstas
    <3> QED BY <1>2, <3>3, <3>4 DEF VrsInv
  <2> QED BY <2>3, <2>4
<1>5. CASE bad = {}
  <2>1. PICK none \in SUBSET (at \ both) : \E two \in SUBSET none :
          \E s \in Vr!SetToSeqs(both \union none) :
          /\ upd_queue' = upd_queue \o [i \in DOMAIN s |->
               [vsta |-> s[i], msta |-> m,
                along |-> IF s[i] \in both \union two THEN "both" ELSE "nothing"]]
          /\ prog' = IF s # <<>> /\ thread # "up" THEN "crashed" ELSE prog
    BY <1>5 DEF Vr!Epoch
  <2>2. PICK two \in SUBSET none, s \in Vr!SetToSeqs(both \union none) :
          /\ upd_queue' = upd_queue \o [i \in DOMAIN s |->
               [vsta |-> s[i], msta |-> m,
                along |-> IF s[i] \in both \union two THEN "both" ELSE "nothing"]]
          /\ prog' = IF s # <<>> /\ thread # "up" THEN "crashed" ELSE prog
    BY <2>1
  <2>3. both \union none \subseteq Vsta
    BY <1>3
  <2>4. IsFiniteSet(both \union none)
    BY SameSize, <2>3, FS_Subset DEF Vr!VrsNames
  <2>5. s \in Seq(both \union none)
    BY <2>4, Ordered
  <2> DEFINE new == [i \in DOMAIN s |->
               [vsta |-> s[i], msta |-> m,
                along |-> IF s[i] \in both \union two THEN "both" ELSE "nothing"]]
  <2>6. DOMAIN s = 1 .. Len(s) /\ Len(s) \in Nat /\ \A i \in DOMAIN s : s[i] \in Vsta
    BY <2>3, <2>5
  <2> HIDE DEF both
  <2>7. \A i \in DOMAIN s : new[i] \in Vr!Task
    BY <2>6 DEF Vr!Task
  <2>8. new \in Seq(Vr!Task)
    BY <2>6, <2>7
  <2> HIDE DEF new
  <2>9. upd_queue' \in Seq(Vr!Task)
    BY <2>2, <2>8 DEF VrsInv, Vr!TypeOK, new
  <2>10. Vr!TypeOK'
    BY <1>1, <2>2, <2>9 DEF VrsInv, Vr!TypeOK, Vr!net, Vr!place, Vr!vstas
  <2>11. Vr!CrashExcused'
    BY <1>1, <2>2 DEF VrsInv, Vr!TypeOK, Vr!CrashExcused
  <2> QED BY <1>2, <2>10, <2>11 DEF VrsInv
<1> QED BY <1>4, <1>5

\* The vrs thread takes an update.
LEMMA TakeStep == ASSUME VrsInv, prog = "runs", Vr!Take PROVE VrsInv'
<1>1. /\ UNCHANGED <<Vr!net, Vr!place, Vr!vstas>> /\ thread' = thread /\ prog' = prog
      /\ upd_queue # <<>> /\ work' = <<Head(upd_queue)>> /\ upd_queue' = Tail(upd_queue)
  BY DEF Vr!Take
<1>2. (NetworkSound /\ NothingYet /\ Listed /\ Vr!MasterKnows /\ Vr!TriangleIsCurrent /\ Vr!Forgotten)'
  BY <1>1, PlacesUnchanged
<1>3. Head(upd_queue) \in Vr!Task /\ Tail(upd_queue) \in Seq(Vr!Task)
  BY <1>1 DEF VrsInv, Vr!TypeOK
<1>4. Vr!TypeOK' /\ Vr!CrashExcused'
  BY <1>1, <1>3 DEF VrsInv, Vr!TypeOK, Vr!CrashExcused, Vr!net, Vr!place, Vr!vstas
<1> QED BY <1>2, <1>4 DEF VrsInv

\* do_upd_vrs_work.
LEMMA WorkStep == ASSUME VrsInv, prog = "runs", Vr!Work PROVE VrsInv'
<1>1. /\ UNCHANGED <<Vr!net, Vr!place, Vr!vstas>> /\ thread' = thread /\ upd_queue' = upd_queue
      /\ work # <<>>
  BY DEF Vr!Work
<1>2. (NetworkSound /\ NothingYet /\ Listed /\ Vr!MasterKnows /\ Vr!TriangleIsCurrent /\ Vr!Forgotten)'
  BY <1>1, PlacesUnchanged
<1>3. CASE work[1].vsta \in freed
  <2>1. work' = work /\ prog' = "crashed"
    BY <1>3 DEF Vr!Work, Vr!Crash
  <2>2. Vr!TypeOK' /\ Vr!CrashExcused'
    BY <1>1, <1>3, <2>1 DEF VrsInv, Vr!TypeOK, Vr!CrashExcused, Vr!net, Vr!place, Vr!vstas
  <2> QED BY <1>2, <2>2 DEF VrsInv
<1>4. CASE work[1].vsta \notin freed
  <2>1. work' = <<>> /\ prog' = prog
    BY <1>4 DEF Vr!Work
  <2>2. Vr!TypeOK' /\ Vr!CrashExcused'
    BY <1>1, <2>1 DEF VrsInv, Vr!TypeOK, Vr!CrashExcused, Vr!net, Vr!place, Vr!vstas
  <2> QED BY <1>2, <2>2 DEF VrsInv
<1> QED BY <1>3, <1>4

\* The program does nothing.
LEMMA StutterStep == ASSUME VrsInv, UNCHANGED Vr!vars PROVE VrsInv'
<1>1. /\ thread' = thread /\ dtrig_net' = dtrig_net /\ used' = used /\ stas' = stas
      /\ cut' = cut /\ added' = added /\ freed' = freed /\ trig' = trig /\ msta' = msta /\ vsta_list' = vsta_list
      /\ moved' = moved /\ upd_queue' = upd_queue /\ work' = work /\ prog' = prog
  BY DEF Vr!vars, Vr!net, Vr!vstas, Vr!place, Vr!queue
<1>2. Vr!TypeOK' /\ NetworkSound' /\ NothingYet' /\ Listed'
  BY <1>1 DEF VrsInv, Vr!TypeOK, NetworkSound, NothingYet, Listed
<1>3. Vr!MasterKnows' /\ Vr!TriangleIsCurrent' /\ Vr!Forgotten' /\ Vr!CrashExcused'
  BY <1>1 DEF VrsInv, Vr!MasterKnows, Vr!TriangleIsCurrent, Vr!Forgotten, Vr!CrashExcused
<1> QED BY <1>2, <1>3 DEF VrsInv

\* The invariant of the module: what is true of the network, the places of the
\* stations and the lists, and what alone can end the program.
THEOREM VrsInductive == Vr!VrsNames => (Vr!Spec => []VrsInv)
<1> SUFFICES ASSUME Vr!VrsNames PROVE Vr!Spec => []VrsInv
  OBVIOUS
<1>1. Vr!Init => VrsInv
  BY InitVrsInv
<1>2. VrsInv /\ [Vr!Next]_Vr!vars => VrsInv'
  <2> SUFFICES ASSUME VrsInv, [Vr!Next]_Vr!vars PROVE VrsInv'
    OBVIOUS
  <2>1. CASE UNCHANGED Vr!vars
    BY <2>1, StutterStep
  <2>2. CASE Vr!Next
    <3>1. prog = "runs"
      BY <2>2 DEF Vr!Next
    <3>2. ASSUME NEW V \in SUBSET Vsta, Vr!InitVrs(V) PROVE VrsInv'
      BY <3>1, <3>2, InitVrsStep
    <3>3. CASE Vr!Boot
      BY <3>1, <3>3, BootStep
    <3>4. CASE Vr!Close
      BY <3>1, <3>4, CloseStep
    <3>5. CASE Vr!Take
      BY <3>1, <3>5, TakeStep
    <3>6. CASE Vr!Work
      BY <3>1, <3>6, WorkStep
    <3>7. ASSUME NEW s \in Srcid, Vr!AddSource(s) PROVE VrsInv'
      BY <3>1, <3>7, AddSourceStep
    <3>8. ASSUME NEW s \in Srcid, Vr!DelSource(s) PROVE VrsInv'
      BY <3>1, <3>8, DelSourceStep
    <3>9. ASSUME NEW s \in Srcid, Vr!Epoch(s) PROVE VrsInv'
      BY <3>1, <3>9, EpochStep
    <3>10. ASSUME NEW v \in Vsta, Vr!AddVsta(v) PROVE VrsInv'
      BY <3>1, <3>10, AddVstaStep
    <3>11. ASSUME NEW v \in Vsta, Vr!DelVsta(v) PROVE VrsInv'
      BY <3>1, <3>11, DelVstaStep
    <3>12. ASSUME NEW e \in Manual, Vr!AddBl(e) \/ Vr!DelBl(e) PROVE VrsInv'
      BY <3>1, <3>12, ByHandStep
    <3> QED BY <2>2, <3>2, <3>3, <3>4, <3>5, <3>6, <3>7, <3>8, <3>9, <3>10, <3>11, <3>12 DEF Vr!Next
  <2> QED BY <2>1, <2>2
<1> QED BY <1>1, <1>2, PTL DEF Vr!Spec

-----------------------------------------------------------------------------
(* What follows.                                                           *)

\* Every virtual station is in the list of its master, a corner of its triangle
\* (vrs.c:145-152).
THEOREM MasterReachesStation == Vr!VrsNames => (Vr!Spec => []Vr!MasterKnows)
<1> SUFFICES ASSUME Vr!VrsNames PROVE Vr!Spec => []Vr!MasterKnows
  OBVIOUS
<1>1. VrsInv => Vr!MasterKnows
  BY DEF VrsInv
<1> QED BY <1>1, VrsInductive, PTL

\* With three stations or more an epoch of the master finds both edges of the
\* triangle of the station, through the pointers dtrignet.c keeps (vrs.c:371-382),
\* unless one of the two was deleted by hand since the last build.
THEOREM MasterInterpolates == Vr!VrsNames => (Vr!Spec => []Vr!Interpolates)
<1> SUFFICES ASSUME Vr!VrsNames PROVE Vr!Spec => []Vr!Interpolates
  OBVIOUS
<1>1. VrsInv => Vr!Interpolates
  <2> SUFFICES ASSUME VrsInv, prog = "runs", Cardinality(dtrig_net.vertexs) >= 3,
                      NEW v \in stas, trig[v] # None,
                      Vr!EdgesAt(trig[v], msta[v]) \intersect cut = {}
               PROVE  Vr!BothEdges(trig[v], msta[v])
    BY SameSize DEF Vr!Interpolates
  <2>1. trig[v] \in dtrig_net.dtrigs
    BY SameSize DEF VrsInv, Vr!TriangleIsCurrent
  <2>2. /\ msta[v] \in Vr!Corner(trig[v]) /\ trig[v] \in Triangle
        /\ v \in Vsta
    BY SameNet DEF VrsInv, Vr!MasterKnows, Vr!TypeOK
  <2>3. msta[v] \in Srcid
    BY <2>2, CornersAreStations
  <2> SUFFICES ASSUME NEW e \in EdgesOf(trig[v]), e[1] = msta[v], e \notin cut
               PROVE  <<trig[v], e>> \in dtrig_net.trig_edge /\ e \in dtrig_net.edge_list[msta[v]]
    BY SameNet DEF Vr!BothEdges, Vr!EdgesAt
  <2>4. <<trig[v], e>> \in dtrig_net.trig_edge /\ e \in dtrig_net.edges
    BY <2>1 DEF VrsInv, NetworkSound, ClosedBut
  <2>5. dtrig_net.edge_list[msta[v]] = {x \in dtrig_net.edges : x[1] = msta[v]}
    BY <2>3 DEF VrsInv, NetworkSound, Consistent
  <2> QED BY <2>4, <2>5
<1> QED BY <1>1, VrsInductive, PTL

\* A deleted station is in no list, unless it had another master before, and
\* nothing but what CrashExcused names ends the program.
THEOREM DeletedIsForgotten == Vr!VrsNames => (Vr!Spec => [](Vr!Forgotten /\ Vr!CrashExcused))
<1> SUFFICES ASSUME Vr!VrsNames PROVE Vr!Spec => [](Vr!Forgotten /\ Vr!CrashExcused)
  OBVIOUS
<1>1. VrsInv => Vr!Forgotten /\ Vr!CrashExcused
  BY DEF VrsInv
<1> QED BY <1>1, VrsInductive, PTL

-----------------------------------------------------------------------------
(* NrtkSync: queues of batches.                                            *)

\* x is in one batch of a queue at most.
Once(q, x) == \A i, j \in DOMAIN q : x \in q[i] /\ x \in q[j] => i = j

\* Taking the first of a queue leaves the batches behind it where they are, or moves
\* them up by one (utils.c, QUEUE_POP of the queues).
LEMMA RestShifts ==
  ASSUME NEW X, NEW q, Batched(q, X), q # <<>>
  PROVE  /\ First(q) \in q[1] /\ 1 \in DOMAIN q
         /\ Batched(Rest(q), X)
         /\ \E k \in {0, 1} :
              /\ \A i \in DOMAIN Rest(q) : i + k \in DOMAIN q /\ Rest(q)[i] \subseteq q[i + k]
              /\ \A i \in DOMAIN q : \A x \in q[i] :
                   \/ x = First(q) /\ i = 1
                   \/ i - k \in DOMAIN Rest(q) /\ x \in Rest(q)[i - k]
              /\ k = 0 => First(q) \notin Rest(q)[1]
              /\ k = 1 => q[1] = {First(q)}
<1> DEFINE Y == (SUBSET X) \ {{}}
<1>1. q \in Seq(Y) /\ Len(q) \in Nat /\ DOMAIN q = 1 .. Len(q)
  BY DEF Batched
<1>2. 1 \in DOMAIN q /\ q[1] \in Y
  BY <1>1
<1>3. First(q) \in q[1]
  BY <1>2 DEF First
<1>4. CASE q[1] = {First(q)}
  <2>1. Rest(q) = Tail(q)
    BY <1>4 DEF Rest
  <2>2. /\ Tail(q) \in Seq(Y) /\ Len(Tail(q)) = Len(q) - 1
        /\ \A i \in 1 .. Len(q) - 1 : Tail(q)[i] = q[i + 1]
    BY <1>1
  <2>3. DOMAIN Rest(q) = 1 .. Len(q) - 1
    BY <2>1, <2>2
  <2>4. \A i \in DOMAIN Rest(q) : i + 1 \in DOMAIN q /\ Rest(q)[i] \subseteq q[i + 1]
    BY <1>1, <2>1, <2>2, <2>3
  <2>5. ASSUME NEW i \in DOMAIN q, NEW x \in q[i]
        PROVE  \/ x = First(q) /\ i = 1
               \/ i - 1 \in DOMAIN Rest(q) /\ x \in Rest(q)[i - 1]
    <3>1. CASE i = 1
      BY <1>4, <2>5, <3>1
    <3>2. CASE i # 1
      <4>1. i - 1 \in 1 .. Len(q) - 1 /\ (i - 1) + 1 = i
        BY <1>1, <3>2
      <4>2. Rest(q)[i - 1] = q[i]
        BY <2>1, <2>2, <4>1
      <4> QED BY <2>3, <2>5, <4>1, <4>2
    <3> QED BY <3>1, <3>2
  <2>6. Batched(Rest(q), X)
    BY <2>1, <2>2 DEF Batched
  <2> QED BY <1>2, <1>3, <1>4, <2>4, <2>5, <2>6
<1>5. CASE q[1] # {First(q)}
  <2>1. Rest(q) = [q EXCEPT ![1] = @ \ {First(q)}]
    BY <1>5 DEF Rest
  <2>2. q[1] \ {First(q)} \in Y
    BY <1>2, <1>3, <1>5
  <2>3. /\ DOMAIN Rest(q) = DOMAIN q
        /\ Rest(q)[1] = q[1] \ {First(q)}
        /\ \A i \in DOMAIN q : i # 1 => Rest(q)[i] = q[i]
    BY <1>1, <1>2, <2>1
  <2>4. Rest(q) \in Seq(Y)
    BY <1>1, <1>2, <2>1, <2>2
  <2>5. \A i \in DOMAIN q : i + 0 = i /\ i - 0 = i
    BY <1>1
  <2>6. \A i \in DOMAIN Rest(q) : i + 0 \in DOMAIN q /\ Rest(q)[i] \subseteq q[i + 0]
    BY <2>3, <2>5
  <2>7. \A i \in DOMAIN q : \A x \in q[i] :
          \/ x = First(q) /\ i = 1
          \/ i - 0 \in DOMAIN Rest(q) /\ x \in Rest(q)[i - 0]
    BY <2>3, <2>5
  <2>8. Batched(Rest(q), X)
    BY <2>4 DEF Batched
  <2> QED BY <1>2, <1>3, <2>3, <2>6, <2>7, <2>8
<1> QED BY <1>4, <1>5

\* Only the first of a queue goes.
LEMMA RestKeeps ==
  ASSUME NEW X, NEW q, Batched(q, X), q # <<>>
  PROVE  /\ First(q) \in All(q) /\ First(q) \in X
         /\ Batched(Rest(q), X)
         /\ All(Rest(q)) \subseteq All(q)
         /\ \A x \in All(q) : x = First(q) \/ x \in All(Rest(q))
         /\ \A x : Once(q, x) => Once(Rest(q), x)
         /\ Once(q, First(q)) => First(q) \notin All(Rest(q))
<1> DEFINE f == First(q)
           r == Rest(q)
<1>1. /\ f \in q[1] /\ 1 \in DOMAIN q
      /\ Batched(r, X)
  BY RestShifts
<1>2. PICK k \in {0, 1} :
         /\ \A i \in DOMAIN r : i + k \in DOMAIN q /\ r[i] \subseteq q[i + k]
         /\ \A i \in DOMAIN q : \A x \in q[i] :
              \/ x = f /\ i = 1
              \/ i - k \in DOMAIN r /\ x \in r[i - k]
         /\ k = 0 => f \notin r[1]
         /\ k = 1 => q[1] = {f}
  BY RestShifts
<1>3. q \in Seq((SUBSET X) \ {{}}) /\ r \in Seq((SUBSET X) \ {{}})
  BY <1>1 DEF Batched
<1>4. \A i \in DOMAIN q : q[i] \subseteq X
  BY <1>3
<1>5. \A i \in DOMAIN r : i \in Nat \ {0}
  BY <1>3
<1> HIDE DEF f, r
<1>6. f \in All(q) /\ f \in X
  BY <1>1, <1>4 DEF All
<1>7. All(r) \subseteq All(q)
  BY <1>2 DEF All
<1>8. \A x \in All(q) : x = f \/ x \in All(r)
  BY <1>2 DEF All
<1>9. ASSUME NEW x, Once(q, x) PROVE Once(r, x)
  <2> SUFFICES ASSUME NEW i \in DOMAIN r, NEW j \in DOMAIN r, x \in r[i], x \in r[j]
               PROVE  i = j
    BY DEF Once
  <2>1. i + k = j + k
    BY <1>2, <1>9 DEF Once
  <2> QED BY <1>5, <2>1
<1>10. ASSUME Once(q, f), f \in All(r) PROVE FALSE
  <2>1. PICK i \in DOMAIN r : f \in r[i]
    BY <1>10 DEF All
  <2>2. i + k = 1
    BY <1>1, <1>2, <1>10, <2>1 DEF Once
  <2>3. i = 1 /\ k = 0
    BY <1>5, <2>2
  <2> QED BY <1>2, <2>1, <2>3
<1> QED BY <1>1, <1>6, <1>7, <1>8, <1>9, <1>10 DEF f, r

\* A batch goes behind the others.
LEMMA PutKeeps ==
  ASSUME NEW X, NEW q, Batched(q, X), NEW B \in SUBSET X
  PROVE  /\ Batched(Put(q, B), X)
         /\ All(Put(q, B)) = All(q) \union B
         /\ \A x : Once(q, x) /\ (x \notin B \/ x \notin All(q)) => Once(Put(q, B), x)
         /\ \A i \in DOMAIN q : i \in DOMAIN Put(q, B) /\ Put(q, B)[i] = q[i]
         /\ \A i \in DOMAIN Put(q, B) : i \notin DOMAIN q =>
              /\ Put(q, B)[i] = B
              /\ \A j \in DOMAIN Put(q, B) : j >= i => j = i
              /\ \A j \in DOMAIN q : j < i
         /\ B # {} => \E i \in DOMAIN Put(q, B) : i \notin DOMAIN q
<1> DEFINE p == Put(q, B)
<1>1. q \in Seq((SUBSET X) \ {{}}) /\ Len(q) \in Nat /\ DOMAIN q = 1 .. Len(q)
  BY DEF Batched
<1>2. CASE B = {}
  <2>1. p = q
    BY <1>2 DEF Put
  <2> QED BY <1>2, <2>1
<1>3. CASE B # {}
  <2>1. p = Append(q, B)
    BY <1>3 DEF Put
  <2>2. /\ p \in Seq((SUBSET X) \ {{}}) /\ Len(p) = Len(q) + 1
        /\ p[Len(q) + 1] = B
        /\ \A i \in 1 .. Len(q) : p[i] = q[i]
    BY <1>1, <1>3, <2>1
  <2>3. DOMAIN p = 1 .. Len(q) + 1
    BY <2>2
  <2>4. Batched(p, X)
    BY <2>2 DEF Batched
  <2> HIDE DEF p
  <2>5. \A i \in DOMAIN q : i \in DOMAIN p /\ p[i] = q[i] /\ i # Len(q) + 1 /\ i \in Nat
    BY <1>1, <2>2, <2>3
  <2>6. \A i \in DOMAIN p : i \in Nat /\ (i \in DOMAIN q \/ i = Len(q) + 1)
    BY <1>1, <2>3
  <2>7. \A i \in DOMAIN p : i \notin DOMAIN q => i = Len(q) + 1
    BY <2>6
  <2>8. Len(q) + 1 \in DOMAIN p /\ Len(q) + 1 \notin DOMAIN q
    BY <1>1, <2>3
  <2>9. All(p) = All(q) \union B
    BY <2>2, <2>5, <2>6, <2>8 DEF All
  <2>10. ASSUME NEW x, Once(q, x), x \notin B \/ x \notin All(q) PROVE Once(p, x)
    BY <2>2, <2>5, <2>6, <2>10 DEF Once, All
  <2>11. \A i \in DOMAIN p : i \notin DOMAIN q =>
           /\ \A j \in DOMAIN p : j >= i => j = i
           /\ \A j \in DOMAIN q : j < i
    BY <1>1, <2>3
  <2> QED BY <2>2, <2>4, <2>5, <2>7, <2>8, <2>9, <2>10, <2>11 DEF p
<1> QED BY <1>2, <1>3

-----------------------------------------------------------------------------
(* The inductive invariant of NrtkSync.                                    *)

\* The lists of the network are right, only edges that were deleted by hand are still
\* pointed to, and three stations have no edge to another.
SyncNet ==
  /\ Consistent(dtrig_net)
  /\ NoTwin(dtrig_net.dtrigs)
  /\ \A p \in dtrig_net.trig_edge : p[2] \in dtrig_net.edges \union torn
  /\ Cardinality(dtrig_net.vertexs) >= 3 =>
       dtrig_net.edges \subseteq dtrig_net.vertexs \X dtrig_net.vertexs

\* The engine has nothing before nrtk_init is done.
Booting == pc = "init" => crash = "no" /\ addbl = <<>> /\ Born = {}

\* What was handed on of a station is not younger than its epoch.
Times == \A s \in Srcid :
  /\ sent[s] <= vt_time[s] /\ vt_time[s] <= obs[s]
  /\ s \notin raced => sent[s] = vt_time[s]
  /\ s \in vts => vt_time[s] < time_cur /\ time_cur <= obs[s]

\* An edge points to a baseline of its two stations, also when all of a vertex are
\* followed; what is asked for by hand is remembered.
Pointers ==
  /\ \A e \in Edge : edge_bl[e] # unset => edge_bl[e] \in Of(e)
  /\ \A i \in DOMAIN updbl : updbl[i][1] \in Of(updbl[i][2])
  /\ \A s \in vts : pc = "update" => \A e \in dtrig_net.edge_list[s] : edge_bl[e] # unset
  /\ \A i \in DOMAIN ask["addbl"] : ask["addbl"][i] \in half
  /\ \A i \in DOMAIN ask["delbl"] : ask["delbl"][i] \in half

\* The baseline of e is on its way to the network.
Brought(e) == \E i \in DOMAIN updbl : updbl[i][2] = e

\* An edge that was asked for once and not by hand: its stations have one baseline,
\* in one direction; while it is an edge that baseline stays in the table, and is asked
\* for, on its way or known.
EdgeInv(e) ==
  /\ e \in dtrig_net.edges => Flip(e) \in dtrig_net.edges
  /\ \A b, c \in Of(e) : b = c
  /\ Once(addbl, e)
  /\ e \in All(addbl) => /\ e \in dtrig_net.edges \union missed
                         /\ \A b \in Born : bl_pair[b] # e
  /\ \A b \in Of(e) : e \in All(addbl) => bl_at[b] = "table" /\ epc = "adds"
  /\ \A b \in Of(e) : e \in dtrig_net.edges => bl_at[b] = "table" /\ b \notin All(delbl)
  /\ pc # "init" /\ e \in dtrig_net.edges =>
       e \in All(addbl) \/ edge_bl[e] \in Of(e) \/ Brought(e)
  /\ \A b \in Of(e) : Once(delbl, b) /\ (b \in All(delbl) => bl_at[b] = "table")
  /\ \A b \in Table : bl_pair[b] = e => e \in dtrig_net.edges \union missed \/ b \in All(delbl)
  /\ blsol[e] # nothing => \E b \in Born : bl_pair[b] = e /\ bl_sol[b]

EdgesKept == \A e \in Edge : ~Odd(e) => EdgeInv(e)

\* The solution of a baseline is of its epoch, or its last task is.
Final(b) ==
  \/ bl_time[b] = nothing /\ \A x \in All(rtkpos) : x[1] # b
  \/ blsol[bl_pair[b]] = bl_time[b] /\ \A x \in All(rtkpos) : x[1] = b => x[2] = bl_time[b]
  \/ \E i \in DOMAIN rtkpos :
       /\ <<b, bl_time[b]>> \in rtkpos[i]
       /\ \A j \in DOMAIN rtkpos : j >= i => \A x \in rtkpos[j] : x[1] = b => x[2] = bl_time[b]

\* The engine's queues speak of baselines it has made, and its thread is at one with
\* an epoch.
Passing == epc \in {"check", "rover", "base"}
Baselines ==
  /\ All(delbl) \subseteq Born
  /\ \A x \in All(rtkpos) : x[1] \in Born /\ x[2] # nothing
  /\ \A b \in Baseline \ Born : bl_time[b] = nothing
  /\ Passing => rt_bl \in Born /\ rt_time # unset /\ obs[bl_pair[rt_bl][2]] # unset

Solved == \A b \in Born : ~Odd(bl_pair[b]) => Final(b)

SyncInv == /\ SyncTypeOK /\ SyncNet /\ Booting /\ Times /\ Pointers
           /\ Baselines /\ Solved /\ EdgesKept /\ CrashExcused

-----------------------------------------------------------------------------
(* What a step leaves alone keeps its part of the invariant.               *)

LEMMA FlipBack ==
  ASSUME NEW e \in Edge
  PROVE  Flip(e) \in Edge /\ Flip(Flip(e)) = e /\ Flip(e) # e
BY DEF Edge, Flip

LEMMA OfFlip ==
  ASSUME NEW e \in Edge
  PROVE  Of(Flip(e)) = Of(e) /\ (Odd(Flip(e)) <=> Odd(e)) /\ (Waits(Flip(e)) <=> Waits(e))
<1>1. Flip(Flip(e)) = e
  BY FlipBack
<1>2. {Flip(e), Flip(Flip(e))} = {e, Flip(e)}
  BY <1>1
<1> QED BY <1>2 DEF Of, Odd, Waits

LEMMA SyncNetKept ==
  ASSUME SyncInv, UNCHANGED <<dtrig_net, torn>> PROVE SyncNet'
BY DEF SyncInv, SyncNet

LEMMA BaselinesKept ==
  ASSUME SyncInv, UNCHANGED <<bl_time, rtkpos, bl_pair>>, Born' = Born, All(delbl') \subseteq All(delbl),
         ~Passing' \/ UNCHANGED <<epc, rt_bl, rt_time>>,
         \A s \in Srcid : obs[s] # unset => obs'[s] # unset
  PROVE  Baselines'
<1>1. \A b \in Born : bl_pair[b][2] \in Srcid
  BY DEF SyncInv, SyncTypeOK, Edge
<1> QED BY <1>1 DEF SyncInv, Baselines, All, Passing

\* Marks only grow.
LEMMA OddGrows ==
  ASSUME again \subseteq again', half \subseteq half', NEW e
  PROVE  ~Odd(e)' => ~Odd(e)
BY DEF Odd

LEMMA SolvedKept ==
  ASSUME SyncInv, UNCHANGED <<bl_pair, bl_time, rtkpos, blsol>>, Born' = Born,
         again \subseteq again', half \subseteq half'
  PROVE  Solved'
<1> SUFFICES ASSUME NEW b \in Born', ~Odd(bl_pair[b])' PROVE Final(b)'
  BY DEF Solved
<1>1. b \in Born /\ ~Odd(bl_pair[b])
  BY DEF Odd
<1>2. Final(b)
  BY <1>1 DEF SyncInv, Solved
<1> QED BY <1>2 DEF Final, All

LEMMA EdgesKeptKept ==
  ASSUME SyncInv,
         UNCHANGED <<dtrig_net, edge_bl, updbl, bl_pair, bl_sol, bl_at, addbl, delbl, blsol>>,
         again \subseteq again', half \subseteq half', missed' = missed,
         pc' = "init" \/ pc # "init", epc' = epc \/ epc # "adds"
  PROVE  EdgesKept'
<1> SUFFICES ASSUME NEW e \in Edge, ~Odd(e)' PROVE EdgeInv(e)'
  BY DEF EdgesKept
<1>1. EdgeInv(e)
  BY OddGrows DEF SyncInv, EdgesKept
<1>2. Of(e)' = Of(e) /\ Born' = Born /\ Table' = Table
  BY DEF Of, Born, Table
<1>3. All(addbl)' = All(addbl) /\ All(delbl)' = All(delbl)
  BY DEF All
<1>4. Once(addbl, e)' <=> Once(addbl, e)
  BY DEF Once
<1>5. \A b : Once(delbl, b)' <=> Once(delbl, b)
  BY DEF Once
<1>6. Brought(e)' <=> Brought(e)
  BY DEF Brought
<1> QED BY <1>1, <1>2, <1>3, <1>4, <1>5, <1>6 DEF EdgeInv

LEMMA PointersKept ==
  ASSUME SyncInv, UNCHANGED <<dtrig_net, edge_bl, updbl, bl_pair, ask>>, Born' = Born,
         half \subseteq half', vts' \subseteq vts, pc' = "update" => pc = "update"
  PROVE  Pointers'
<1>1. \A e : Of(e)' = Of(e)
  BY DEF Of
<1> QED BY <1>1 DEF SyncInv, Pointers

LEMMA TimesKept ==
  ASSUME SyncInv, UNCHANGED <<sent, vt_time, obs, raced, time_cur>>, vts' \subseteq vts
  PROVE  Times'
BY DEF SyncInv, Times

LEMMA BootingKept ==
  ASSUME pc' # "init" PROVE Booting'
BY DEF Booting

LEMMA NoCrash ==
  ASSUME crash' = "no" PROVE CrashExcused'
BY DEF CrashExcused

LEMMA EngineStill ==
  ASSUME SyncInv, UNCHANGED <<network, updbl, engine, marks>>, half \subseteq half',
         pc # "init", pc' # "init", \A s \in Srcid : obs[s] # unset => obs'[s] # unset
  PROVE  SyncNet' /\ Booting' /\ Baselines' /\ Solved' /\ EdgesKept'
<1>1. UNCHANGED <<dtrig_net, edge_bl, bl_pair, bl_time, bl_sol, bl_at, epc, rt_bl, rt_time, addbl,
                  delbl, rtkpos, blsol, torn, again, missed>>
  BY DEF network, engine, baselines, pass, queues, marks
<1>2. Born' = Born
  BY <1>1 DEF Born
<1> QED BY <1>1, <1>2, SyncNetKept, BootingKept, BaselinesKept, SolvedKept, EdgesKeptKept

-----------------------------------------------------------------------------
(* One lemma per action: the other threads.                                *)

LEMMA UpdObsInv == ASSUME SyncInv, NEW s \in Srcid, UpdObs(s) PROVE SyncInv'
<1>1. PICK t \in Time : t > obs[s] /\ obs' = [obs EXCEPT ![s] = t]
  BY DEF UpdObs
<1>2. /\ Working
      /\ UNCHANGED <<network, vt_time, nrtk, ask, updbl, engine, sent, history, crash>>
  BY DEF UpdObs
<1>3. obs \in [Srcid -> Time] /\ obs' \in [Srcid -> Time]
  BY <1>1 DEF SyncInv, SyncTypeOK
<1>4. SyncTypeOK'
  BY <1>2, <1>3 DEF SyncInv, SyncTypeOK, network, nrtk, engine, baselines, pass, queues, history,
       marks, Born
<1>5. SyncNet' /\ Booting' /\ Baselines' /\ Solved' /\ EdgesKept'
  <2>1. \A x \in Srcid : obs[x] # unset => obs'[x] # unset
    BY <1>1, <1>3 DEF Time, unset
  <2> QED BY <1>2, <2>1, EngineStill DEF Working, nrtk, history
<1>6. Pointers' /\ CrashExcused'
  BY <1>2, PointersKept, NoCrash DEF Working, network, nrtk, engine, baselines, pass, history, Born
<1>7. Times'
  <2>1. \A x \in Srcid : obs[x] <= obs'[x]
    BY <1>1, <1>3 DEF Time
  <2>2. vt_time \in [Srcid -> Time] /\ time_cur \in Time
    BY DEF SyncInv, SyncTypeOK
  <2> QED BY <1>2, <1>3, <2>1, <2>2 DEF SyncInv, Times, nrtk, history, Time
<1> QED BY <1>4, <1>5, <1>6, <1>7 DEF SyncInv

\* Every request.
LEMMA RequestInv ==
  ASSUME SyncInv, NEW k \in Queue, NEW data, Request(k, data),
         k \in {"addsrc", "delsrc"} => data \in Srcid,
         k \in {"addbl", "delbl"} => data \in Edge /\ data \in half',
         half \subseteq half', half' \subseteq Edge, known' \subseteq Srcid
  PROVE  SyncInv'
<1>1. /\ Working
      /\ UNCHANGED <<network, vt_time, nrtk, updbl, engine, obs, sent, marks, raced, crash>>
      /\ ask' = [ask EXCEPT ![k] = Append(@, data)]
  BY DEF Request
<1>2. /\ ask["addsrc"] \in Seq(Srcid) /\ ask["delsrc"] \in Seq(Srcid)
      /\ ask["addbl"] \in Seq(Edge) /\ ask["delbl"] \in Seq(Edge)
      /\ DOMAIN ask = Queue
  BY DEF SyncInv, SyncTypeOK
<1>3. /\ DOMAIN ask' = Queue
      /\ ask'[k] = Append(ask[k], data)
      /\ \A x \in Queue : x # k => ask'[x] = ask[x]
  BY <1>1, <1>2
<1>4. /\ ask'["addsrc"] \in Seq(Srcid) /\ ask'["delsrc"] \in Seq(Srcid)
      /\ ask'["addbl"] \in Seq(Edge) /\ ask'["delbl"] \in Seq(Edge)
  <2>1. ASSUME NEW x \in {"addsrc", "delsrc"} PROVE ask'[x] \in Seq(Srcid)
    <3>1. ask[x] \in Seq(Srcid) /\ x \in Queue
      BY <1>2 DEF Queue
    <3>2. CASE x = k
      BY <1>3, <3>1, <3>2
    <3> QED BY <1>3, <3>1, <3>2
  <2>2. ASSUME NEW x \in {"addbl", "delbl"} PROVE ask'[x] \in Seq(Edge)
    <3>1. ask[x] \in Seq(Edge) /\ x \in Queue
      BY <1>2 DEF Queue
    <3>2. CASE x = k
      BY <1>3, <3>1, <3>2
    <3> QED BY <1>3, <3>1, <3>2
  <2> QED BY <2>1, <2>2
<1>5. SyncTypeOK'
  BY <1>1, <1>3, <1>4 DEF SyncInv, SyncTypeOK, network, nrtk, engine, baselines, pass, queues,
       marks, Born
<1>6. SyncNet' /\ Booting' /\ Baselines' /\ Solved' /\ EdgesKept'
  BY <1>1, EngineStill DEF Working, nrtk
<1>7. Times' /\ CrashExcused'
  BY <1>1, TimesKept, NoCrash DEF Working, nrtk
<1>8. Pointers'
  <2>1. ASSUME NEW x \in {"addbl", "delbl"}, NEW i \in DOMAIN ask'[x]
        PROVE  ask'[x][i] \in half'
    <3>1. \A j \in DOMAIN ask[x] : ask[x][j] \in half'
      BY DEF SyncInv, Pointers
    <3>2. CASE x = k
      <4>1. ask'[x] = Append(ask[x], data) /\ ask[x] \in Seq(Edge) /\ data \in half'
        BY <1>2, <1>3, <3>2
      <4> QED BY <2>1, <3>1, <4>1
    <3>3. CASE x # k
      BY <1>3, <2>1, <3>1, <3>3 DEF Queue
    <3> QED BY <3>2, <3>3
  <2>2. \A e : Of(e)' = Of(e)
    BY <1>1 DEF Of, Born, engine, baselines
  <2> QED BY <1>1, <2>1, <2>2 DEF SyncInv, Pointers, network, nrtk
<1> QED BY <1>5, <1>6, <1>7, <1>8 DEF SyncInv

LEMMA AskAddSourceInv == ASSUME SyncInv, NEW s \in Srcid, AskAddSource(s) PROVE SyncInv'
<1>1. half \subseteq Edge /\ known \subseteq Srcid
  BY DEF SyncInv, SyncTypeOK
<1>2. /\ Request("addsrc", s) /\ half' = half /\ known' = known \union {s}
      /\ "addsrc" \in Queue
  BY DEF AskAddSource, Queue
<1> QED BY <1>1, <1>2, RequestInv

LEMMA AskDelSourceInv == ASSUME SyncInv, NEW s \in Srcid, AskDelSource(s) PROVE SyncInv'
<1>1. half \subseteq Edge /\ known \subseteq Srcid
  BY DEF SyncInv, SyncTypeOK
<1>2. Request("delsrc", s) /\ half' = half /\ known' = known /\ "delsrc" \in Queue
  BY DEF AskDelSource, Queue
<1> QED BY <1>1, <1>2, RequestInv

LEMMA AskBaselineInv ==
  ASSUME SyncInv, NEW k \in {"addbl", "delbl"}, NEW e \in Edge, AskBaseline(k, e)
  PROVE  SyncInv'
<1>1. half \subseteq Edge /\ known \subseteq Srcid
  BY DEF SyncInv, SyncTypeOK
<1>2. Request(k, e) /\ half' = half \union {e} /\ known' = known /\ k \in Queue
  BY DEF AskBaseline, Queue
<1> QED BY <1>1, <1>2, RequestInv

-----------------------------------------------------------------------------
(* One lemma per action: synchronisation.                                  *)

\* Steps of the nrtk thread through the vertices; where it goes and what it knows of the
\* epochs is left to show.
LEMMA WalkInv ==
  ASSUME SyncInv, Working, pc' # "init", pc' \in Phase \union {"sync", "update"},
         UNCHANGED <<network, ask, updbl, engine, obs, known, asked, marks, half, crash>>,
         todo' \subseteq Srcid, vts' \subseteq Srcid, time_cur' \in Time,
         vt_time' \in [Srcid -> Time], sent' \in [Srcid -> Time], raced' \subseteq Srcid,
         Times',
         \A s \in vts' : pc' = "update" =>
            \A e \in dtrig_net.edge_list[s] : edge_bl[e] # unset
  PROVE  SyncInv'
<1>1. SyncTypeOK'
  BY DEF SyncInv, SyncTypeOK, network, engine, baselines, pass, queues, marks, Born
<1>2. SyncNet' /\ Booting' /\ Baselines' /\ Solved' /\ EdgesKept' /\ CrashExcused'
  BY EngineStill, NoCrash DEF Working
<1>3. Pointers'
  <2>1. \A e : Of(e)' = Of(e)
    BY DEF Of, Born, engine, baselines
  <2> QED BY <2>1 DEF SyncInv, Pointers, network
<1> QED BY <1>1, <1>2, <1>3 DEF SyncInv

\* What the lemmas use of the types.
LEMMA WalkTypes ==
  ASSUME SyncInv
  PROVE  /\ todo \subseteq Srcid /\ vts \subseteq Srcid /\ time_cur \in Time /\ raced \subseteq Srcid
         /\ vt_time \in [Srcid -> Time] /\ sent \in [Srcid -> Time] /\ obs \in [Srcid -> Time]
         /\ pc \in Phase \union {"sync", "update"}
BY DEF SyncInv, SyncTypeOK

LEMMA VisitInv == ASSUME SyncInv, Visit PROVE SyncInv'
<1>1. PICK s \in Least(todo) :
        IF obs[s] \in {unset, vt_time[s]}
        THEN todo' = todo \ {s} /\ UNCHANGED <<pc, vts, time_cur>>
        ELSE pc' = "sync" /\ vts' = {s} /\ time_cur' = obs[s] /\ UNCHANGED todo
  BY DEF Visit
<1>2. /\ Working /\ pc = "subnet"
      /\ UNCHANGED <<network, vt_time, ask, updbl, engine, obs, sent, history, crash>>
  BY DEF Visit
<1>3. s \in Srcid
  BY WalkTypes DEF Least
<1>4. CASE obs[s] \in {unset, vt_time[s]}
  <2>1. Times'
    BY <1>1, <1>2, <1>4, TimesKept DEF history
  <2> QED BY <1>1, <1>2, <1>4, <2>1, WalkInv, WalkTypes DEF history
<1>5. CASE obs[s] \notin {unset, vt_time[s]}
  <2>1. pc' = "sync" /\ vts' = {s} /\ time_cur' = obs[s] /\ UNCHANGED todo
    BY <1>1, <1>5
  <2>2. vt_time[s] < obs[s] /\ obs[s] <= obs[s]
    BY <1>3, <1>5, WalkTypes DEF SyncInv, Times, Time
  <2>3. Times'
    BY <1>2, <2>1, <2>2 DEF SyncInv, Times, history
  <2>4. obs[s] \in Time
    BY <1>3, WalkTypes
  <2> QED BY <1>2, <1>3, <2>1, <2>3, <2>4, WalkInv, WalkTypes DEF history
<1> QED BY <1>4, <1>5

LEMMA SyncStepInv == ASSUME SyncInv, NEW s \in Srcid, Sync(s) PROVE SyncInv'
<1>1. /\ Working /\ pc = "sync" /\ vts = {s}
      /\ UNCHANGED <<network, vt_time, ask, updbl, engine, obs, sent, history, crash>>
  BY DEF Sync
<1>2. CASE InTime(s, time_cur) = dtrig_net.edge_list[s]
  <2>1. pc' = "update" /\ UNCHANGED <<todo, vts, time_cur>>
    BY <1>2 DEF Sync
  <2>2. \A e \in dtrig_net.edge_list[s] : edge_bl[e] # unset
    BY <1>2 DEF InTime
  <2>3. Times'
    BY <1>1, <2>1, TimesKept DEF history
  <2> QED BY <1>1, <2>1, <2>2, <2>3, WalkInv, WalkTypes DEF history
<1>3. CASE InTime(s, time_cur) # dtrig_net.edge_list[s]
  <2>1. pc' = "subnet" /\ vts' = {} /\ todo' = todo \ {s} /\ UNCHANGED time_cur
    BY <1>3 DEF Sync, Leave
  <2>2. Times'
    BY <1>1, <2>1, TimesKept DEF history
  <2> QED BY <1>1, <2>1, <2>2, WalkInv, WalkTypes DEF history, Phase
<1> QED BY <1>2, <1>3

\* The epoch is done, with all solutions or with a mark.
LEMMA UpdateInv == ASSUME SyncInv, NEW s \in Srcid, Update(s) PROVE SyncInv'
<1>1. /\ Working /\ pc = "update" /\ vts = {s}
      /\ vt_time' = [vt_time EXCEPT ![s] = obs[s]]
      /\ UNCHANGED <<network, ask, updbl, engine, obs, known, asked, marks, half, crash>>
      /\ pc' = "subnet" /\ vts' = {} /\ todo' = todo \ {s} /\ UNCHANGED time_cur
      /\ \/ obs[s] = time_cur /\ sent' = [sent EXCEPT ![s] = time_cur] /\ UNCHANGED raced
         \/ raced' = raced \union {s} /\ UNCHANGED sent
  BY DEF Update, Leave
<1>2. /\ vt_time' \in [Srcid -> Time] /\ sent' \in [Srcid -> Time] /\ raced' \subseteq Srcid
      /\ vt_time'[s] = obs[s]
      /\ \A x \in Srcid : x # s => vt_time'[x] = vt_time[x] /\ sent'[x] = sent[x]
  BY <1>1, WalkTypes
<1>3. vt_time[s] < obs[s] /\ sent[s] <= vt_time[s] /\ obs[s] \in Nat /\ vt_time[s] \in Nat
      /\ sent[s] \in Nat
  BY <1>1, WalkTypes DEF SyncInv, Times, Time
<1>4. sent'[s] <= vt_time'[s] /\ (s \notin raced' => sent'[s] = vt_time'[s])
  <2>1. CASE obs[s] = time_cur /\ sent' = [sent EXCEPT ![s] = time_cur]
    <3>1. sent'[s] = obs[s]
      BY <2>1, WalkTypes
    <3> QED BY <1>2, <1>3, <3>1
  <2>2. CASE raced' = raced \union {s} /\ UNCHANGED sent
    BY <1>2, <1>3, <2>2
  <2> QED BY <1>1, <2>1, <2>2
<1>5. Times'
  <2>1. ASSUME NEW x \in Srcid
        PROVE  /\ sent'[x] <= vt_time'[x] /\ vt_time'[x] <= obs'[x]
               /\ x \notin raced' => sent'[x] = vt_time'[x]
    <3>1. CASE x = s
      BY <1>1, <1>2, <1>3, <1>4, <3>1
    <3>2. CASE x # s
      BY <1>1, <1>2, <3>2 DEF SyncInv, Times
    <3> QED BY <3>1, <3>2
  <2> QED BY <1>1, <2>1 DEF Times
<1> QED BY <1>1, <1>2, <1>5, WalkInv, WalkTypes DEF Phase

LEMMA TrianglesPass == ASSUME SyncInv, Triangles, pc' = "addsrc", crash' = crash PROVE SyncInv'
<1>1. /\ Working /\ pc = "subnet"
      /\ UNCHANGED <<network, vt_time, todo, vts, time_cur, ask, updbl, engine, obs, sent, history,
                     crash>>
  BY DEF Triangles, Crash, Working
<1>2. Times'
  BY <1>1, TimesKept DEF history
<1> QED BY <1>1, <1>2, WalkInv, WalkTypes DEF history, Phase, Queue

LEMMA NextPhaseInv == ASSUME SyncInv, NextPhase PROVE SyncInv'
<1>1. /\ Working
      /\ UNCHANGED <<network, vt_time, vts, time_cur, ask, updbl, engine, obs, sent, history, crash>>
  BY DEF NextPhase
<1>2. /\ pc' \in {"subnet", "delsrc", "addbl", "delbl", "updbl"}
      /\ todo' \in {todo, dtrig_net.vertexs}
  BY DEF NextPhase, After, Queue
<1>3. dtrig_net.vertexs \subseteq Srcid
  BY DEF SyncInv, SyncTypeOK, Net
<1>4. Times'
  BY <1>1, TimesKept DEF history
<1> QED BY <1>1, <1>2, <1>3, <1>4, WalkInv, WalkTypes DEF history, Phase, Queue

-----------------------------------------------------------------------------
(* One lemma per action: what the program crashes on.                      *)

\* A crash leaves everything else as it is, so that it is excused if it was excused
\* before.
LEMMA CrashInv ==
  ASSUME SyncInv, NEW why, Working, Crash(why),
         why = "freed baseline" => \E e \in dtrig_net.edges : Dangling({e}) /\ Odd(e),
         why = "freed edge" => torn # {},
         why = "freed twice" => \E b \in All(delbl) : bl_at[b] = "freed" /\ Odd(bl_pair[b]),
         why = "no rover" => ~(Cardinality(dtrig_net.vertexs) >= 3)
  PROVE  SyncInv'
<1>1. /\ crash' = why
      /\ UNCHANGED <<network, vt_time, nrtk, ask, updbl, engine, obs, sent, history>>
  BY DEF Crash
<1>2. UNCHANGED <<dtrig_net, edge_bl, pc, todo, vts, time_cur, bl_pair, bl_time, bl_sol, bl_at, epc,
                  rt_bl, rt_time, addbl, delbl, rtkpos, blsol, known, asked, torn, again, missed,
                  half, raced>>
  BY <1>1 DEF network, nrtk, engine, baselines, pass, queues, marks, history
<1>3. SyncTypeOK'
  BY <1>1, <1>2 DEF SyncInv, SyncTypeOK, Born
<1>4. SyncNet' /\ Booting' /\ Baselines' /\ Solved' /\ EdgesKept'
  BY <1>1, EngineStill DEF Working, nrtk, history
<1>5. Times' /\ Pointers'
  BY <1>1, <1>2, TimesKept, PointersKept DEF Born
<1>6. CrashExcused'
  BY <1>1, <1>2 DEF CrashExcused, Dangling, Odd, All
<1> QED BY <1>3, <1>4, <1>5, <1>6 DEF SyncInv

\* A baseline that an edge points to is gone only if the edge is odd.
LEMMA DanglingIsOdd ==
  ASSUME SyncInv, NEW E \in SUBSET dtrig_net.edges, Dangling(E)
  PROVE  \E e \in dtrig_net.edges : Dangling({e}) /\ Odd(e)
<1>1. PICK e \in E : edge_bl[e] # unset /\ bl_at[edge_bl[e]] = "freed"
  BY DEF Dangling
<1>2. e \in dtrig_net.edges /\ e \in Edge
  BY DEF SyncInv, SyncTypeOK, Net
<1>3. edge_bl[e] \in Of(e)
  BY <1>1, <1>2 DEF SyncInv, Pointers
<1>4. Odd(e)
  <2> SUFFICES ASSUME ~Odd(e) PROVE FALSE
    OBVIOUS
  <2>1. EdgeInv(e)
    BY <1>2 DEF SyncInv, EdgesKept
  <2>2. bl_at[edge_bl[e]] = "table"
    BY <1>2, <1>3, <2>1 DEF EdgeInv
  <2> QED BY <1>1, <2>2
<1> QED BY <1>1, <1>2, <1>4 DEF Dangling

LEMMA BaselineFreedInv == ASSUME SyncInv, NEW s \in Srcid, BaselineFreed(s) PROVE SyncInv'
<1>1. dtrig_net.edge_list[s] \subseteq dtrig_net.edges
  BY DEF SyncInv, SyncNet, Consistent
<1>2. Working /\ Dangling(dtrig_net.edge_list[s]) /\ Crash("freed baseline")
  BY DEF BaselineFreed
<1> QED BY <1>1, <1>2, DanglingIsOdd, CrashInv

\* With three stations or more the rover of an edge is in the network.
LEMMA RoverLeftInv == ASSUME SyncInv, NEW s \in Srcid, RoverLeft(s) PROVE SyncInv'
<1>1. /\ Working /\ pc = "update" /\ vts = {s} /\ Crash("no rover")
  BY DEF RoverLeft
<1>2. PICK e \in dtrig_net.edge_list[s] : bl_pair[edge_bl[e]][2] \notin dtrig_net.vertexs
  BY DEF RoverLeft
<1>3. e \in dtrig_net.edges /\ e \in Edge
  BY DEF SyncInv, SyncNet, Consistent, SyncTypeOK, Net
<1>4. edge_bl[e] \in Of(e)
  BY <1>1, <1>3 DEF SyncInv, Pointers
<1>5. bl_pair[edge_bl[e]][2] \in {e[1], e[2]}
  BY <1>3, <1>4 DEF Of, Flip
<1>6. ~(Cardinality(dtrig_net.vertexs) >= 3)
  <2> SUFFICES ASSUME Cardinality(dtrig_net.vertexs) >= 3 PROVE FALSE
    OBVIOUS
  <2>1. e \in dtrig_net.vertexs \X dtrig_net.vertexs
    BY <1>3 DEF SyncInv, SyncNet
  <2> QED BY <1>2, <1>5, <2>1
<1> QED BY <1>1, <1>6, CrashInv

LEMMA TrianglesInv == ASSUME SyncInv, Triangles PROVE SyncInv'
<1> DEFINE E == {p[2] : p \in {x \in dtrig_net.trig_edge : x[2] \in Around(x[1])}}
<1>1. Working
  BY DEF Triangles
<1>2. \/ pc' = "addsrc" /\ crash' = crash
      \/ E \intersect torn # {} /\ Crash("freed edge")
      \/ E \intersect torn = {} /\ Dangling(E) /\ Crash("freed baseline")
  BY DEF Triangles
<1>3. \A e \in E : e \in dtrig_net.edges \union torn
  BY DEF SyncInv, SyncNet
<1>4. E \intersect torn = {} => E \in SUBSET dtrig_net.edges
  BY <1>3
<1> HIDE DEF E
<1>5. CASE pc' = "addsrc" /\ crash' = crash
  BY <1>5, TrianglesPass
<1>6. CASE E \intersect torn # {} /\ Crash("freed edge")
  BY <1>1, <1>6, CrashInv
<1>7. CASE E \intersect torn = {} /\ Dangling(E) /\ Crash("freed baseline")
  BY <1>1, <1>4, <1>7, CrashInv, DanglingIsOdd
<1> QED BY <1>2, <1>5, <1>6, <1>7

LEMMA FreedTwiceInv == ASSUME SyncInv, FreedTwice PROVE SyncInv'
<1> DEFINE b == First(delbl)
<1>1. Working /\ delbl # <<>> /\ bl_at[b] = "freed" /\ Crash("freed twice")
  BY DEF FreedTwice
<1>2. Batched(delbl, Baseline)
  BY DEF SyncInv, SyncTypeOK
<1>3. b \in All(delbl)
  BY <1>1, <1>2, RestKeeps
<1>4. b \in Born /\ bl_pair[b] \in Edge
  BY <1>3 DEF SyncInv, Baselines, SyncTypeOK
<1> HIDE DEF b
<1>5. Odd(bl_pair[b])
  <2> SUFFICES ASSUME ~Odd(bl_pair[b]) PROVE FALSE
    OBVIOUS
  <2>1. EdgeInv(bl_pair[b])
    BY <1>4 DEF SyncInv, EdgesKept
  <2>2. b \in Of(bl_pair[b])
    BY <1>4 DEF Of
  <2> QED BY <1>1, <1>3, <2>1, <2>2 DEF EdgeInv
<1> QED BY <1>1, <1>3, <1>5, CrashInv

-----------------------------------------------------------------------------
(* One lemma per action: the engine.                                       *)

\* What a step of the engine leaves to show.
LEMMA EngineInv ==
  ASSUME SyncInv, Working,
         UNCHANGED <<network, vt_time, nrtk, ask, obs, sent, history, crash>>,
         updbl' \in Seq(Baseline \X Edge),
         bl_pair' \in [Baseline -> Edge \union {<<>>}], bl_time' \in [Baseline -> Copies],
         bl_sol' \in [Baseline -> BOOLEAN],
         bl_at' \in [Baseline -> {"unborn", "table", "leaving", "freed"}],
         (\A b \in Born : bl_pair[b] \in Edge)',
         epc' \in {"watch", "check", "rover", "base", "adds", "dels"},
         rt_bl' \in 0 .. MaxBl, rt_time' \in Time, blsol' \in [Edge -> Copies],
         Batched(addbl', Edge), Batched(delbl', Baseline), Batched(rtkpos', Baseline \X Copies),
         Pointers', Baselines', Solved', EdgesKept'
  PROVE  SyncInv'
<1>1. SyncTypeOK'
  BY DEF SyncInv, SyncTypeOK, network, nrtk, history, marks
<1>2. SyncNet' /\ Booting' /\ Times' /\ CrashExcused'
  BY SyncNetKept, BootingKept, TimesKept, NoCrash DEF Working, network, nrtk, history, marks
<1> QED BY <1>1, <1>2 DEF SyncInv

\* What the lemmas use of the types.
LEMMA EngineTypes ==
  ASSUME SyncInv
  PROVE  /\ updbl \in Seq(Baseline \X Edge)
         /\ bl_pair \in [Baseline -> Edge \union {<<>>}] /\ bl_time \in [Baseline -> Copies]
         /\ bl_sol \in [Baseline -> BOOLEAN]
         /\ bl_at \in [Baseline -> {"unborn", "table", "leaving", "freed"}]
         /\ \A b \in Born : bl_pair[b] \in Edge
         /\ epc \in {"watch", "check", "rover", "base", "adds", "dels"}
         /\ rt_bl \in 0 .. MaxBl /\ rt_time \in Time /\ blsol \in [Edge -> Copies]
         /\ Batched(addbl, Edge) /\ Batched(delbl, Baseline) /\ Batched(rtkpos, Baseline \X Copies)
         /\ obs \in [Srcid -> Time]
BY DEF SyncInv, SyncTypeOK

\* The thread goes on with a pass: it is at a baseline it found in the table, whose
\* rover has an epoch.
LEMMA PassInv ==
  ASSUME SyncInv, Working, epc # "adds",
         UNCHANGED <<network, vt_time, nrtk, ask, updbl, baselines, queues, blsol, obs, sent,
                     history, crash>>,
         epc' \in {"watch", "check", "rover", "base", "adds"},
         rt_bl' \in 0 .. MaxBl, rt_time' \in Time,
         Passing' => rt_bl' \in Born /\ rt_time' # unset /\ obs[bl_pair[rt_bl'][2]] # unset
  PROVE  SyncInv'
<1>1. UNCHANGED <<dtrig_net, edge_bl, pc, vts, again, half, missed, bl_pair, bl_time, bl_sol, bl_at,
                  addbl, delbl, rtkpos>>
  BY DEF network, nrtk, history, marks, baselines, queues
<1>2. Born' = Born
  BY <1>1 DEF Born
<1>3. Baselines'
  BY <1>1, <1>2 DEF SyncInv, Baselines, All
<1>4. Solved' /\ Pointers' /\ EdgesKept'
  BY <1>1, <1>2, SolvedKept, PointersKept, EdgesKeptKept DEF Working
<1>5. (\A b \in Born : bl_pair[b] \in Edge)'
  BY <1>1, <1>2, EngineTypes
<1> QED BY <1>1, <1>3, <1>4, <1>5, EngineTypes, EngineInv

\* A baseline that was made has stations.
LEMMA PairTypes ==
  ASSUME SyncInv, NEW b \in Born
  PROVE  /\ bl_pair[b][1] \in Srcid /\ bl_pair[b][2] \in Srcid
         /\ obs[bl_pair[b][1]] \in Time /\ obs[bl_pair[b][2]] \in Time
         /\ b \in Baseline /\ b \in 0 .. MaxBl
<1>0. b \in Baseline
  BY DEF Born
<1>1. \A x \in Born : bl_pair[x] \in Edge
  BY EngineTypes
<1>2. obs \in [Srcid -> Time]
  BY EngineTypes
<1>3. bl_pair[b] \in Edge
  BY <1>1, Zenon
<1>4. bl_pair[b][1] \in Srcid /\ bl_pair[b][2] \in Srcid
  BY <1>3 DEF Edge
<1>5. obs[bl_pair[b][1]] \in Time /\ obs[bl_pair[b][2]] \in Time
  BY <1>2, <1>4
<1>6. b \in 0 .. MaxBl
  BY <1>0, NrtkSyncAssumption DEF Baseline
<1> QED BY <1>0, <1>4, <1>5, <1>6

LEMMA LookInv == ASSUME SyncInv, Look PROVE SyncInv'
<1>1. /\ Working /\ epc = "watch"
      /\ UNCHANGED <<network, vt_time, nrtk, ask, updbl, baselines, queues, blsol, obs, sent,
                     history, crash>>
  BY DEF Look
<1>2. 0 \in 0 .. MaxBl /\ rt_time \in Time
  BY NrtkSyncAssumption, EngineTypes
<1>3. CASE epc' = "adds" /\ rt_bl' = 0 /\ rt_time' = rt_time
  BY <1>1, <1>2, <1>3, PassInv DEF Passing
<1>4. ASSUME NEW b \in Table, NEW t, t = obs[bl_pair[b][2]], rt_bl' = b,
             IF t \in {unset, Epoch(bl_time[b])} THEN UNCHANGED <<epc, rt_time>>
             ELSE epc' = "check" /\ rt_time' = t
      PROVE  SyncInv'
  <2>1. b \in Born /\ b \in 0 .. MaxBl /\ t \in Time
    BY <1>4, PairTypes DEF Table, Born
  <2>2. CASE t \in {unset, Epoch(bl_time[b])}
    BY <1>1, <1>2, <1>4, <2>1, <2>2, PassInv DEF Passing
  <2>3. CASE t \notin {unset, Epoch(bl_time[b])}
    BY <1>1, <1>4, <2>1, <2>3, PassInv
  <2> QED BY <2>2, <2>3
<1>5. \/ epc' = "adds" /\ rt_bl' = 0 /\ rt_time' = rt_time
      \/ \E b \in Table : /\ rt_bl' = b
                          /\ IF obs[bl_pair[b][2]] \in {unset, Epoch(bl_time[b])}
                             THEN UNCHANGED <<epc, rt_time>>
                             ELSE epc' = "check" /\ rt_time' = obs[bl_pair[b][2]]
  BY DEF Look, Least
<1> QED BY <1>3, <1>4, <1>5

LEMMA CheckInv == ASSUME SyncInv, Check PROVE SyncInv'
<1>1. /\ Working /\ epc = "check" /\ rt_bl' = rt_bl
      /\ UNCHANGED <<network, vt_time, nrtk, ask, updbl, baselines, queues, blsol, obs, sent,
                     history, crash>>
      /\ \/ epc' = "rover" /\ rt_time' = rt_time
         \/ epc' = "watch" /\ rt_time' = unset
  BY DEF Check
<1>2. rt_bl \in Born /\ rt_time # unset /\ obs[bl_pair[rt_bl][2]] # unset
  BY <1>1 DEF SyncInv, Baselines, Passing
<1>3. rt_bl \in 0 .. MaxBl /\ rt_time \in Time /\ unset \in Time
  BY EngineTypes, NrtkSyncAssumption DEF unset, Time
<1> QED BY <1>1, <1>2, <1>3, PassInv DEF Passing

LEMMA CopyRoverInv == ASSUME SyncInv, CopyRover PROVE SyncInv'
<1>1. /\ Working /\ epc = "rover" /\ epc' = "base" /\ rt_bl' = rt_bl
      /\ rt_time' = obs[bl_pair[rt_bl][2]]
      /\ UNCHANGED <<network, vt_time, nrtk, ask, updbl, baselines, queues, blsol, obs, sent,
                     history, crash>>
  BY DEF CopyRover
<1>2. rt_bl \in Born /\ obs[bl_pair[rt_bl][2]] # unset
  BY <1>1 DEF SyncInv, Baselines, Passing
<1>3. rt_bl \in 0 .. MaxBl /\ rt_time' \in Time
  BY <1>1, <1>2, PairTypes
<1> QED BY <1>1, <1>2, <1>3, PassInv

\* The task that is put behind the others is of the epochs that the baseline now has.
LEMMA CopyBaseInv == ASSUME SyncInv, CopyBase PROVE SyncInv'
<1> PICK c, y : c = rt_bl /\ y = <<rt_time, obs[bl_pair[rt_bl][1]]>>
  OBVIOUS
<1> DEFINE new == {<<c, y>>}
<1>1. /\ Working /\ epc = "base"
      /\ bl_time' = [bl_time EXCEPT ![c] = y]
      /\ rtkpos' = Put(rtkpos, new)
      /\ epc' = "watch" /\ rt_bl' = rt_bl /\ rt_time' = unset
      /\ UNCHANGED <<network, vt_time, nrtk, ask, updbl, bl_pair, bl_sol, bl_at, addbl, delbl, blsol,
                     obs, sent, history, crash>>
  BY DEF CopyBase
<1>2. Born' = Born /\ Born \subseteq Baseline
  BY <1>1 DEF Born
<1>3. c \in Born /\ c \in Baseline /\ y \in Copies /\ y # nothing
  <2>1. rt_bl \in Born /\ rt_time # unset /\ rt_time \in Time
    BY <1>1, EngineTypes DEF SyncInv, Baselines, Passing
  <2> QED BY <2>1, PairTypes DEF Copies, nothing
<1>4. /\ bl_time' \in [Baseline -> Copies]
      /\ bl_time'[c] = y
      /\ \A b \in Baseline : b # c => bl_time'[b] = bl_time[b]
  BY <1>1, <1>3, EngineTypes
<1>5. new \in SUBSET (Baseline \X Copies)
  BY <1>3
<1>6. <<c, y>> \in new /\ \A x \in new : x[1] = c /\ x[2] = y
  OBVIOUS
<1> HIDE DEF new
<1>7. /\ Batched(rtkpos', Baseline \X Copies)
      /\ All(rtkpos') = All(rtkpos) \union new
      /\ \A i \in DOMAIN rtkpos : i \in DOMAIN rtkpos' /\ rtkpos'[i] = rtkpos[i]
      /\ \A i \in DOMAIN rtkpos' : i \notin DOMAIN rtkpos =>
           /\ rtkpos'[i] = new
           /\ \A j \in DOMAIN rtkpos' : j >= i => j = i
           /\ \A j \in DOMAIN rtkpos : j < i
      /\ new # {} => \E i \in DOMAIN rtkpos' : i \notin DOMAIN rtkpos
  BY <1>1, <1>5, EngineTypes, PutKeeps
<1>8. Baselines'
  <2>1. \A x \in All(rtkpos') : x[1] \in Born' /\ x[2] # nothing
    BY <1>2, <1>3, <1>6, <1>7 DEF SyncInv, Baselines
  <2>2. \A b \in Baseline \ Born' : bl_time'[b] = nothing
    BY <1>2, <1>3, <1>4 DEF SyncInv, Baselines
  <2>3. All(delbl') \subseteq Born' /\ ~Passing'
    BY <1>1, <1>2 DEF SyncInv, Baselines, Passing
  <2> QED BY <2>1, <2>2, <2>3 DEF Baselines, All
<1>9. Solved'
  <2> SUFFICES ASSUME NEW b \in Born, ~Odd(bl_pair[b])' PROVE Final(b)'
    BY <1>2 DEF Solved
  <2>1. ~Odd(bl_pair[b])
    BY <1>1 DEF Odd, history, marks
  <2>2. Final(b)
    BY <2>1 DEF SyncInv, Solved
  <2>3. CASE b = c
    <3>1. PICK i \in DOMAIN rtkpos' : i \notin DOMAIN rtkpos
      BY <1>6, <1>7
    <3>2. <<b, bl_time'[b]>> \in rtkpos'[i]
      BY <1>4, <1>6, <1>7, <2>3, <3>1
    <3>3. ASSUME NEW j \in DOMAIN rtkpos', j >= i, NEW x \in rtkpos'[j], x[1] = b
          PROVE  x[2] = bl_time'[b]
      BY <1>4, <1>6, <1>7, <2>3, <3>1, <3>3
    <3> QED BY <3>2, <3>3 DEF Final
  <2>4. CASE b # c
    <3>1. bl_time'[b] = bl_time[b] /\ blsol'[bl_pair'[b]] = blsol[bl_pair[b]]
      BY <1>1, <1>2, <1>4, <2>4
    <3>2. \A x \in new : x[1] # b
      BY <1>6, <2>4
    <3>3. CASE bl_time[b] = nothing /\ \A x \in All(rtkpos) : x[1] # b
      <4>1. \A x \in All(rtkpos') : x[1] # b
        BY <1>7, <3>2, <3>3
      <4> QED BY <3>1, <3>3, <4>1 DEF Final, All
    <3>4. CASE /\ blsol[bl_pair[b]] = bl_time[b]
               /\ \A x \in All(rtkpos) : x[1] = b => x[2] = bl_time[b]
      <4>1. \A x \in All(rtkpos') : x[1] = b => x[2] = bl_time[b]
        BY <1>7, <3>2, <3>4
      <4> QED BY <3>1, <3>4, <4>1 DEF Final, All
    <3>5. ASSUME NEW i \in DOMAIN rtkpos, <<b, bl_time[b]>> \in rtkpos[i],
                 \A j \in DOMAIN rtkpos : j >= i => \A x \in rtkpos[j] : x[1] = b => x[2] = bl_time[b]
          PROVE  Final(b)'
      <4>1. i \in DOMAIN rtkpos' /\ <<b, bl_time'[b]>> \in rtkpos'[i]
        BY <1>7, <3>1, <3>5
      <4>2. ASSUME NEW j \in DOMAIN rtkpos', j >= i, NEW x \in rtkpos'[j], x[1] = b
            PROVE  x[2] = bl_time'[b]
        BY <1>7, <3>1, <3>2, <3>5, <4>2
      <4> QED BY <4>1, <4>2 DEF Final
    <3> QED BY <2>2, <3>3, <3>4, <3>5 DEF Final
  <2> QED BY <2>3, <2>4
<1>10. UNCHANGED <<dtrig_net, edge_bl, pc, vts, again, half, missed>>
  BY <1>1 DEF network, nrtk, history, marks
<1>11. Pointers' /\ EdgesKept'
  BY <1>1, <1>2, <1>10, PointersKept, EdgesKeptKept DEF Working
<1>12. (\A b \in Born : bl_pair[b] \in Edge)'
  BY <1>1, <1>2, EngineTypes
<1>13. rt_bl' \in 0 .. MaxBl /\ rt_time' \in Time
  BY <1>1, EngineTypes, NrtkSyncAssumption DEF unset, Time
<1> QED BY <1>1, <1>4, <1>7, <1>8, <1>9, <1>11, <1>12, <1>13, EngineTypes, EngineInv

LEMMA EngineGoesOnInv == ASSUME SyncInv, EngineGoesOn PROVE SyncInv'
<1>1. /\ Working
      /\ UNCHANGED <<network, vt_time, nrtk, ask, updbl, baselines, rt_bl, rt_time, queues, blsol, obs,
                     sent, history, crash>>
      /\ epc' \in {"dels", "watch"}
      /\ epc = "adds" => addbl = <<>>
  BY DEF EngineGoesOn
<1>2. UNCHANGED <<dtrig_net, edge_bl, pc, vts, again, half, missed, bl_pair, bl_time, bl_sol, bl_at,
                  addbl, delbl, rtkpos>>
  BY <1>1 DEF network, nrtk, history, marks, baselines, queues
<1>3. Born' = Born
  BY <1>2 DEF Born
<1>4. Baselines' /\ Solved' /\ Pointers'
  BY <1>1, <1>2, <1>3, BaselinesKept, SolvedKept, PointersKept DEF Passing
<1>5. EdgesKept'
  <2>1. CASE epc # "adds"
    BY <1>1, <1>2, <2>1, EdgesKeptKept DEF Working
  <2>2. CASE epc = "adds"
    <3> SUFFICES ASSUME NEW e \in Edge, ~Odd(e)' PROVE EdgeInv(e)'
      BY DEF EdgesKept
    <3>1. EdgeInv(e)
      BY <1>2, OddGrows DEF SyncInv, EdgesKept
    <3>2. Of(e)' = Of(e) /\ Table' = Table
      BY <1>2 DEF Of, Born, Table
    <3>3. All(addbl) = {} /\ All(addbl)' = {} /\ All(delbl)' = All(delbl)
      BY <1>1, <1>2, <2>2 DEF All
    <3>4. Once(addbl, e)' <=> Once(addbl, e)
      BY <1>2 DEF Once
    <3>5. \A b : Once(delbl, b)' <=> Once(delbl, b)
      BY <1>2 DEF Once
    <3>6. Brought(e)' <=> Brought(e)
      BY <1>1 DEF Brought
    <3>7. pc # "init"
      BY <1>1 DEF Working
    <3> QED BY <1>1, <1>2, <1>3, <3>1, <3>2, <3>3, <3>4, <3>5, <3>6, <3>7 DEF EdgeInv
  <2> QED BY <2>1, <2>2
<1>6. (\A b \in Born : bl_pair[b] \in Edge)'
  BY <1>2, <1>3, EngineTypes
<1> QED BY <1>1, <1>2, <1>4, <1>5, <1>6, EngineTypes, EngineInv

\* A baseline that was made is alone between its stations.
LEMMA OneOfPair ==
  ASSUME SyncInv, NEW b \in Born, NEW c \in Born, bl_pair[c] \in {bl_pair[b], Flip(bl_pair[b])},
         ~Odd(bl_pair[b])
  PROVE  c = b
<1>1. bl_pair[b] \in Edge
  BY EngineTypes
<1>2. EdgeInv(bl_pair[b])
  BY <1>1 DEF SyncInv, EdgesKept
<1>3. b \in Of(bl_pair[b]) /\ c \in Of(bl_pair[b])
  BY DEF Of
<1> QED BY <1>2, <1>3 DEF EdgeInv

\* A solution: of the baseline's present epoch if no task of it is left.
LEMMA SolveInv == ASSUME SyncInv, Solve PROVE SyncInv'
<1> DEFINE x0 == First(rtkpos)
           c == x0[1]
           p == bl_pair[c]
<1>1. /\ Working /\ rtkpos # <<>>
      /\ blsol' = [blsol EXCEPT ![p] = x0[2]]
      /\ bl_sol' = [bl_sol EXCEPT ![c] = bl_sol[c] \/ blsol[p] = nothing]
      /\ rtkpos' = Rest(rtkpos)
      /\ UNCHANGED <<network, vt_time, nrtk, ask, updbl, bl_pair, bl_time, bl_at, epc, rt_bl, rt_time,
                     addbl, delbl, obs, sent, history, crash>>
  BY DEF Solve, pass
<1>2. /\ x0 \in All(rtkpos) /\ x0 \in Baseline \X Copies
      /\ Batched(rtkpos', Baseline \X Copies)
      /\ All(rtkpos') \subseteq All(rtkpos)
  BY <1>1, EngineTypes, RestKeeps
<1>3. c \in Born /\ p \in Edge /\ x0[2] \in Copies \ {nothing} /\ c \in Baseline
  BY <1>2, EngineTypes DEF SyncInv, Baselines
<1>4. /\ blsol' \in [Edge -> Copies]
      /\ blsol'[p] = x0[2]
      /\ \A e \in Edge : e # p => blsol'[e] = blsol[e]
  BY <1>1, <1>3, EngineTypes
<1>5. bl_sol' \in [Baseline -> BOOLEAN]
  BY <1>1, <1>3, EngineTypes
<1>6. /\ bl_sol'[c] <=> (bl_sol[c] \/ blsol[p] = nothing)
      /\ \A b \in Baseline : b # c => bl_sol'[b] = bl_sol[b]
  BY <1>1, <1>3, EngineTypes
<1>7. Born' = Born /\ Table' = Table
  BY <1>1 DEF Born, Table
<1>8. UNCHANGED <<dtrig_net, edge_bl, pc, vts, again, half, missed>>
  BY <1>1 DEF network, nrtk, history, marks
<1> HIDE DEF x0, c, p
<1>9. Baselines'
  <2>1. \A x \in All(rtkpos') : x[1] \in Born' /\ x[2] # nothing
    BY <1>2, <1>7 DEF SyncInv, Baselines
  <2> QED BY <1>1, <1>7, <2>1 DEF SyncInv, Baselines, All, Passing
<1>10. Solved'
  <2> SUFFICES ASSUME NEW b \in Born, ~Odd(bl_pair[b])' PROVE Final(b)'
    BY <1>7 DEF Solved
  <2>1. ~Odd(bl_pair[b])
    BY <1>1, <1>8 DEF Odd
  <2>2. Final(b) /\ bl_pair[b] \in Edge
    BY <2>1, EngineTypes DEF SyncInv, Solved
  <2>3. bl_pair[b] = p => b = c
    BY <1>3, <2>1, OneOfPair DEF p
  <2>4. CASE b # c /\ bl_time[b] = nothing /\ \A x \in All(rtkpos) : x[1] # b
    BY <1>1, <1>2, <2>4 DEF Final, All
  <2>5. CASE /\ blsol[bl_pair[b]] = bl_time[b]
             /\ \A x \in All(rtkpos) : x[1] = b => x[2] = bl_time[b]
    <3>1. blsol'[bl_pair[b]] = bl_time[b]
      <4>1. CASE b = c
        BY <1>2, <1>4, <2>5, <4>1 DEF c, p
      <4>2. CASE b # c
        BY <1>4, <2>2, <2>3, <2>5, <4>2
      <4> QED BY <4>1, <4>2
    <3> QED BY <1>1, <1>2, <2>5, <3>1 DEF Final, All
  <2>6. ASSUME NEW i \in DOMAIN rtkpos, <<b, bl_time[b]>> \in rtkpos[i],
               \A j \in DOMAIN rtkpos : j >= i => \A x \in rtkpos[j] : x[1] = b => x[2] = bl_time[b]
        PROVE  Final(b)'
    <3>1. PICK k \in {0, 1} :
            /\ \A j \in DOMAIN rtkpos' : j + k \in DOMAIN rtkpos /\ rtkpos'[j] \subseteq rtkpos[j + k]
            /\ \A j \in DOMAIN rtkpos : \A x \in rtkpos[j] :
                 \/ x = x0 /\ j = 1
                 \/ j - k \in DOMAIN rtkpos' /\ x \in rtkpos'[j - k]
      BY <1>1, EngineTypes, RestShifts DEF x0
    <3>2. rtkpos \in Seq((SUBSET (Baseline \X Copies)) \ {{}}) /\ rtkpos' \in Seq((SUBSET (Baseline \X Copies)) \ {{}})
      BY <1>2, EngineTypes DEF Batched
    <3>3. (\A j \in DOMAIN rtkpos : j \in Nat \ {0}) /\ (\A j \in DOMAIN rtkpos' : j \in Nat \ {0})
      BY <3>2
    <3>4. CASE <<b, bl_time[b]>> = x0 /\ i = 1
      <4>1. b = c /\ blsol'[bl_pair[b]] = bl_time[b]
        BY <1>4, <3>4 DEF c, p
      <4>2. \A x \in All(rtkpos) : x[1] = b => x[2] = bl_time[b]
        BY <2>6, <3>3, <3>4 DEF All
      <4> QED BY <1>1, <1>2, <4>1, <4>2 DEF Final, All
    <3>5. CASE i - k \in DOMAIN rtkpos' /\ <<b, bl_time[b]>> \in rtkpos'[i - k]
      <4>1. ASSUME NEW j \in DOMAIN rtkpos', j >= i - k, NEW x \in rtkpos'[j], x[1] = b
            PROVE  x[2] = bl_time[b]
        <5>1. j + k >= i
          BY <3>3, <4>1
        <5> QED BY <2>6, <3>1, <4>1, <5>1
      <4> QED BY <1>1, <3>5, <4>1 DEF Final
    <3> QED BY <2>6, <3>1, <3>4, <3>5
  <2>7. CASE b = c /\ bl_time[b] = nothing /\ \A x \in All(rtkpos) : x[1] # b
    BY <1>2, <2>7 DEF c
  <2> QED BY <2>2, <2>4, <2>5, <2>6, <2>7 DEF Final
<1>11. Pointers'
  BY <1>1, <1>7, <1>8, PointersKept
<1>12. EdgesKept'
  <2> SUFFICES ASSUME NEW e \in Edge, ~Odd(e)' PROVE EdgeInv(e)'
    BY DEF EdgesKept
  <2>1. EdgeInv(e)
    BY <1>8, OddGrows DEF SyncInv, EdgesKept
  <2>2. blsol'[e] # nothing => \E b \in Born : bl_pair[b] = e /\ bl_sol'[b]
    <3>1. ASSUME NEW b \in Born, bl_sol[b] PROVE bl_sol'[b]
      <4>1. b \in Baseline
        BY DEF Born
      <4> QED BY <1>6, <3>1, <4>1
    <3>2. CASE blsol[e] # nothing
      BY <2>1, <3>1, <3>2 DEF EdgeInv
    <3>3. CASE blsol[e] = nothing /\ blsol'[e] # nothing
      <4>1. e = p
        BY <1>4, <3>3
      <4>2. bl_sol'[c] /\ bl_pair[c] = e
        BY <1>6, <3>3, <4>1 DEF p
      <4> QED BY <1>3, <4>2
    <3> QED BY <3>2, <3>3
  <2>3. Of(e)' = Of(e)
    BY <1>1, <1>7 DEF Of
  <2>4. All(addbl)' = All(addbl) /\ All(delbl)' = All(delbl)
    BY <1>1 DEF All
  <2>5. Once(addbl, e)' <=> Once(addbl, e)
    BY <1>1 DEF Once
  <2>6. \A b : Once(delbl, b)' <=> Once(delbl, b)
    BY <1>1 DEF Once
  <2>7. Brought(e)' <=> Brought(e)
    BY <1>1 DEF Brought
  <2> QED BY <1>1, <1>7, <1>8, <2>1, <2>2, <2>3, <2>4, <2>5, <2>6, <2>7 DEF EdgeInv
<1>13. (\A b \in Born : bl_pair[b] \in Edge)'
  BY <1>1, <1>7, EngineTypes
<1> QED BY <1>1, <1>2, <1>4, <1>5, <1>9, <1>10, <1>11, <1>12, <1>13, EngineTypes, EngineInv

\* A baseline leaves the table, or is freed: if it may have been asked for once only
\* its edge is none any longer.
LEMMA LeavesInv ==
  ASSUME SyncInv, Working, NEW b \in Born, NEW at \in {"leaving", "freed"},
         bl_at' = [bl_at EXCEPT ![b] = at],
         Batched(delbl', Baseline), All(delbl') \subseteq All(delbl),
         \A x \in All(delbl) : x = b \/ x \in All(delbl'),
         \A x : Once(delbl, x) => Once(delbl', x),
         UNCHANGED <<network, vt_time, nrtk, ask, updbl, bl_pair, bl_time, bl_sol, epc, rt_bl,
                     rt_time, addbl, rtkpos,
                     blsol, obs, sent, history, crash>>,
         ~Odd(bl_pair[b]) =>
            /\ b \notin All(delbl')
            /\ (b \in All(delbl) /\ epc = "dels") \/ bl_at[b] = "leaving"
  PROVE  SyncInv'
<1>1. /\ bl_at' \in [Baseline -> {"unborn", "table", "leaving", "freed"}]
      /\ bl_at'[b] = at /\ b \in Baseline
      /\ \A c \in Baseline : c # b => bl_at'[c] = bl_at[c]
  BY EngineTypes DEF Born
<1>2. Born' = Born /\ Table' = Table \ {b}
  BY <1>1 DEF Born, Table
<1>3. UNCHANGED <<dtrig_net, edge_bl, pc, vts, again, half, missed>>
  BY DEF network, nrtk, history, marks
<1>4. Baselines' /\ Solved' /\ Pointers'
  BY <1>2, <1>3, BaselinesKept, SolvedKept, PointersKept
<1>5. EdgesKept'
  <2> SUFFICES ASSUME NEW e \in Edge, ~Odd(e)' PROVE EdgeInv(e)'
    BY DEF EdgesKept
  <2>1. EdgeInv(e) /\ ~Odd(e)
    BY <1>3, OddGrows DEF SyncInv, EdgesKept
  <2>2. Of(e)' = Of(e) /\ Of(e) \subseteq Born
    BY <1>2 DEF Of
  <2>3. b \in Of(e) => /\ b \notin All(delbl')
                       /\ (b \in All(delbl) /\ epc = "dels") \/ bl_at[b] = "leaving"
    <3>1. bl_pair[b] \in Edge
      BY EngineTypes
    <3>2. b \in Of(e) => ~Odd(bl_pair[b])
      BY <2>1, OfFlip DEF Of
    <3> QED BY <3>2
  <2>4. b \in Of(e) => e \notin dtrig_net.edges /\ e \notin All(addbl)
    BY <2>1, <2>3 DEF EdgeInv
  <2>5. \A c \in Of(e) : c # b => bl_at'[c] = bl_at[c]
    BY <1>1, <2>2 DEF Born
  <2>6. All(addbl)' = All(addbl)
    BY DEF All
  <2>7. Once(addbl, e)' <=> Once(addbl, e)
    BY DEF Once
  <2>8. \A c : Once(delbl, c) => Once(delbl, c)'
    BY DEF Once
  <2>9. Brought(e)' <=> Brought(e)
    BY DEF Brought
  <2>10. ASSUME NEW c \in Table', bl_pair[c] = e
         PROVE  e \in dtrig_net.edges \union missed \/ c \in All(delbl')
    <3>1. c \in Table /\ c # b /\ c \in Of(e)
      BY <1>2, <2>10 DEF Of, Table, Born
    <3> QED BY <2>1, <2>10, <3>1 DEF EdgeInv
  <2> QED
    BY <1>1, <1>2, <1>3, <2>1, <2>2, <2>3, <2>4, <2>5, <2>6, <2>7, <2>8, <2>9, <2>10 DEF EdgeInv, All
<1>6. (\A c \in Born : bl_pair[c] \in Edge)'
  BY <1>2, EngineTypes
<1> QED BY <1>1, <1>4, <1>5, <1>6, EngineTypes, EngineInv

LEMMA DelBaselineInv == ASSUME SyncInv, DelBaseline PROVE SyncInv'
<1> PICK b : b = First(delbl)
  OBVIOUS
<1>1. /\ Working /\ epc = "dels" /\ delbl # <<>> /\ bl_at[b] = "table"
      /\ bl_at' = [bl_at EXCEPT ![b] = "leaving"]
      /\ delbl' = Rest(delbl)
      /\ UNCHANGED <<network, vt_time, nrtk, ask, updbl, bl_pair, bl_time, bl_sol, epc, rt_bl,
                     rt_time, addbl, rtkpos,
                     blsol, obs, sent, history, crash>>
  BY DEF DelBaseline, pass
<1>2. /\ b \in All(delbl)
      /\ Batched(delbl', Baseline) /\ All(delbl') \subseteq All(delbl)
      /\ \A x \in All(delbl) : x = b \/ x \in All(delbl')
      /\ \A x : Once(delbl, x) => Once(delbl', x)
      /\ Once(delbl, b) => b \notin All(delbl')
  BY <1>1, EngineTypes, RestKeeps
<1>3. b \in Born
  BY <1>2 DEF SyncInv, Baselines
<1>4. ~Odd(bl_pair[b]) => Once(delbl, b)
  <2>1. bl_pair[b] \in Edge /\ b \in Of(bl_pair[b])
    BY <1>3, EngineTypes DEF Of
  <2> QED BY <2>1 DEF SyncInv, EdgesKept, EdgeInv
<1> QED BY <1>1, <1>2, <1>3, <1>4, LeavesInv

LEMMA FreeBaselineInv == ASSUME SyncInv, NEW b \in Baseline, FreeBaseline(b) PROVE SyncInv'
<1>1. /\ Working /\ bl_at[b] = "leaving"
      /\ bl_at' = [bl_at EXCEPT ![b] = "freed"]
      /\ UNCHANGED <<network, vt_time, nrtk, ask, updbl, bl_pair, bl_time, bl_sol, epc, rt_bl,
                     rt_time, queues, blsol,
                     obs, sent, history, crash>>
  BY DEF FreeBaseline, pass
<1>2. UNCHANGED <<addbl, delbl, rtkpos>>
  BY <1>1 DEF queues
<1>3. b \in Born
  BY <1>1 DEF Born
<1>4. ~Odd(bl_pair[b]) => b \notin All(delbl)
  <2>1. bl_pair[b] \in Edge /\ b \in Of(bl_pair[b])
    BY <1>3, EngineTypes DEF Of
  <2> QED BY <1>1, <2>1 DEF SyncInv, EdgesKept, EdgeInv
<1>5. Batched(delbl', Baseline) /\ All(delbl') = All(delbl) /\ \A x : Once(delbl', x) <=> Once(delbl, x)
  BY <1>2, EngineTypes
<1> QED BY <1>1, <1>2, <1>3, <1>4, <1>5, LeavesInv

\* A pointer on its way is put behind the others.
LEMMA UpdblAppend ==
  ASSUME SyncInv, NEW b \in Baseline, NEW e \in Edge, updbl' = Append(updbl, <<b, e>>)
  PROVE  /\ updbl' \in Seq(Baseline \X Edge)
         /\ \A i \in DOMAIN updbl : i \in DOMAIN updbl' /\ updbl'[i] = updbl[i]
         /\ \A i \in DOMAIN updbl' : i \in DOMAIN updbl \/ updbl'[i] = <<b, e>>
         /\ \E i \in DOMAIN updbl' : updbl'[i] = <<b, e>>
<1>1. updbl \in Seq(Baseline \X Edge) /\ <<b, e>> \in Baseline \X Edge
  BY EngineTypes
<1>2. /\ Len(updbl') = Len(updbl) + 1 /\ updbl'[Len(updbl) + 1] = <<b, e>>
      /\ \A i \in 1 .. Len(updbl) : updbl'[i] = updbl[i]
      /\ Len(updbl) \in Nat /\ DOMAIN updbl = 1 .. Len(updbl)
      /\ updbl' \in Seq(Baseline \X Edge)
  BY <1>1
<1>3. DOMAIN updbl' = 1 .. Len(updbl) + 1
  BY <1>2
<1> QED BY <1>2, <1>3

\* A baseline that was asked for: e leaves addbl, and becomes the pair of a new baseline,
\* or has one.
LEMMA AddBaselineInv == ASSUME SyncInv, AddBaseline PROVE SyncInv'
<1> PICK e : e = First(addbl)
  OBVIOUS
<1>1. /\ Working /\ epc = "adds" /\ addbl # <<>> /\ addbl' = Rest(addbl)
      /\ UNCHANGED <<network, vt_time, nrtk, ask, bl_time, bl_sol, epc, rt_bl, rt_time, delbl, rtkpos,
                     blsol, obs, sent, history, crash>>
  BY DEF AddBaseline, pass
<1>2. \/ /\ Find(e) # {}
         /\ UNCHANGED <<bl_pair, bl_at, updbl>>
      \/ /\ Find(e) = {}
         /\ \E b \in Find(Flip(e)) : updbl' = Append(updbl, <<b, e>>)
         /\ UNCHANGED <<bl_pair, bl_at>>
      \/ /\ Find(e) = {} /\ Find(Flip(e)) = {}
         /\ \E b \in Least(Baseline \ Born) :
              /\ bl_pair' = [bl_pair EXCEPT ![b] = e]
              /\ bl_at' = [bl_at EXCEPT ![b] = "table"]
              /\ updbl' = Append(updbl, <<b, e>>)
  BY DEF AddBaseline
<1>3. /\ e \in All(addbl) /\ e \in Edge
      /\ Batched(addbl', Edge) /\ All(addbl') \subseteq All(addbl)
      /\ \A x \in All(addbl) : x = e \/ x \in All(addbl')
      /\ \A x : Once(addbl, x) => Once(addbl', x)
      /\ Once(addbl, e) => e \notin All(addbl')
  BY <1>1, EngineTypes, RestKeeps
<1>4. UNCHANGED <<dtrig_net, edge_bl, pc, vts, again, half, missed>>
  BY <1>1 DEF network, nrtk, history, marks
<1>5. ASSUME NEW x, ~Odd(x)' PROVE ~Odd(x)
  BY <1>4, <1>5, OddGrows
\* Whatever becomes of e, these follow if no baseline is new.
<1>6. ASSUME UNCHANGED <<bl_pair, bl_at>>, updbl' \in Seq(Baseline \X Edge),
             \A i \in DOMAIN updbl : i \in DOMAIN updbl' /\ updbl'[i] = updbl[i],
             \A i \in DOMAIN updbl' : i \in DOMAIN updbl \/ updbl'[i][1] \in Of(updbl'[i][2]),
             ~Odd(e) => Brought(e)'
      PROVE  SyncInv'
  <2>1. Born' = Born /\ Table' = Table /\ \A x : Of(x)' = Of(x)
    BY <1>6 DEF Born, Table, Of
  <2>2. Baselines' /\ Solved'
    BY <1>1, <1>4, <1>6, <2>1, BaselinesKept, SolvedKept
  <2>3. Pointers'
    BY <1>1, <1>4, <1>6, <2>1 DEF SyncInv, Pointers
  <2>4. EdgesKept'
    <3> SUFFICES ASSUME NEW x \in Edge, ~Odd(x)' PROVE EdgeInv(x)'
      BY DEF EdgesKept
    <3>1. EdgeInv(x) /\ ~Odd(x)
      BY <1>5 DEF SyncInv, EdgesKept
    <3>2. x \in All(addbl) => x \in All(addbl') \/ Brought(x)'
      BY <1>3, <1>6, <3>1
    <3>3. Brought(x) => Brought(x)'
      BY <1>6 DEF Brought
    <3>4. All(delbl)' = All(delbl) /\ \A b : Once(delbl, b)' <=> Once(delbl, b)
      BY <1>1 DEF All, Once
    <3>5. All(addbl') \subseteq All(addbl) /\ All(addbl)' = All(addbl') /\ Once(addbl, x)'
      BY <1>3, <3>1 DEF EdgeInv, All, Once
    <3> QED BY <1>1, <1>4, <1>6, <2>1, <3>1, <3>2, <3>3, <3>4, <3>5 DEF EdgeInv
  <2>5. (\A b \in Born : bl_pair[b] \in Edge)'
    BY <1>6, <2>1, EngineTypes
  <2> QED BY <1>1, <1>3, <1>6, <2>2, <2>3, <2>4, <2>5, EngineTypes, EngineInv
<1>7. CASE Find(e) # {} /\ UNCHANGED <<bl_pair, bl_at, updbl>>
  <2>1. Odd(e)
    BY <1>3, <1>7 DEF SyncInv, EdgesKept, EdgeInv, Find, Table, Born
  <2> QED BY <1>6, <1>7, <2>1, EngineTypes
<1>8. ASSUME NEW b \in Find(Flip(e)), updbl' = Append(updbl, <<b, e>>), UNCHANGED <<bl_pair, bl_at>>
      PROVE  SyncInv'
  <2>1. b \in Baseline /\ b \in Of(e)
    BY DEF Find, Table, Of, Born
  <2>2. /\ updbl' \in Seq(Baseline \X Edge)
        /\ \A i \in DOMAIN updbl : i \in DOMAIN updbl' /\ updbl'[i] = updbl[i]
        /\ \A i \in DOMAIN updbl' : i \in DOMAIN updbl \/ updbl'[i] = <<b, e>>
        /\ \E i \in DOMAIN updbl' : updbl'[i] = <<b, e>>
    BY <1>3, <1>8, <2>1, UpdblAppend
  <2>3. Brought(e)'
    BY <2>2 DEF Brought
  <2>4. \A i \in DOMAIN updbl' : i \in DOMAIN updbl \/ updbl'[i][1] \in Of(updbl'[i][2])
    BY <2>1, <2>2
  <2> QED BY <1>6, <1>8, <2>2, <2>3, <2>4
<1>9. ASSUME NEW b \in Baseline \ Born, Find(e) = {}, Find(Flip(e)) = {},
             bl_pair' = [bl_pair EXCEPT ![b] = e],
             bl_at' = [bl_at EXCEPT ![b] = "table"],
             updbl' = Append(updbl, <<b, e>>)
      PROVE  SyncInv'
  <2>1. /\ bl_pair' \in [Baseline -> Edge \union {<<>>}]
        /\ bl_at' \in [Baseline -> {"unborn", "table", "leaving", "freed"}]
        /\ bl_pair'[b] = e /\ bl_at'[b] = "table"
        /\ \A c \in Baseline : c # b => bl_pair'[c] = bl_pair[c] /\ bl_at'[c] = bl_at[c]
    BY <1>3, <1>9, EngineTypes
  <2>2. Born' = Born \union {b} /\ Table' = Table \union {b} /\ Born \subseteq Baseline
    BY <2>1 DEF Born, Table
  <2>3. \A c \in Born : c # b /\ bl_pair'[c] = bl_pair[c] /\ bl_at'[c] = bl_at[c]
    BY <1>9, <2>1, <2>2
  <2>4. (\A c \in Born : bl_pair[c] \in Edge)'
    BY <1>3, <2>1, <2>2, <2>3, EngineTypes
  <2>5. \A x : Of(x)' = Of(x) \union (IF e \in {x, Flip(x)} THEN {b} ELSE {})
    BY <2>1, <2>2, <2>3 DEF Of
  <2>6. /\ updbl' \in Seq(Baseline \X Edge)
        /\ \A i \in DOMAIN updbl : i \in DOMAIN updbl' /\ updbl'[i] = updbl[i]
        /\ \A i \in DOMAIN updbl' : i \in DOMAIN updbl \/ updbl'[i] = <<b, e>>
        /\ \E i \in DOMAIN updbl' : updbl'[i] = <<b, e>>
    BY <1>3, <1>9, UpdblAppend
  <2>7. Baselines'
    BY <1>1, <2>2 DEF SyncInv, Baselines, All, Passing
  <2>8. Solved'
    <3> SUFFICES ASSUME NEW c \in Born', ~Odd(bl_pair[c])' PROVE Final(c)'
      BY DEF Solved
    <3>1. CASE c = b
      <4>1. bl_time[b] = nothing /\ \A x \in All(rtkpos) : x[1] # b
        BY <1>9 DEF SyncInv, Baselines
      <4> QED BY <1>1, <3>1, <4>1 DEF Final, All
    <3>2. CASE c # b
      <4>1. c \in Born /\ bl_pair'[c] = bl_pair[c]
        BY <2>2, <2>3, <3>2
      <4>2. ~Odd(bl_pair[c])
        BY <1>4, <4>1 DEF Odd
      <4>3. Final(c)
        BY <4>1, <4>2 DEF SyncInv, Solved
      <4> QED BY <1>1, <4>1, <4>3 DEF Final, All
    <3> QED BY <3>1, <3>2
  <2>9. Pointers'
    <3>1. \A x \in Edge : edge_bl'[x] # unset => edge_bl'[x] \in Of(x)'
      BY <1>4, <2>5 DEF SyncInv, Pointers
    <3>2. \A i \in DOMAIN updbl' : updbl'[i][1] \in Of(updbl[i][2])'
      <4> SUFFICES ASSUME NEW i \in DOMAIN updbl' PROVE updbl'[i][1] \in Of(updbl[i][2])'
        OBVIOUS
      <4>1. PICK y : y = updbl'[i]
        OBVIOUS
      <4>2. y[1] \in Of(y[2])'
        <5>1. CASE i \in DOMAIN updbl
          <6>1. y = updbl[i]
            BY <2>6, <4>1, <5>1
          <6> QED BY <2>5, <5>1, <6>1 DEF SyncInv, Pointers
        <5>2. CASE y = <<b, e>>
          BY <2>5, <5>2
        <5> QED BY <2>6, <4>1, <5>1, <5>2
      <4> QED BY <4>1, <4>2
    <3> QED BY <1>1, <1>4, <3>1, <3>2 DEF SyncInv, Pointers
  <2>10. EdgesKept'
    <3> SUFFICES ASSUME NEW x \in Edge, ~Odd(x)' PROVE EdgeInv(x)'
      BY DEF EdgesKept
    <3>1. EdgeInv(x) /\ ~Odd(x)
      BY <1>5 DEF SyncInv, EdgesKept
    <3>2. Brought(x) => Brought(x)'
      BY <2>6 DEF Brought
    <3>3. All(delbl)' = All(delbl) /\ \A c : Once(delbl, c)' <=> Once(delbl, c)
      BY <1>1 DEF All, Once
    <3>4. All(addbl)' = All(addbl') /\ Once(addbl, x)'
      BY <1>3, <3>1 DEF EdgeInv, All, Once
    <3>5. b \notin All(delbl) /\ Once(delbl, b)
      BY <1>9 DEF SyncInv, Baselines, Once, All
    <3>6. pc # "init"
      BY <1>1 DEF Working
    <3>7. blsol'[x] # nothing => \E c \in Born' : bl_pair'[c] = x /\ bl_sol'[c]
      BY <1>1, <2>2, <2>3, <3>1 DEF EdgeInv
    <3>8. CASE e \notin {x, Flip(x)}
      <4>1. Of(x)' = Of(x)
        BY <2>5, <3>8
      <4>2. x \in All(addbl) <=> x \in All(addbl')
        BY <1>3, <3>8
      <4>3. \A c \in Of(x) : c \in Born
        BY DEF Of
      <4>4. \A c \in Born' : bl_pair'[c] = x => c \in Born /\ bl_pair[c] = x
        BY <2>1, <2>2, <2>3, <3>8
      <4>5. \A c \in Table' : bl_pair'[c] = x => c \in Table /\ bl_pair[c] = x
        BY <2>1, <2>2, <2>3, <3>8 DEF Table, Born
      <4> QED BY <1>1, <1>4, <2>3, <3>1, <3>2, <3>3, <3>4, <3>6, <3>7, <4>1, <4>2, <4>3, <4>4, <4>5
              DEF EdgeInv
    <3>9. CASE e \in {x, Flip(x)}
      <4>1. ~Odd(e) /\ Flip(x) \in Edge
        BY <3>1, <3>9, OfFlip, FlipBack
      <4>2. EdgeInv(e)
        BY <1>3, <4>1 DEF SyncInv, EdgesKept
      <4>3. Of(e) = Of(x)
        BY <3>9, OfFlip
      <4>4. Of(e) = {}
        <5> SUFFICES ASSUME NEW c \in Of(e) PROVE FALSE
          OBVIOUS
        <5>1. bl_at[c] = "table"
          BY <1>3, <4>2 DEF EdgeInv
        <5>2. c \in Find(e) \union Find(Flip(e))
          BY <5>1 DEF Of, Find, Table, Born
        <5> QED BY <1>9, <5>2
      <4>5. Of(x)' = {b}
        BY <2>5, <3>9, <4>3, <4>4
      <4>6. e \notin All(addbl')
        BY <1>3, <4>2 DEF EdgeInv
      <4>7. \A c \in Born : bl_pair[c] # x
        BY <4>3, <4>4 DEF Of
      <4>8. x \in All(addbl') => x # e /\ x \in dtrig_net.edges \union missed
        BY <1>3, <3>1, <4>6 DEF EdgeInv
      <4>9. \A c \in Born' : bl_pair'[c] = x => x = e
        BY <2>1, <2>2, <2>3, <4>7
      <4>10. e \in dtrig_net.edges \union missed
        BY <1>3, <4>2 DEF EdgeInv
      <4>11. x \in dtrig_net.edges => x \in All(addbl') \/ Brought(x)'
        <5>1. CASE x = e
          BY <2>6, <5>1 DEF Brought
        <5>2. CASE x # e
          <6>1. ASSUME x \in dtrig_net.edges PROVE x \in All(addbl) \/ Brought(x)
            BY <3>1, <3>6, <4>3, <4>4, <6>1 DEF EdgeInv
          <6> QED BY <1>3, <3>2, <5>2, <6>1
        <5> QED BY <5>1, <5>2
      <4>12. \A c \in Table' : bl_pair'[c] = x => x \in dtrig_net.edges \union missed
        BY <2>2, <4>9, <4>10 DEF Table, Born
      <4> QED BY <1>1, <1>4, <2>1, <3>1, <3>3, <3>4, <3>5, <3>7, <4>5, <4>8, <4>9, <4>11, <4>12
              DEF EdgeInv
    <3> QED BY <3>8, <3>9
  <2> QED BY <1>1, <1>3, <2>1, <2>4, <2>6, <2>7, <2>8, <2>9, <2>10, EngineTypes, EngineInv
<1> QED BY <1>2, <1>7, <1>8, <1>9 DEF Least

-----------------------------------------------------------------------------
(* One lemma per action: the network.                                      *)

\* Both directions of an edge that is not odd are there.
LEMMA BothWays ==
  ASSUME SyncInv, NEW e \in Edge, ~Odd(e)
  PROVE  e \in dtrig_net.edges <=> Flip(e) \in dtrig_net.edges
<1>1. EdgeInv(e) /\ EdgeInv(Flip(e)) /\ Flip(Flip(e)) = e
  BY OfFlip, FlipBack DEF SyncInv, EdgesKept
<1> QED BY <1>1 DEF EdgeInv

\* The same after an operation that leaves them together.
LEMMA StayTogether ==
  ASSUME SyncInv, NEW E, Together(E, dtrig_net.edges), NEW e \in Edge, ~Odd(e), e \in E
  PROVE  Flip(e) \in E
<1>1. e = <<e[1], e[2]>> /\ Flip(e) = <<e[2], e[1]>> /\ e[1] \in Srcid /\ e[2] \in Srcid
  BY DEF Edge, Flip
<1>2. <<e[1], e[2]>> \in dtrig_net.edges <=> <<e[2], e[1]>> \in dtrig_net.edges
  BY <1>1, BothWays
<1> QED BY <1>1, <1>2 DEF Together

\* A task is taken from the front of its queue.
LEMMA TakeKeeps ==
  ASSUME SyncInv, NEW k \in Queue, TakeFrom(k)
  PROVE  /\ ask'["addsrc"] \in Seq(Srcid) /\ ask'["delsrc"] \in Seq(Srcid)
         /\ ask'["addbl"] \in Seq(Edge) /\ ask'["delbl"] \in Seq(Edge)
         /\ DOMAIN ask' = Queue
         /\ \A x \in {"addbl", "delbl"} : \A i \in DOMAIN ask'[x] : ask'[x][i] \in half
         /\ k \in {"addsrc", "delsrc"} => Head(ask[k]) \in Srcid
         /\ k \in {"addbl", "delbl"} => Head(ask[k]) \in Edge /\ Head(ask[k]) \in half
<1>1. ask[k] # <<>> /\ ask' = [ask EXCEPT ![k] = Tail(ask[k])]
  BY DEF TakeFrom
<1>2. /\ ask["addsrc"] \in Seq(Srcid) /\ ask["delsrc"] \in Seq(Srcid)
      /\ ask["addbl"] \in Seq(Edge) /\ ask["delbl"] \in Seq(Edge)
      /\ DOMAIN ask = Queue
  BY DEF SyncInv, SyncTypeOK
<1>3. /\ DOMAIN ask' = Queue
      /\ ask'[k] = Tail(ask[k])
      /\ \A x \in Queue : x # k => ask'[x] = ask[x]
  BY <1>1, <1>2
<1>4. ASSUME NEW x \in {"addsrc", "delsrc"}
      PROVE  ask'[x] \in Seq(Srcid) /\ (x = k => Head(ask[k]) \in Srcid)
  <2>1. ask[x] \in Seq(Srcid) /\ x \in Queue
    BY <1>2 DEF Queue
  <2> QED BY <1>1, <1>3, <2>1
<1>5. ASSUME NEW x \in {"addbl", "delbl"}
      PROVE  /\ ask'[x] \in Seq(Edge)
             /\ x = k => Head(ask[k]) \in Edge /\ Head(ask[k]) \in half
             /\ \A i \in DOMAIN ask'[x] : ask'[x][i] \in half
  <2>1. ask[x] \in Seq(Edge) /\ x \in Queue
    BY <1>2 DEF Queue
  <2>2. \A i \in DOMAIN ask[x] : ask[x][i] \in half
    BY DEF SyncInv, Pointers
  <2>3. CASE x = k
    <3>1. ask[x] # <<>> /\ ask'[x] = Tail(ask[x])
      BY <1>1, <1>3, <2>3
    <3>2. /\ Head(ask[x]) = ask[x][1] /\ 1 \in DOMAIN ask[x]
          /\ Tail(ask[x]) \in Seq(Edge) /\ Head(ask[x]) \in Edge
          /\ \A i \in DOMAIN Tail(ask[x]) : i + 1 \in DOMAIN ask[x] /\ Tail(ask[x])[i] = ask[x][i + 1]
      BY <2>1, <3>1
    <3> QED BY <2>2, <2>3, <3>1, <3>2
  <2>4. CASE x # k
    BY <1>3, <2>1, <2>2, <2>4
  <2> QED BY <2>3, <2>4
<1> QED BY <1>3, <1>4, <1>5

\* nrtk_upd_bls: for an edge that is not odd what the engine is asked for is what
\* the network has more, and less, than before.
LEMMA ChangeInv ==
  ASSUME SyncInv, NEW k \in Queue, TakeFrom(k),
         NEW n, NEW plus \in SUBSET Edge, NEW minus \in SUBSET Edge,
         Change(n, plus, minus), Mark(plus, minus),
         Consistent(n), NoTwin(n.dtrigs),
         torn' \subseteq Edge, \A p \in n.trig_edge : p[2] \in n.edges \union torn',
         Cardinality(n.vertexs) >= 3 => n.edges \subseteq n.vertexs \X n.vertexs,
         \A e \in Edge : ~Odd(e)' => /\ e \in plus <=> e \in n.edges \ dtrig_net.edges
                                     /\ e \in minus <=> e \in dtrig_net.edges \ n.edges
                                     /\ e \in n.edges => Flip(e) \in n.edges
  PROVE  SyncInv'
<1> DEFINE old == dtrig_net.edges
           gone == Asked(minus)
<1>1. /\ Working /\ pc = k
      /\ UNCHANGED <<vt_time, nrtk, updbl, baselines, epc, rt_bl, rt_time, rtkpos, blsol, obs, sent,
                     known, asked, half, raced, crash>>
  BY DEF TakeFrom, pass
<1>2. UNCHANGED <<pc, todo, vts, time_cur, bl_pair, bl_time, bl_sol, bl_at>>
  BY <1>1 DEF nrtk, baselines
<1>3. /\ dtrig_net' = n
      /\ edge_bl' = [e \in Edge |-> IF e \in old \intersect n.edges THEN edge_bl[e] ELSE unset]
      /\ addbl' = Put(addbl, plus) /\ delbl' = Put(delbl, gone)
  BY DEF Change
<1>4. /\ again' = again \union {e \in plus : Waits(e) \/ Of(e) # {}}
      /\ missed' = missed \union {e \in minus : Waits(e)}
  BY DEF Mark
<1>5. /\ Born' = Born /\ Table' = Table /\ Table \subseteq Born /\ gone \subseteq Table
      /\ \A b \in gone : bl_pair[b] \in minus
      /\ \A b \in Table : bl_pair[b] \in minus => b \in gone
      /\ \A e : Of(e)' = Of(e)
  BY <1>2 DEF Born, Table, Asked, Of
<1>6. /\ n \in Net /\ gone \in SUBSET Baseline
      /\ edge_bl \in [Edge -> 0 .. MaxBl] /\ again \subseteq Edge /\ missed \subseteq Edge
  BY <1>5 DEF Consistent, SyncInv, SyncTypeOK, Born
<1> HIDE DEF old, gone
<1>7. /\ Batched(addbl', Edge)
      /\ All(addbl') = All(addbl) \union plus
      /\ \A x : Once(addbl, x) /\ (x \notin plus \/ x \notin All(addbl)) => Once(addbl', x)
  BY <1>3, EngineTypes, PutKeeps
<1>8. /\ Batched(delbl', Baseline)
      /\ All(delbl') = All(delbl) \union gone
      /\ \A x : Once(delbl, x) /\ (x \notin gone \/ x \notin All(delbl)) => Once(delbl', x)
  BY <1>3, <1>6, EngineTypes, PutKeeps
<1>9. edge_bl' \in [Edge -> 0 .. MaxBl]
  <2>1. 0 \in 0 .. MaxBl
    BY NrtkSyncAssumption
  <2> QED BY <1>3, <1>6, <2>1 DEF unset
<1>10. SyncTypeOK'
  <2>1. /\ dtrig_net' \in Net /\ again' \subseteq Edge /\ missed' \subseteq Edge
    BY <1>3, <1>4, <1>6
  <2> QED BY <1>1, <1>2, <1>5, <1>7, <1>8, <1>9, <2>1, TakeKeeps DEF SyncInv, SyncTypeOK
<1>11. SyncNet'
  BY <1>3 DEF SyncNet
<1>12. Booting' /\ Times' /\ CrashExcused'
  BY <1>1, <1>2, BootingKept, TimesKept, NoCrash DEF Working
<1>13. Pointers'
  <2>1. \A e \in Edge : edge_bl'[e] # unset => edge_bl'[e] \in Of(e)'
    BY <1>3, <1>5 DEF SyncInv, Pointers
  <2>2. pc' # "update"
    BY <1>1, <1>2 DEF Queue
  <2> QED BY <1>1, <1>5, <2>1, <2>2, TakeKeeps DEF SyncInv, Pointers
<1>14. Baselines'
  <2>1. All(delbl') \subseteq Born'
    BY <1>5, <1>8 DEF SyncInv, Baselines
  <2> QED BY <1>1, <1>2, <1>5, <2>1 DEF SyncInv, Baselines, All, Passing
<1>15. Solved'
  BY <1>1, <1>2, <1>4, <1>5, SolvedKept
<1>16. EdgesKept'
  <2> SUFFICES ASSUME NEW e \in Edge, ~Odd(e)' PROVE EdgeInv(e)'
    BY DEF EdgesKept
  <2>1. ~Odd(e) /\ EdgeInv(e)
    BY <1>1, <1>4, OddGrows DEF SyncInv, EdgesKept
  <2>2. /\ e \in plus <=> e \in n.edges \ old
        /\ e \in minus <=> e \in old \ n.edges
        /\ e \in n.edges => Flip(e) \in n.edges
    BY DEF old
  <2>3. e \in plus => e \notin All(addbl) /\ Of(e) = {}
    BY <1>4 DEF Odd, Waits
  <2>4. pc # "init" /\ All(addbl)' = All(addbl') /\ All(delbl)' = All(delbl')
    BY <1>1 DEF Working, All
  <2>5. e \in minus /\ e \in All(addbl) => e \in missed'
    BY <1>4 DEF Waits
  <2>6. \A b \in Of(e) : b \in Born /\ bl_pair[b] \in {e, Flip(e)}
    BY DEF Of
  \* A baseline that the engine is now asked to delete was in the table, and asked
  \* for by nobody else.
  <2>7. ASSUME NEW b \in Of(e), b \in gone
        PROVE  bl_at[b] = "table" /\ b \notin All(delbl) /\ e \notin n.edges
    <3> PICK p : p = bl_pair[b]
      OBVIOUS
    <3>1. p \in minus /\ bl_at[b] = "table" /\ p \in Edge /\ p \in {e, Flip(e)}
      BY <1>5, <2>6, <2>7 DEF Table
    <3>2. (Odd(e)' <=> Odd(p)') /\ Flip(p) \in {e, Flip(e)} /\ Of(p) = Of(e) /\ ~Odd(p)
      <4>1. Flip(Flip(e)) = e
        BY FlipBack
      <4>2. CASE p = e
        BY <2>1, <4>2
      <4>3. CASE p = Flip(e)
        <5>1. Odd(e)' <=> Odd(Flip(e))'
          BY <4>1 DEF Odd
        <5> QED BY <2>1, <4>1, <4>3, <5>1, OfFlip
      <4> QED BY <3>1, <4>2, <4>3
    <3>3. p \in old /\ p \notin n.edges
      BY <3>1, <3>2 DEF old
    <3>4. EdgeInv(p)
      BY <3>1, <3>2 DEF SyncInv, EdgesKept
    <3>5. b \notin All(delbl)
      BY <2>7, <3>2, <3>3, <3>4 DEF EdgeInv, old
    <3>6. e \notin n.edges
      BY <2>2, <3>1, <3>3
    <3> QED BY <3>1, <3>5, <3>6
  <2>8. \A b \in Of(e) : e \in n.edges => b \notin All(delbl') /\ bl_at[b] = "table"
    BY <1>8, <2>1, <2>2, <2>3, <2>7 DEF EdgeInv, old
  <2>9. \A b \in Of(e) : Once(delbl', b) /\ (b \in All(delbl') => bl_at[b] = "table")
    BY <1>8, <2>1, <2>7 DEF EdgeInv
  <2>10. Once(addbl', e)
    BY <1>7, <2>1, <2>3 DEF EdgeInv
  <2>11. e \in All(addbl') => /\ e \in n.edges \union missed'
                              /\ \A b \in Born : bl_pair[b] # e
    <3>1. \A b \in Born : bl_pair[b] = e => b \in Of(e)
      BY DEF Of
    <3> QED BY <1>4, <1>7, <2>1, <2>2, <2>3, <2>5, <3>1 DEF EdgeInv, old
  <2>12. \A b \in Of(e) : e \in All(addbl') => bl_at[b] = "table" /\ epc = "adds"
    BY <1>7, <2>1, <2>3 DEF EdgeInv
  <2>13. e \in n.edges => e \in All(addbl') \/ edge_bl'[e] \in Of(e) \/ Brought(e)
    <3>1. CASE e \in old
      BY <1>3, <1>7, <2>1, <2>4, <3>1 DEF EdgeInv, old
    <3>2. CASE e \notin old
      BY <1>7, <2>2, <3>2
    <3> QED BY <3>1, <3>2
  <2>14. \A b \in Table : bl_pair[b] = e => e \in n.edges \union missed' \/ b \in All(delbl')
    BY <1>4, <1>5, <1>8, <2>1, <2>2 DEF EdgeInv, old
  <2>15. (Brought(e)' <=> Brought(e)) /\ Once(addbl, e)' /\ \A b : Once(delbl, b)' <=> Once(delbl', b)
    BY <1>1, <2>10 DEF Brought, Once
  <2> QED
    BY <1>1, <1>2, <1>3, <1>5, <2>1, <2>2, <2>4, <2>8, <2>9, <2>11, <2>12, <2>13, <2>14, <2>15
    DEF EdgeInv
<1> QED BY <1>10, <1>11, <1>12, <1>13, <1>14, <1>15, <1>16 DEF SyncInv

\* A build, or none when the station is there already, or is not.
LEMMA BuildInv ==
  ASSUME SyncInv, NEW k \in Queue, TakeFrom(k), NEW r,
         Change(r.net, r.add, r.del), Mark(r.add, r.del),
         \/ r = Result(dtrig_net, {}, {}) /\ torn' = torn
         \/ torn' = {} /\ \E V : NetStep(dtrig_net, V, r)
  PROVE  SyncInv'
<1>1. again \subseteq again' /\ half' = half
  BY DEF Mark, TakeFrom
<1>2. dtrig_net \in Net /\ dtrig_net.edges \subseteq Edge
  BY DEF SyncInv, SyncTypeOK, Net
<1>3. CASE r = Result(dtrig_net, {}, {}) /\ torn' = torn
  <2>1. r.net = dtrig_net /\ r.add = {} /\ r.del = {}
    BY <1>3 DEF Result
  <2>2. ASSUME NEW e \in Edge, ~Odd(e)', e \in dtrig_net.edges PROVE Flip(e) \in dtrig_net.edges
    BY <1>1, <2>2, OddGrows, BothWays
  <2>3. torn \subseteq Edge
    BY DEF SyncInv, SyncTypeOK
  <2> QED BY <1>3, <2>1, <2>2, <2>3, ChangeInv DEF SyncInv, SyncNet
<1>4. CASE torn' = {} /\ \E V : NetStep(dtrig_net, V, r)
  <2>1. PICK V : NetStep(dtrig_net, V, r)
    BY <1>4
  <2>2. /\ Consistent(r.net) /\ NoTwin(r.net.dtrigs) /\ r.net.vertexs = V
        /\ r.add = r.net.edges \ dtrig_net.edges
        /\ r.del = dtrig_net.edges \ r.net.edges
        /\ Cardinality(V) >= 3 => r.net.edges \subseteq r.net.vertexs \X r.net.vertexs
        /\ Together(r.net.edges, dtrig_net.edges)
        /\ \A p \in r.net.trig_edge : p[2] \in r.net.edges
    BY <2>1 DEF NetStep, Closed
  <2>3. r.net.edges \subseteq Edge
    BY <2>2 DEF Consistent, Net
  <2>4. r.add \in SUBSET Edge /\ r.del \in SUBSET Edge
    BY <1>2, <2>2, <2>3
  <2>5. ASSUME NEW e \in Edge, ~Odd(e)', e \in r.net.edges PROVE Flip(e) \in r.net.edges
    BY <1>1, <2>2, <2>5, OddGrows, StayTogether
  <2> QED BY <1>4, <2>2, <2>4, <2>5, ChangeInv
<1> QED BY <1>3, <1>4

LEMMA DoAddSourceInv == ASSUME SyncInv, DoAddSource PROVE SyncInv'
<1> DEFINE s == Head(ask["addsrc"])
<1>1. TakeFrom("addsrc") /\ "addsrc" \in Queue
  BY DEF DoAddSource, Queue
<1>2. PICK r \in AddVertex(dtrig_net, s) :
        /\ Change(r.net, r.add, r.del) /\ Mark(r.add, r.del)
        /\ torn' = IF r.net.vertexs = dtrig_net.vertexs THEN torn ELSE {}
  BY DEF DoAddSource
<1>3. s \in Srcid
  BY <1>1, TakeKeeps
<1> HIDE DEF s
<1>4. CASE r = Result(dtrig_net, {}, {})
  <2>1. torn' = torn
    BY <1>2, <1>4 DEF Result
  <2> QED BY <1>1, <1>2, <1>4, <2>1, BuildInv
<1>5. CASE r # Result(dtrig_net, {}, {}) /\ s \notin dtrig_net.vertexs
  <2>1. r \in Rebuilt([dtrig_net EXCEPT !.vertexs = dtrig_net.vertexs \union {s}])
    BY <1>2, <1>5 DEF AddVertex, SyncInv, SyncTypeOK, Net
  <2>2. dtrig_net.vertexs \union {s} \in SUBSET Srcid
    BY <1>3 DEF SyncInv, SyncTypeOK, Net
  <2>3. NetStep(dtrig_net, dtrig_net.vertexs \union {s}, r)
    BY <2>1, <2>2, VertexsChanged DEF SyncInv, SyncNet
  <2>4. torn' = {}
    BY <1>2, <1>5, <2>3 DEF NetStep
  <2> QED BY <1>1, <1>2, <2>3, <2>4, BuildInv
<1>6. r = Result(dtrig_net, {}, {}) \/ s \notin dtrig_net.vertexs
  BY <1>2 DEF AddVertex
<1> QED BY <1>4, <1>5, <1>6

LEMMA DoDelSourceInv == ASSUME SyncInv, DoDelSource PROVE SyncInv'
<1> DEFINE s == Head(ask["delsrc"])
<1>1. TakeFrom("delsrc") /\ "delsrc" \in Queue
  BY DEF DoDelSource, Queue
<1>2. PICK r \in DelVertex(dtrig_net, s) : Change(r.net, r.add, r.del) /\ Mark(r.add, r.del)
  BY DEF DoDelSource
<1>3. torn' = IF s \in dtrig_net.vertexs THEN {} ELSE torn
  BY DEF DoDelSource
<1> HIDE DEF s
<1>4. CASE s \notin dtrig_net.vertexs
  BY <1>1, <1>2, <1>3, <1>4, BuildInv DEF DelVertex
<1>5. CASE s \in dtrig_net.vertexs
  <2>1. NetStep(dtrig_net, dtrig_net.vertexs \ {s}, r)
    BY <1>2, <1>5, DelVertexStep DEF SyncInv, SyncNet
  <2> QED BY <1>1, <1>2, <1>3, <1>5, <2>1, BuildInv
<1> QED BY <1>4, <1>5

\* By hand: the edge that changes is odd.
LEMMA ByHandInv ==
  ASSUME SyncInv, NEW k \in Queue, TakeFrom(k), NEW e \in half, NEW n,
         NEW plus \in SUBSET {e}, NEW minus \in SUBSET {e},
         Change(n, plus, minus), Mark(plus, minus),
         Consistent(n), SameRest(n, dtrig_net),
         n.edges \union {e} = dtrig_net.edges \union {e},
         e \in n.edges => e \in dtrig_net.edges \/ e \in dtrig_net.vertexs \X dtrig_net.vertexs,
         torn \subseteq torn', torn' \subseteq Edge, e \in dtrig_net.edges \ n.edges => e \in torn'
  PROVE  SyncInv'
<1>1. again \subseteq again' /\ half' = half /\ e \in Edge
  BY DEF Mark, TakeFrom, SyncInv, SyncTypeOK
<1>2. ASSUME NEW x \in Edge, ~Odd(x)'
      PROVE  /\ x # e /\ Flip(x) # e
             /\ x \in n.edges <=> x \in dtrig_net.edges
             /\ Flip(x) \in n.edges <=> Flip(x) \in dtrig_net.edges
             /\ x \in n.edges => Flip(x) \in n.edges
  <2>1. x # e /\ Flip(x) # e
    BY <1>1, <1>2 DEF Odd
  <2>2. x \in dtrig_net.edges <=> Flip(x) \in dtrig_net.edges
    BY <1>1, <1>2, OddGrows, BothWays
  <2> QED BY <2>1, <2>2
<1>3. NoTwin(n.dtrigs)
  BY DEF SyncInv, SyncNet, SameRest
<1>4. \A p \in n.trig_edge : p[2] \in n.edges \union torn'
  <2>1. dtrig_net.edges \union torn \subseteq n.edges \union torn'
    OBVIOUS
  <2> QED BY <2>1 DEF SyncInv, SyncNet, SameRest
<1>5. Cardinality(n.vertexs) >= 3 => n.edges \subseteq n.vertexs \X n.vertexs
  BY DEF SyncInv, SyncNet, SameRest
<1>6. plus \in SUBSET Edge /\ minus \in SUBSET Edge
  BY <1>1
<1> QED BY <1>2, <1>3, <1>4, <1>5, <1>6, ChangeInv

LEMMA DoAddBlInv == ASSUME SyncInv, DoAddBl PROVE SyncInv'
<1> DEFINE e == Head(ask["addbl"])
           n == AddEdge(dtrig_net, e[1], e[2])
<1>1. /\ TakeFrom("addbl") /\ "addbl" \in Queue
      /\ Change(n, {e}, {}) /\ Mark({e}, {}) /\ torn' = torn
  BY DEF DoAddBl, Queue
<1>2. e \in Edge /\ e \in half
  BY <1>1, TakeKeeps
<1>3. e[1] \in Srcid /\ e[2] \in Srcid /\ e[1] # e[2] /\ e = <<e[1], e[2]>>
  BY <1>2 DEF Edge
<1> HIDE DEF e
<1>4. /\ Consistent(n)
      /\ SameRest(n, dtrig_net)
      /\ \/ n = dtrig_net
         \/ /\ n.edges = dtrig_net.edges \union {<<e[1], e[2]>>}
            /\ {e[1], e[2]} \subseteq dtrig_net.vertexs
  BY <1>3, AddEdgeStep DEF SyncInv, SyncNet
<1> HIDE DEF n
<1>5. /\ n.edges \union {e} = dtrig_net.edges \union {e}
      /\ e \in n.edges => e \in dtrig_net.edges \/ e \in dtrig_net.vertexs \X dtrig_net.vertexs
      /\ dtrig_net.edges \subseteq n.edges
  BY <1>3, <1>4
<1>6. torn \subseteq Edge
  BY DEF SyncInv, SyncTypeOK
<1> QED BY <1>1, <1>2, <1>4, <1>5, <1>6, ByHandInv

LEMMA DoDelBlInv == ASSUME SyncInv, DoDelBl PROVE SyncInv'
<1> DEFINE e == Head(ask["delbl"])
           n == DelEdge(dtrig_net, e[1], e[2])
<1>1. /\ TakeFrom("delbl") /\ "delbl" \in Queue
      /\ Change(n, {}, {e}) /\ Mark({}, {e}) /\ torn' = torn \union {e}
  BY DEF DoDelBl, Queue
<1>2. e \in Edge /\ e \in half
  BY <1>1, TakeKeeps
<1>3. e[1] \in Srcid /\ e[2] \in Srcid /\ e[1] # e[2] /\ e = <<e[1], e[2]>>
  BY <1>2 DEF Edge
<1> HIDE DEF e
<1>4. /\ Consistent(n)
      /\ SameRest(n, dtrig_net)
      /\ \/ n = dtrig_net
         \/ n.edges = dtrig_net.edges \ {<<e[1], e[2]>>}
  BY <1>3, DelEdgeStep DEF SyncInv, SyncNet
<1> HIDE DEF n
<1>5. /\ n.edges \union {e} = dtrig_net.edges \union {e}
      /\ e \in n.edges => e \in dtrig_net.edges
  BY <1>3, <1>4
<1>6. torn' \subseteq Edge
  BY <1>1, <1>2 DEF SyncInv, SyncTypeOK
<1> QED BY <1>1, <1>2, <1>4, <1>5, <1>6, ByHandInv

\* An edge gets its baseline, if it is still there.
LEMMA DoUpdBlInv == ASSUME SyncInv, DoUpdBl PROVE SyncInv'
<1>1. /\ Working /\ pc = "updbl" /\ updbl # <<>>
      /\ updbl' = Tail(updbl)
      /\ UNCHANGED <<dtrig_net, vt_time, nrtk, ask, engine, obs, sent, history, crash>>
  BY DEF DoUpdBl
<1>2. PICK b \in Baseline, e \in Edge :
        /\ Head(updbl) = <<b, e>> /\ updbl[1] = <<b, e>> /\ 1 \in DOMAIN updbl
        /\ Tail(updbl) \in Seq(Baseline \X Edge)
        /\ \A i \in DOMAIN Tail(updbl) : i + 1 \in DOMAIN updbl /\ Tail(updbl)[i] = updbl[i + 1]
        /\ \A i \in DOMAIN updbl : i = 1 \/ (i - 1 \in DOMAIN Tail(updbl) /\ Tail(updbl)[i - 1] = updbl[i])
  <2>1. updbl \in Seq(Baseline \X Edge) /\ updbl # <<>>
    BY <1>1, EngineTypes
  <2>2. /\ Head(updbl) = updbl[1] /\ updbl[1] \in Baseline \X Edge /\ 1 \in DOMAIN updbl
        /\ Tail(updbl) \in Seq(Baseline \X Edge)
        /\ \A i \in DOMAIN Tail(updbl) : i + 1 \in DOMAIN updbl /\ Tail(updbl)[i] = updbl[i + 1]
    BY <2>1
  <2>3. \A i \in DOMAIN updbl : i = 1 \/ (i - 1 \in DOMAIN Tail(updbl) /\ Tail(updbl)[i - 1] = updbl[i])
    <3>1. /\ Len(updbl) \in Nat /\ DOMAIN updbl = 1 .. Len(updbl)
          /\ DOMAIN Tail(updbl) = 1 .. Len(updbl) - 1
          /\ \A i \in 1 .. Len(updbl) - 1 : Tail(updbl)[i] = updbl[i + 1]
      BY <2>1
    <3>2. ASSUME NEW i \in 1 .. Len(updbl), i # 1 PROVE i - 1 \in 1 .. Len(updbl) - 1 /\ (i - 1) + 1 = i
      BY <3>1, <3>2
    <3> QED BY <3>1, <3>2
  <2>4. PICK b \in Baseline, e \in Edge : updbl[1] = <<b, e>>
    BY <2>2
  <2> QED BY <2>2, <2>3, <2>4
<1>3. edge_bl' = IF e \in dtrig_net.edges THEN [edge_bl EXCEPT ![e] = b] ELSE edge_bl
  <2>1. edge_bl' = IF Head(updbl)[2] \in dtrig_net.edges
                   THEN [edge_bl EXCEPT ![Head(updbl)[2]] = Head(updbl)[1]] ELSE edge_bl
    BY DEF DoUpdBl
  <2>2. Head(updbl)[2] = e /\ Head(updbl)[1] = b
    BY <1>2
  <2> QED BY <2>1, <2>2
<1>4. b \in Of(e)
  BY <1>2 DEF SyncInv, Pointers
<1>5. UNCHANGED <<pc, todo, vts, time_cur, bl_pair, bl_time, bl_sol, bl_at, epc, rt_bl, rt_time,
                  addbl, delbl, rtkpos,
                  blsol, torn, again, missed, known, asked, half, raced>>
  BY <1>1 DEF nrtk, engine, baselines, pass, queues, history, marks
<1>6. Born' = Born /\ Table' = Table /\ \A x : Of(x)' = Of(x)
  BY <1>5 DEF Born, Table, Of
<1>7. /\ edge_bl \in [Edge -> 0 .. MaxBl] /\ edge_bl' \in [Edge -> 0 .. MaxBl]
      /\ \A x \in Edge : edge_bl'[x] = edge_bl[x] \/ (x = e /\ edge_bl'[x] = b)
      /\ e \in dtrig_net.edges => edge_bl'[e] = b
  <2>1. edge_bl \in [Edge -> 0 .. MaxBl]
    BY DEF SyncInv, SyncTypeOK
  <2>2. b \in 0 .. MaxBl
    BY NrtkSyncAssumption DEF Baseline
  <2> QED BY <1>3, <2>1, <2>2
<1>8. SyncTypeOK'
  BY <1>1, <1>2, <1>5, <1>6, <1>7 DEF SyncInv, SyncTypeOK
<1>9. SyncNet' /\ Booting' /\ Times' /\ Baselines' /\ Solved' /\ CrashExcused'
  BY <1>1, <1>5, <1>6, SyncNetKept, BootingKept, TimesKept, BaselinesKept, SolvedKept, NoCrash
  DEF Working
<1>10. Pointers'
  <2>1. \A x \in Edge : edge_bl'[x] # unset => edge_bl'[x] \in Of(x)'
    BY <1>4, <1>6, <1>7 DEF SyncInv, Pointers
  <2>2. ASSUME NEW i \in DOMAIN updbl' PROVE updbl'[i][1] \in Of(updbl[i][2])'
    <3>1. PICK y : y = updbl'[i]
      OBVIOUS
    <3>2. i + 1 \in DOMAIN updbl /\ y = updbl[i + 1]
      BY <1>1, <1>2, <2>2, <3>1
    <3>3. y[1] \in Of(y[2])
      BY <3>2 DEF SyncInv, Pointers
    <3>4. y[1] \in Of(y[2])'
      BY <1>6, <3>3
    <3> QED BY <3>1, <3>4
  <2> QED BY <1>1, <1>5, <2>1, <2>2 DEF SyncInv, Pointers
<1>11. EdgesKept'
  <2> SUFFICES ASSUME NEW x \in Edge, ~Odd(x)' PROVE EdgeInv(x)'
    BY DEF EdgesKept
  <2>1. EdgeInv(x)
    BY <1>5, OddGrows DEF SyncInv, EdgesKept
  <2>2. All(addbl)' = All(addbl) /\ All(delbl)' = All(delbl)
    BY <1>5 DEF All
  <2>3. (Once(addbl, x)' <=> Once(addbl, x)) /\ \A c : Once(delbl, c)' <=> Once(delbl, c)
    BY <1>5 DEF Once
  <2>4. ASSUME x \in dtrig_net.edges PROVE x \in All(addbl) \/ edge_bl'[x] \in Of(x) \/ Brought(x)'
    <3>1. x \in All(addbl) \/ edge_bl[x] \in Of(x) \/ Brought(x)
      BY <1>1, <2>1, <2>4 DEF EdgeInv, Working
    <3>2. CASE x = e
      BY <1>4, <1>7, <2>4, <3>2
    <3>3. CASE x # e
      <4>1. ASSUME Brought(x) PROVE Brought(x)'
        <5>1. PICK i \in DOMAIN updbl : updbl[i][2] = x
          BY <4>1 DEF Brought
        <5>2. i # 1
          <6>1. updbl[1][2] = e
            BY <1>2
          <6> QED BY <3>3, <5>1, <6>1
        <5>3. i - 1 \in DOMAIN updbl' /\ updbl'[i - 1] = updbl[i]
          BY <1>1, <1>2, <5>2
        <5>4. updbl'[i - 1][2] = x
          BY <5>1, <5>3
        <5> QED BY <5>3, <5>4 DEF Brought
      <4> QED BY <1>7, <3>1, <3>3, <4>1
    <3> QED BY <3>2, <3>3
  <2> QED BY <1>1, <1>5, <1>6, <2>1, <2>2, <2>3, <2>4 DEF EdgeInv
<1> QED BY <1>8, <1>9, <1>10, <1>11 DEF SyncInv

-----------------------------------------------------------------------------
(* The beginning, and the theorems.                                        *)

\* The empty network.
LEMMA SyncInitInv == SyncInit => SyncInv
<1> SUFFICES ASSUME SyncInit PROVE SyncInv
  OBVIOUS
<1>1. /\ dtrig_net \in Net
      /\ dtrig_net.vertexs = {} /\ dtrig_net.edges = {} /\ dtrig_net.dtrigs = {}
      /\ dtrig_net.trig_edge = {}
      /\ \A s \in Srcid : dtrig_net.vt_list[s] = {} /\ dtrig_net.edge_list[s] = {}
  BY DEF SyncInit, EmptyNet, Net
<1>2. /\ 0 \in 0 .. MaxBl /\ unset \in Time /\ FromFile \subseteq Srcid
  BY NrtkSyncAssumption DEF unset, Time
<1>3. Born = {} /\ Table = {} /\ \A e : Of(e) = {}
  BY DEF SyncInit, Born, Table, Of
<1>14. nothing \in Copies
  BY <1>2 DEF nothing, Copies
<1>4. /\ bl_pair \in [Baseline -> Edge \union {<<>>}] /\ edge_bl \in [Edge -> 0 .. MaxBl]
      /\ bl_time \in [Baseline -> Copies] /\ blsol \in [Edge -> Copies]
      /\ vt_time \in [Srcid -> Time] /\ sent \in [Srcid -> Time] /\ obs \in [Srcid -> Time]
      /\ bl_sol \in [Baseline -> BOOLEAN]
      /\ bl_at \in [Baseline -> {"unborn", "table", "leaving", "freed"}]
  <2>1. edge_bl \in [Edge -> 0 .. MaxBl]
    BY <1>2 DEF SyncInit, unset
  <2>2. bl_time \in [Baseline -> Copies] /\ blsol \in [Edge -> Copies]
    BY <1>14 DEF SyncInit
  <2>3. /\ vt_time \in [Srcid -> Time] /\ sent \in [Srcid -> Time]
        /\ obs \in [Srcid -> Time]
    BY <1>2 DEF SyncInit
  <2>4. bl_pair \in [Baseline -> Edge \union {<<>>}]
    BY DEF SyncInit
  <2>5. /\ bl_sol \in [Baseline -> BOOLEAN]
        /\ bl_at \in [Baseline -> {"unborn", "table", "leaving", "freed"}]
    BY DEF SyncInit
  <2> QED BY <2>1, <2>2, <2>3, <2>4, <2>5
<1>5. /\ ask["addsrc"] = <<>> /\ ask["delsrc"] = <<>> /\ ask["addbl"] = <<>> /\ ask["delbl"] = <<>>
      /\ DOMAIN ask = Queue
  BY DEF SyncInit, Queue
<1>6. /\ Batched(addbl, Edge) /\ Batched(delbl, Baseline) /\ Batched(rtkpos, Baseline \X Copies)
      /\ All(addbl) = {} /\ All(delbl) = {} /\ All(rtkpos) = {}
  BY DEF SyncInit, Batched, All
<1>7. SyncTypeOK
  <2>1. /\ ask["addsrc"] \in Seq(Srcid) /\ ask["delsrc"] \in Seq(Srcid)
        /\ ask["addbl"] \in Seq(Edge) /\ ask["delbl"] \in Seq(Edge)
        /\ updbl \in Seq(Baseline \X Edge)
    <3>1. \A X : <<>> \in Seq(X)
      OBVIOUS
    <3>2. updbl = <<>>
      BY DEF SyncInit
    <3> QED BY <1>5, <3>1, <3>2, Zenon
  <2>2. /\ pc \in Phase \union {"sync", "update"} /\ epc \in {"watch", "check", "rover", "base", "adds", "dels"}
        /\ rt_bl \in 0 .. MaxBl /\ rt_time \in Time
        /\ todo \subseteq Srcid /\ vts \subseteq Srcid /\ time_cur \in Time
        /\ known \subseteq Srcid /\ torn \subseteq Edge /\ again \subseteq Edge /\ half \subseteq Edge
        /\ raced \subseteq Srcid /\ missed \subseteq Edge
    BY <1>2 DEF SyncInit, Phase
  <2>3. \A b \in Born : bl_pair[b] \in Edge
    BY <1>3
  <2> QED BY <1>1, <1>4, <1>5, <1>6, <2>1, <2>2, <2>3 DEF SyncTypeOK
<1>8. SyncNet
  BY <1>1 DEF SyncNet, Consistent, NoTwin
<1>9. Booting /\ CrashExcused
  BY <1>3 DEF SyncInit, Booting, CrashExcused
<1>10. Times
  BY DEF SyncInit, Times, unset
<1>11. Pointers
  BY <1>5 DEF SyncInit, Pointers
<1>12. Baselines /\ Solved
  BY <1>3, <1>6 DEF SyncInit, Baselines, Solved, Passing
<1>13. EdgesKept
  <2>1. ASSUME NEW e \in Edge PROVE EdgeInv(e)
    BY <1>1, <1>3, <1>6 DEF SyncInit, EdgeInv, Once
  <2> QED BY <2>1 DEF EdgesKept
<1> QED BY <1>7, <1>8, <1>9, <1>10, <1>11, <1>12, <1>13 DEF SyncInv

\* A station of the sources file: the engine has nothing yet.
LEMMA InitStationInv == ASSUME SyncInv, InitStation PROVE SyncInv'
<1>1. /\ pc = "init"
      /\ UNCHANGED <<edge_bl, vt_time, pc, vts, time_cur, ask, updbl, engine, obs, sent, history, crash>>
  BY DEF InitStation
<1>2. PICK s \in Least(todo) : /\ \E r \in AddVertex(dtrig_net, s) : dtrig_net' = r.net
                               /\ todo' = todo \ {s}
  BY DEF InitStation
<1>3. s \in Srcid /\ todo' \subseteq Srcid
  BY <1>2, WalkTypes DEF Least
<1>4. PICK r \in AddVertex(dtrig_net, s) : dtrig_net' = r.net
  BY <1>2
<1>5. UNCHANGED <<bl_pair, bl_time, bl_sol, bl_at, epc, rt_bl, rt_time, addbl, delbl, rtkpos,
                  blsol, torn, again,
                  missed, known, asked, half, raced>>
  BY <1>1 DEF engine, baselines, pass, queues, history, marks
<1>6. crash = "no" /\ addbl = <<>> /\ Born = {}
  BY <1>1 DEF SyncInv, Booting
<1>7. Born' = Born
  BY <1>5 DEF Born
\* The network is the same or built.
<1>8. SyncNet' /\ Together(r.net.edges, dtrig_net.edges)
  <2>1. CASE s \in dtrig_net.vertexs \/ NoStep(dtrig_net, r)
    <3>1. r.net = dtrig_net
      BY <1>4, <2>1 DEF AddVertex, Result, NoStep
    <3>2. dtrig_net' = dtrig_net
      BY <1>4, <3>1
    <3> QED BY <1>5, <3>1, <3>2, SyncNetKept DEF Together
  <2>2. CASE s \notin dtrig_net.vertexs /\ ~NoStep(dtrig_net, r)
    <3>1. NetStep(dtrig_net, dtrig_net.vertexs \union {s}, r)
      BY <1>3, <2>2, AddVertexStep DEF SyncInv, SyncNet
    <3> QED BY <1>4, <3>1 DEF NetStep, Closed, SyncNet
  <2> QED BY <2>1, <2>2
<1>9. dtrig_net' \in Net
  BY <1>8 DEF SyncNet, Consistent
<1>10. SyncTypeOK'
  BY <1>1, <1>3, <1>5, <1>7, <1>9 DEF SyncInv, SyncTypeOK
<1>11. Booting' /\ CrashExcused'
  BY <1>1, <1>5, <1>6, <1>7, NoCrash DEF Booting
<1>12. Times' /\ Baselines' /\ Solved'
  BY <1>1, <1>5, <1>7, TimesKept, BaselinesKept, SolvedKept
<1>13. Pointers'
  <2>1. \A x : Of(x)' = Of(x)
    BY <1>5, <1>7 DEF Of
  <2> QED BY <1>1, <1>5, <2>1 DEF SyncInv, Pointers
<1>14. EdgesKept'
  <2> SUFFICES ASSUME NEW e \in Edge, ~Odd(e)' PROVE EdgeInv(e)'
    BY DEF EdgesKept
  <2>1. ~Odd(e) /\ EdgeInv(e)
    BY <1>5, OddGrows DEF SyncInv, EdgesKept
  <2>2. e \in dtrig_net'.edges => Flip(e) \in dtrig_net'.edges
    BY <1>4, <1>8, <2>1, StayTogether
  <2>3. Of(e)' = {} /\ Born' = {} /\ Table' = {}
    BY <1>5, <1>6, <1>7 DEF Of, Table, Born
  <2>4. All(addbl)' = {} /\ Once(addbl, e)'
    BY <1>5, <1>6 DEF All, Once
  <2>5. blsol'[e] = nothing
    BY <1>5, <1>6, <2>1 DEF EdgeInv
  <2> QED BY <1>1, <2>2, <2>3, <2>4, <2>5 DEF EdgeInv
<1> QED BY <1>8, <1>10, <1>11, <1>12, <1>13, <1>14 DEF SyncInv

\* The engine is asked for all edges.
LEMMA InitEngineInv == ASSUME SyncInv, InitEngine PROVE SyncInv'
<1>1. /\ pc = "init" /\ pc' = "subnet" /\ todo' = dtrig_net.vertexs
      /\ addbl' = Put(addbl, dtrig_net.edges)
      /\ UNCHANGED <<network, vt_time, vts, time_cur, ask, updbl, baselines, epc, rt_bl, rt_time, delbl,
                     rtkpos, blsol, obs, sent, history, crash>>
  BY DEF InitEngine, pass
<1>2. UNCHANGED <<dtrig_net, edge_bl, bl_pair, bl_time, bl_sol, bl_at, torn, again, missed, known,
                  asked, half, raced>>
  BY <1>1 DEF network, baselines, history, marks
<1>3. crash = "no" /\ addbl = <<>> /\ Born = {}
  BY <1>1 DEF SyncInv, Booting
<1>4. Born' = {} /\ Table' = {} /\ \A e : Of(e)' = {} /\ Of(e) = {}
  BY <1>2, <1>3 DEF Born, Of, Table
<1>5. dtrig_net.edges \in SUBSET Edge /\ dtrig_net.vertexs \subseteq Srcid
  BY DEF SyncInv, SyncTypeOK, Net
<1>6. /\ Batched(addbl', Edge)
      /\ All(addbl') = All(addbl) \union dtrig_net.edges
      /\ \A x : Once(addbl, x) /\ (x \notin dtrig_net.edges \/ x \notin All(addbl)) => Once(addbl', x)
  BY <1>1, <1>5, EngineTypes, PutKeeps
<1>7. All(addbl) = {} /\ All(addbl)' = dtrig_net.edges
  <2>1. All(addbl) = {}
    BY <1>3 DEF All
  <2> QED BY <1>6, <2>1 DEF All
<1>8. SyncTypeOK'
  BY <1>1, <1>2, <1>4, <1>5, <1>6 DEF SyncInv, SyncTypeOK, Phase
<1>9. SyncNet' /\ Booting' /\ CrashExcused'
  BY <1>1, <1>2, <1>3, SyncNetKept, BootingKept, NoCrash
<1>10. Times' /\ Baselines' /\ Solved'
  BY <1>1, <1>2, <1>3, <1>4, TimesKept, BaselinesKept, SolvedKept
<1>11. Pointers'
  BY <1>1, <1>2, <1>3, <1>4, PointersKept
<1>12. EdgesKept'
  <2> SUFFICES ASSUME NEW e \in Edge, ~Odd(e)' PROVE EdgeInv(e)'
    BY DEF EdgesKept
  <2>1. EdgeInv(e)
    BY <1>2, OddGrows DEF SyncInv, EdgesKept
  <2>2. Once(addbl, e)'
    <3>1. Once(addbl', e)
      BY <1>6, <1>7, <2>1 DEF EdgeInv
    <3> QED BY <3>1 DEF Once
  <2> QED BY <1>1, <1>2, <1>3, <1>4, <1>7, <2>1, <2>2 DEF EdgeInv
<1> QED BY <1>8, <1>9, <1>10, <1>11, <1>12 DEF SyncInv

\* What nobody touches stays.
LEMMA SyncStutter == ASSUME SyncInv, UNCHANGED sync PROVE SyncInv'
<1>1. UNCHANGED <<dtrig_net, edge_bl, vt_time, pc, todo, vts, time_cur, ask, updbl, bl_pair, bl_time,
                  bl_sol, bl_at, epc, rt_bl, rt_time, addbl, delbl, rtkpos, blsol, obs, sent,
                  known, asked, torn,
                  again, missed, half, raced, crash>>
  BY DEF sync, network, nrtk, engine, baselines, pass, queues, history, marks
<1>2. Born' = Born
  BY <1>1 DEF Born
<1>3. SyncTypeOK'
  BY <1>1, <1>2 DEF SyncInv, SyncTypeOK
<1>4. SyncNet' /\ Times' /\ Baselines' /\ Solved' /\ Pointers' /\ EdgesKept'
  <2>1. pc' = "init" \/ pc # "init"
    BY <1>1
  <2> QED BY <1>1, <1>2, <2>1, SyncNetKept, TimesKept, BaselinesKept, SolvedKept, PointersKept,
             EdgesKeptKept
<1>5. Booting' /\ CrashExcused'
  BY <1>1, <1>2 DEF SyncInv, Booting, CrashExcused, Dangling, Odd, All
<1> QED BY <1>3, <1>4, <1>5 DEF SyncInv

LEMMA SyncNextInv == SyncInv /\ [SyncNext]_sync => SyncInv'
<1> SUFFICES ASSUME SyncInv, [SyncNext]_sync PROVE SyncInv'
  OBVIOUS
<1>1. CASE Start
  BY <1>1, InitStationInv, InitEngineInv DEF Start
<1>2. CASE Outside
  <2>1. ASSUME NEW e \in Manual, AskBaseline("addbl", e) \/ AskBaseline("delbl", e) PROVE SyncInv'
    <3>1. e \in Edge
      BY NrtkSyncAssumption
    <3> QED BY <2>1, <3>1, AskBaselineInv
  <2> QED BY <1>2, <2>1, UpdObsInv, AskAddSourceInv, AskDelSourceInv DEF Outside
<1>3. CASE NrtkThread
  BY <1>3, VisitInv, TrianglesInv, NextPhaseInv, SyncStepInv, UpdateInv, RoverLeftInv,
     BaselineFreedInv, DoAddSourceInv, DoDelSourceInv, DoAddBlInv, DoDelBlInv, DoUpdBlInv
  DEF NrtkThread
<1>4. CASE RtkThread
  BY <1>4, LookInv, CheckInv, CopyRoverInv, CopyBaseInv, AddBaselineInv, DelBaselineInv,
       FreedTwiceInv, EngineGoesOnInv, FreeBaselineInv
  DEF RtkThread
<1>5. CASE Solve
  BY <1>5, SolveInv
<1>6. CASE UNCHANGED sync
  BY <1>6, SyncStutter
<1> QED BY <1>1, <1>2, <1>3, <1>4, <1>5, <1>6 DEF SyncNext

\* The inductive invariant holds for any srcids, any triangulations, any epochs, requests
\* and baselines, and whichever edges are asked for by hand.
THEOREM SyncInductive == SyncSpec => []SyncInv
BY SyncInitInv, SyncNextInv, PTL DEF SyncSpec

\* When nothing waits every edge of the network points to the baseline of the engine that
\* serves it, and the engine has no other (nrtk.c:103, :118, srtk.c:324, :458).
THEOREM NetworkIsServed == SyncSpec => []NetworkServed
<1>1. ASSUME SyncInv PROVE NetworkServed
  <2>1. ASSUME Quiet, NEW e \in dtrig_net.edges, ~Odd(e)
        PROVE  edge_bl[e] \in Find(e) \union Find(Flip(e))
    <3>1. e \in Edge
      BY <1>1 DEF SyncInv, SyncTypeOK, Net
    <3>2. EdgeInv(e)
      BY <1>1, <2>1, <3>1 DEF SyncInv, EdgesKept
    <3>3. All(addbl) = {} /\ ~Brought(e) /\ pc # "init"
      BY <2>1 DEF Quiet, All, Brought, Working
    <3>4. edge_bl[e] \in Of(e)
      BY <3>2, <3>3 DEF EdgeInv
    <3>5. bl_at[edge_bl[e]] = "table"
      BY <3>2, <3>4 DEF EdgeInv
    <3> QED BY <3>4, <3>5 DEF Of, Find, Table, Born
  <2>2. ASSUME Quiet, NEW b \in Table, ~Odd(bl_pair[b])
        PROVE  bl_pair[b] \in dtrig_net.edges \union missed
    <3>1. b \in Born
      BY DEF Table, Born
    <3>2. EdgeInv(bl_pair[b])
      BY <1>1, <2>2, <3>1, EngineTypes DEF SyncInv, EdgesKept
    <3>3. All(delbl) = {}
      BY <2>2 DEF Quiet, All
    <3> QED BY <3>2, <3>3 DEF EdgeInv
  <2>3. EdgesServed /\ NoStrayBaseline
    BY <2>1, <2>2 DEF EdgesServed, NoStrayBaseline
  <2> QED BY <1>1, <2>3 DEF SyncInv, NetworkServed
<1> QED BY <1>1, SyncInductive, PTL

\* Only an edge that was asked for again or by hand leads to a freed baseline, or to one
\* that is freed twice; only one that was deleted by hand is itself freed; and only with
\* two stations or fewer is a rover missing (nrtk.c:354, :302, srtk.c:267).
THEOREM CrashesAreExcused == SyncSpec => []CrashExcused
BY SyncInductive, PTL DEF SyncInv

\* The epochs that are handed on increase.
THEOREM EpochsGoForward == SyncSpec => EpochsForward
<1>1. ASSUME SyncInv, [SyncNext]_sync
      PROVE  [\A s \in Srcid : vt_time'[s] # vt_time[s] =>
                 vt_time'[s] > vt_time[s] /\ sent'[s] >= sent[s]]_sync
  <2> SUFFICES ASSUME NEW s \in Srcid, vt_time'[s] # vt_time[s]
               PROVE  vt_time'[s] > vt_time[s] /\ sent'[s] >= sent[s]
    OBVIOUS
  <2>1. vt_time' = vt_time \/ \E x \in Srcid : Update(x)
    BY <1>1 DEF SyncNext, Start, Outside, NrtkThread, RtkThread, InitStation, InitEngine, UpdObs,
       AskAddSource, AskDelSource, AskBaseline, Request, Visit, Triangles, NextPhase, Sync, RoverLeft,
       BaselineFreed, DoAddSource, DoDelSource, DoAddBl, DoDelBl, DoUpdBl, TakeFrom, Look, Check,
       CopyRover, CopyBase,
       AddBaseline, DelBaseline, FreeBaseline, FreedTwice, EngineGoesOn, Solve, Crash, sync
  <2>2. PICK x \in Srcid : Update(x)
    BY <2>1
  <2>3. /\ vts = {x} /\ vt_time' = [vt_time EXCEPT ![x] = obs[x]]
        /\ sent' = [sent EXCEPT ![x] = time_cur] \/ sent' = sent
    BY <2>2 DEF Update
  <2>4. x = s /\ vt_time'[s] = obs[s] /\ (sent'[s] = time_cur \/ sent'[s] = sent[s])
    BY <1>1, <2>3, WalkTypes
  <2>5. /\ sent[s] <= vt_time[s] /\ vt_time[s] < time_cur /\ time_cur <= obs[s]
        /\ sent[s] \in Nat /\ vt_time[s] \in Nat /\ time_cur \in Nat /\ obs[s] \in Nat
    BY <1>1, <2>3, <2>4, WalkTypes DEF SyncInv, Times, Time
  <2> QED BY <2>4, <2>5
<1> QED BY <1>1, SyncInductive, PTL DEF SyncSpec, EpochsForward

\* When all threads have come to rest no epoch that all stations around s have is stuck,
\* and what is taken for its solutions was made of observations of that epoch, where the
\* engine did not mix two (nrtk.c:347, :354, srtk.c:108-115, cors.c:371).
THEOREM SynchronisedAtRest == SyncSpec => []Synchronised
<1>1. ASSUME SyncInv, AtRest, NEW s \in Srcid, Delivered(s),
             NEW e \in dtrig_net.edge_list[s], ~Odd(e)
      PROVE  /\ edge_bl[e] # unset /\ bl_sol[edge_bl[e]]
             /\ Epoch(blsol[bl_pair[edge_bl[e]]]) = obs[s]
             /\ Mixed(edge_bl[e]) \/ blsol[bl_pair[edge_bl[e]]] = <<obs[s], obs[s]>>
  <2>1. e \in dtrig_net.edges /\ e \in Edge /\ e[1] = s
    BY <1>1 DEF SyncInv, SyncNet, Consistent, SyncTypeOK, Net
  <2>2. EdgeInv(e)
    BY <1>1, <2>1 DEF SyncInv, EdgesKept
  <2>3. /\ All(addbl) = {} /\ ~Brought(e) /\ pc # "init" /\ rtkpos = <<>>
        /\ \A b \in Table : ~Due(b)
    BY <1>1 DEF AtRest, Quiet, All, Brought, Working
  <2>4. PICK b \in Of(e) : edge_bl[e] = b
    BY <2>1, <2>2, <2>3 DEF EdgeInv
  <2>5. bl_at[b] = "table" /\ b \in Table /\ b \in Born /\ b # unset
    <3>1. bl_at[b] = "table"
      BY <2>1, <2>2, <2>4 DEF EdgeInv
    <3>2. b \in Baseline /\ b \in Born
      BY DEF Of, Born
    <3>3. b # unset
      BY <3>2, NrtkSyncAssumption DEF Baseline, unset
    <3> QED BY <3>1, <3>2, <3>3 DEF Table
  <2>6. bl_pair[b] \in {e, Flip(e)} /\ bl_pair[b] \in Edge /\ ~Odd(bl_pair[b])
    BY <1>1, <2>1, OfFlip, FlipBack DEF Of
  \* Its stations have the epoch, so it was processed.
  <2>7. obs[bl_pair[b][1]] = obs[s] /\ obs[bl_pair[b][2]] = obs[s] /\ obs[s] # unset
    <3>1. obs[e[1]] = obs[s] /\ obs[e[2]] = obs[s] /\ obs[s] # unset
      BY <1>1, <2>1 DEF Delivered
    <3> QED BY <2>6, <3>1 DEF Flip
  <2>8. Epoch(bl_time[b]) = obs[s] /\ bl_time[b] # nothing /\ bl_time[b] \in Copies
    <3>1. Epoch(bl_time[b]) = obs[s]
      BY <2>3, <2>5, <2>7 DEF Due
    <3>2. Epoch(nothing) = unset
      BY DEF Epoch, nothing
    <3>3. b \in Baseline
      BY <2>5 DEF Born
    <3> QED BY <1>1, <2>7, <3>1, <3>2, <3>3, EngineTypes
  <2>9. blsol[bl_pair[b]] = bl_time[b]
    <3>1. Final(b)
      BY <1>1, <2>5, <2>6 DEF SyncInv, Solved
    <3>2. DOMAIN rtkpos = {}
      BY <2>3
    <3> QED BY <2>8, <3>1, <3>2 DEF Final
  <2>10. bl_sol[b]
    <3>1. EdgeInv(bl_pair[b])
      BY <1>1, <2>6 DEF SyncInv, EdgesKept
    <3>2. PICK c \in Born : bl_pair[c] = bl_pair[b] /\ bl_sol[c]
      BY <2>8, <2>9, <3>1 DEF EdgeInv
    <3>3. c = b
      BY <1>1, <2>5, <2>6, <3>2, OneOfPair
    <3> QED BY <3>2, <3>3
  <2>11. Mixed(b) \/ bl_time[b] = <<obs[s], obs[s]>>
    BY <2>8 DEF Mixed, Epoch, Copies
  <2> QED BY <2>4, <2>5, <2>8, <2>9, <2>10, <2>11
<1>2. ASSUME SyncInv PROVE Synchronised
  <2> SUFFICES ASSUME AtRest, NEW s \in Srcid, Delivered(s)
               PROVE  /\ \/ sent[s] = obs[s]
                         \/ vt_time[s] # obs[s] /\ InTime(s, obs[s]) = dtrig_net.edge_list[s]
                         \/ \E e \in dtrig_net.edge_list[s] : Odd(e)
                         \/ s \in raced
                      /\ \A e \in dtrig_net.edge_list[s] :
                           \/ Odd(e) \/ Mixed(edge_bl[e])
                           \/ blsol[bl_pair[edge_bl[e]]] = <<obs[s], obs[s]>>
    BY DEF Synchronised
  <2>1. sent[s] # obs[s] /\ s \notin raced => vt_time[s] # obs[s]
    BY <1>2 DEF SyncInv, Times
  <2>2. (\A e \in dtrig_net.edge_list[s] : ~Odd(e)) =>
           InTime(s, obs[s]) = dtrig_net.edge_list[s]
    BY <1>1, <1>2 DEF InTime
  <2> QED BY <1>1, <1>2, <2>1, <2>2
<1> QED BY <1>2, SyncInductive, PTL

=============================================================================
