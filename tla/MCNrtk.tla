------------------------------ MODULE MCNrtk ------------------------------
(***************************************************************************)
(* Nrtk with up to four stations at a time: three make one triangle, in    *)
(* two rotations and of either orientation, or none when they are in line; *)
(* four make two triangles along a diagonal, or three when one lies inside *)
(* the others.                                                             *)
(***************************************************************************)
EXTENDS Nrtk

MCTriangulation(V) ==
  CASE Cardinality(V) = 3 ->
       LET a == CHOOSE x \in V : \A y \in V : x <= y
           c == CHOOSE x \in V : \A y \in V : y <= x
           b == CHOOSE x \in V : x \notin {a, c}
       IN  {{<<a, b, c>>}, {<<b, c, a>>}, {<<c, b, a>>}, {}}
    [] Cardinality(V) = 4 ->
       LET a == CHOOSE x \in V : \A y \in V : x <= y
           d == CHOOSE x \in V : \A y \in V : y <= x
           b == CHOOSE x \in V \ {a, d} : \A y \in V \ {a, d} : x <= y
           c == CHOOSE x \in V \ {a, d} : \A y \in V \ {a, d} : y <= x
       IN  {{<<a, b, c>>, <<a, c, d>>}, {<<b, c, d>>, <<a, b, d>>},
            {<<b, d, a>>, <<d, c, a>>}, {<<a, b, d>>, <<b, c, d>>, <<c, a, d>>}}
    [] OTHER -> {{}}

=============================================================================
