------------------------------- MODULE MCVrs -------------------------------
(***************************************************************************)
(* Vrs on a network of up to four stations: three in a triangle or in      *)
(* line, four with either diagonal.                                        *)
(***************************************************************************)
EXTENDS Vrs

MCTriangulation(V) ==
  LET at(i) == CHOOSE x \in V : Cardinality({y \in V : y <= x}) = i
  IN  CASE Cardinality(V) = 3 -> {{<<at(1), at(2), at(3)>>}, {}}
        [] Cardinality(V) = 4 -> {{<<at(1), at(2), at(3)>>, <<at(1), at(3), at(4)>>},
                                  {<<at(2), at(3), at(4)>>, <<at(1), at(2), at(4)>>}}
        [] OTHER -> {{}}

MCManual == {<<1, 2>>}

=============================================================================
