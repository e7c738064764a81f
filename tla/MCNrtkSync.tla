----------------------------- MODULE MCNrtkSync -----------------------------
(***************************************************************************)
(* NrtkSync with up to three stations: they make one triangle, or none     *)
(* when they are in line.                                                  *)
(***************************************************************************)
EXTENDS NrtkSync

MCTriangulation(V) ==
  IF Cardinality(V) = 3
  THEN LET a == CHOOSE x \in V : \A y \in V : x <= y
           c == CHOOSE x \in V : \A y \in V : y <= x
           b == CHOOSE x \in V : x \notin {a, c}
       IN  {{<<a, b, c>>}, {}}
  ELSE {{}}

MCManual == {<<1, 2>>, <<2, 3>>}

=============================================================================
