----------------------------- MODULE MCRtcmObs -----------------------------
(* Two systems with satellites and one without.  The layouts are those of  *)
(* older stations, of newer ones, of both in one stream, and of messages    *)
(* that are not decoded at the end of an epoch.                             *)
EXTENDS RtcmObs

G1 == <<"GPS", 1>>
G2 == <<"GPS", 2>>
R1 == <<"GLO", 1>>
E1 == <<"QZS", 1>>

MCSats == {G1, G2, R1, E1}
MCSystem(s) == s[1]
MCTypeOrder == <<"GPS", "GLO", "QZS">>
MCGaps == {1, 4, 9}

Item(kind, sats) == [kind |-> kind, glo |-> R1 \in sats, sats |-> sats]
MCLayouts == { <<Item("l12", {G1}), Item("l12", {R1})>>,
               <<Item("l1", {R1}), Item("l1", {G1, G2})>>,
               <<Item("l12", {G1}), Item("msm", {R1}), Item("msm", {G2})>>,
               <<Item("msm", {G1, G2}), Item("basic", {})>> }
MCCoded == { {G1, R1}, {G1, G2, R1, E1} }
=============================================================================
