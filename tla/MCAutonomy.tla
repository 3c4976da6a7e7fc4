----------------------------- MODULE MCAutonomy -----------------------------
(* One human request, and the supervisor's own.  Speech is left to the     *)
(* runs of VisualJob: an autonomous job never speaks.                      *)
EXTENDS Autonomy

CONSTANTS h, a

OneAutomatic  == {a}
WithOne       == {h, a}

HumanMoves == [r \in Requests |-> IF r # h THEN {} ELSE
                 {[speak |-> FALSE, allowMove |-> TRUE, onlyIfIdle |-> FALSE]}]
=============================================================================
