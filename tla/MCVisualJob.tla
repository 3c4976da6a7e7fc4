---------------------------- MODULE MCVisualJob ----------------------------
(***************************************************************************)
(* Two requests: a job and the one that replaces it, cancels it or waits   *)
(* behind its unconfirmed stop.                                            *)
(***************************************************************************)
EXTENDS VisualJob, TLC

CONSTANTS r1, r2

MCRequests == {r1, r2}

Flags(speak, allowMove, onlyIfIdle) ==
    [speak |-> speak, allowMove |-> allowMove, onlyIfIdle |-> onlyIfIdle]

\* Every combination of flags; a moving, speaking job and a look that replaces it (this
\* one tells the requests apart: no symmetry).
AllCalls == [r \in MCRequests |-> {Flags(s, m, i) : s, m, i \in BOOLEAN}]
FewCalls == [r \in MCRequests |-> {Flags(TRUE, r = r1, FALSE)}]

Symmetry   == Permutations(MCRequests)
=============================================================================
