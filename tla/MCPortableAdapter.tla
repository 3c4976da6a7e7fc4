------------------------- MODULE MCPortableAdapter -------------------------
(* Instances of PortableAdapter for TLC.                                   *)
EXTENDS PortableAdapter, TLC

CONSTANTS c1, c2

TwoCommands == {c1, c2}

OneWhileOthersSpeak(overlap) ==
    {[ids |-> {c}, overlap |-> overlap, othersSpeak |-> TRUE, stops |-> 2] : c \in TwoCommands}
TwoInTurn == [ids |-> TwoCommands, overlap |-> FALSE, othersSpeak |-> FALSE, stops |-> 1]

\* One command that is polled while it is stopped, twice, and others speak; or two commands.
BothUses  == OneWhileOthersSpeak(TRUE) \cup {TwoInTurn}
SpokenTo  == OneWhileOthersSpeak(FALSE)

Symmetry == Permutations(TwoCommands)
=============================================================================
