---------------------------- MODULE OwnedMotion ----------------------------
(***************************************************************************)
(* What lumina_next promises about the commands that move the avatar:      *)
(* a command is claimed before it can move anything, it may move only      *)
(* while someone owns it, and it is released once, when it can no longer   *)
(* move.  The job service (VisualJob) and the portable adapter             *)
(* (PortableAdapter) each implement this specification.                    *)
(***************************************************************************)
CONSTANT Commands

VARIABLES
    owner,   \* "free", then "held", and "released" for ever
    moving   \* the command moves the avatar, or may still start to

ownedVars == <<owner, moving>>

OwnedInit ==
    /\ owner = [c \in Commands |-> "free"]
    /\ moving = [c \in Commands |-> FALSE]

Claim(c) ==
    /\ owner[c] = "free"
    /\ owner' = [owner EXCEPT ![c] = "held"]
    /\ UNCHANGED moving

Dispatch(c) ==
    /\ owner[c] = "held"
    /\ moving' = [moving EXCEPT ![c] = TRUE]
    /\ UNCHANGED owner

\* Commands come to their end: completed, failed, stopped, replaced, refused or lost.
Cease(ended) ==
    /\ moving' = [c \in Commands |-> moving[c] /\ c \notin ended]
    /\ UNCHANGED owner

\* After its release a command does not move.  A refused command may be released
\* without having been held, and ends with its release.
Release(c) ==
    /\ owner[c] # "released"
    /\ owner' = [owner EXCEPT ![c] = "released"]
    /\ moving' = [moving EXCEPT ![c] = FALSE]

OwnedNext ==
    \/ \E c \in Commands : Claim(c) \/ Dispatch(c) \/ Release(c)
    \/ \E ended \in SUBSET Commands : Cease(ended)

OwnedSpec == OwnedInit /\ [][OwnedNext]_ownedVars
=============================================================================
