------------------------------ MODULE SocialTurns ------------------------------
(***************************************************************************)
(* lumina_next/social_interaction_protocol_v1.py: who speaks in a room.    *)
(* Every event that is accepted came with a token of its participant; an   *)
(* event that is refused changes nothing, and has no action here.          *)
(***************************************************************************)
EXTENDS Naturals, Sequences, SequencesExt, Absent

CONSTANTS
    Participants,  \* registered users
    ConsentIds,    \* ids the speakers choose
    MaxTurns       \* turns (bound)

ASSUME SocialAssumption == MaxTurns \in Nat /\ None \notin Participants

VARIABLES
    presence,   \* _presence
    speaker,    \* _active_speaker
    line,       \* _queue
    consents,   \* _consents, None where there is none
    turnNumber        \* _turn_sequence

socialVars == <<presence, speaker, line, consents, turnNumber>>

SocialInit ==
    /\ presence = [u \in Participants |-> "ABSENT"]
    /\ speaker = None /\ line = <<>> /\ turnNumber = 0
    /\ consents = [c \in ConsentIds |-> None]

InLine(u) == \E i \in DOMAIN line : line[i] = u

\* Nobody waits twice (RoomIsOrderly): list.remove and the comprehension of LEAVE agree.
LineWithout(u) == IF InLine(u) THEN RemoveAt(line, CHOOSE i \in DOMAIN line : line[i] = u) ELSE line

NextTurn == turnNumber < MaxTurns /\ turnNumber' = turnNumber + 1

\* JOIN and REJOIN.
Join(u) ==
    /\ presence[u] \in {"ABSENT", "LEFT"}
    /\ presence' = [presence EXCEPT ![u] = "PRESENT"]
    /\ UNCHANGED <<speaker, line, consents, turnNumber>>

\* SPEAK: nobody speaks, and nobody waits before the one who asks.
Speak(u) ==
    /\ presence[u] = "PRESENT" /\ speaker = None
    /\ (line # <<>> => Head(line) = u)
    /\ line' = IF line = <<>> THEN line ELSE Tail(line)
    /\ speaker' = u /\ NextTurn /\ UNCHANGED <<presence, consents>>

Wait(u) ==
    /\ presence[u] = "PRESENT" /\ speaker # u /\ ~InLine(u)
    /\ line' = Append(line, u) /\ UNCHANGED <<presence, speaker, consents, turnNumber>>

\* CONSENT: the speaker lets another one interrupt, in this turn.
Consent(u, v, c) ==
    /\ presence[u] = "PRESENT" /\ speaker = u /\ v # u /\ presence[v] = "PRESENT"
    /\ consents[c] = None
    /\ consents' = [consents EXCEPT ![c] = [by |-> u, to |-> v, turn |-> turnNumber, consumed |-> FALSE]]
    /\ UNCHANGED <<presence, speaker, line, turnNumber>>

MayInterrupt(u, c) ==
    /\ consents[c] # None /\ consents[c].by = speaker /\ consents[c].to = u
    /\ consents[c].turn = turnNumber /\ ~consents[c].consumed

\* INTERRUPT: the interrupted one waits again.
Interrupt(u, c) ==
    /\ presence[u] = "PRESENT" /\ speaker # None /\ speaker # u /\ MayInterrupt(u, c)
    /\ consents' = [consents EXCEPT ![c].consumed = TRUE]
    /\ line' = IF InLine(speaker) THEN LineWithout(u) ELSE Append(LineWithout(u), speaker)
    /\ speaker' = u /\ NextTurn /\ UNCHANGED presence

\* Mutant of Promote: the next in line is not asked for.
PromoteNobody(waiting) == speaker' = None /\ line' = waiting /\ UNCHANGED turnNumber

\* _promote_next: the first in line who is present.
Promote(waiting) ==
    LET here == {i \in DOMAIN waiting : presence[waiting[i]] = "PRESENT"}
    IN \/ here = {} /\ speaker' = None /\ line' = <<>> /\ UNCHANGED turnNumber
       \/ \E i \in here :
             /\ \A j \in here : i =< j
             /\ speaker' = waiting[i] /\ line' = SubSeq(waiting, i + 1, Len(waiting)) /\ NextTurn

Yield(u) ==
    /\ presence[u] = "PRESENT" /\ speaker = u
    /\ Promote(line) /\ UNCHANGED <<presence, consents>>

\* LEAVE: out of the line, the consents given and received are void, and the turn passes on.
LeaveRoom(u) ==
    /\ presence[u] = "PRESENT" /\ presence' = [presence EXCEPT ![u] = "LEFT"]
    /\ consents' = [c \in ConsentIds |->
                      IF consents[c] # None /\ u \in {consents[c].by, consents[c].to} THEN None ELSE consents[c]]
    /\ \/ speaker = u /\ Promote(LineWithout(u))
       \/ speaker # u /\ line' = LineWithout(u) /\ UNCHANGED <<speaker, turnNumber>>

\* process_event: one event of a participant.
EventOf(u) ==
    \/ Join(u) \/ Speak(u) \/ Wait(u) \/ Yield(u) \/ LeaveRoom(u)
    \/ \E c \in ConsentIds : Interrupt(u, c) \/ \E v \in Participants : Consent(u, v, c)

SocialNext == \E u \in Participants : EventOf(u)

SocialSpec == SocialInit /\ [][SocialNext]_socialVars

-----------------------------------------------------------------------------

\* Whoever speaks or waits is there, waits once, and does not wait while speaking: after any
\* order of interrupting, leaving and coming back the turn can be passed on.
RoomIsOrderly ==
    /\ \A i \in DOMAIN line : presence[line[i]] = "PRESENT" /\ line[i] # speaker
    /\ \A i, j \in DOMAIN line : line[i] = line[j] => i = j
    /\ speaker # None => presence[speaker] = "PRESENT"

\* A speaker who still wants to speak loses the turn only to the one the speaker let in, by a
\* consent of this turn that is used up.
TurnsAreTakenByConsent ==
    [][speaker # None /\ speaker' # speaker /\ (\E i \in DOMAIN line' : line'[i] = speaker) =>
          \E c \in ConsentIds :
              /\ consents[c] # None /\ ~consents[c].consumed /\ consents'[c].consumed
              /\ consents[c].by = speaker /\ consents[c].to = speaker' /\ consents[c].turn = turnNumber]_socialVars

\* Nobody overtakes: those who wait keep their order, and a turn that comes free while
\* somebody waits goes to the first of them.
NobodyOvertakes ==
    [][/\ \A i, j \in DOMAIN line, k, l \in DOMAIN line' :
              i < j /\ line[i] = line'[k] /\ line[j] = line'[l] /\ speaker \notin {line'[k], line'[l]} => k < l
       /\ speaker # None /\ line # <<>> /\ speaker' # speaker /\ (\A i \in DOMAIN line' : line'[i] # speaker)
             => speaker' = Head(line)]_socialVars
=============================================================================
