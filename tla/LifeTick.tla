------------------------------- MODULE LifeTick -------------------------------
(***************************************************************************)
(* What one tick of the life cycle does by itself                          *)
(* (lumina_next/autonomy_supervisor.py: _context, _plan, _normalize_plan,  *)
(* _execute): she looks at what her eyes saw lately, the model proposes an *)
(* action, she speaks instead when it is time to, what may not be done is  *)
(* refused, and whatever was decided is remembered for a while.            *)
(*                                                                         *)
(* Autonomy has the race of a tick with people and with the job service;   *)
(* here a spatial action is started or refused.  A proposal is an action,  *)
(* what would be said, a target's description and whether it names         *)
(* something of the engine; a row of an inventory that cannot be described *)
(* is None.                                                                *)
(***************************************************************************)
EXTENDS Integers, Sequences, FiniteSets, SequencesExt, Absent

CONSTANTS
    RawPlans,        \* [action, text, target, native]
    Utterances,       \* what the model may compose, None for nothing usable
    SightRows,      \* what a picture may show: rows of descriptions
    Cooldown,         \* speech_cooldown_seconds
    SightAge,           \* _VISUAL_OBSERVATION_MAX_AGE_SECONDS
    KeptActions, Window,     \* length of _recent_actions, and of the part _speech_due looks at
    LastInstant, MaxDecisions, MaxSights   \* bounds

ASSUME LifeAssumption ==
    Cooldown \in Nat /\ SightAge \in Nat /\ KeptActions \in Nat /\ Window \in Nat /\ None \notin Nat

VARIABLES
    sights,      \* the finished jobs of the visual service, as far as they are looked at
    lifeTime,     \* the time
    thinking,    \* the context of the tick, while its model plans
    planned,     \* the validated plan, until it is carried out
    recentActions,      \* _recent_actions
    lastSpoken,  \* _last_speech_at
    waitingWav,  \* _pending_audio
    chronicle,   \* what was said in each decision, if anything, and when
    went         \* where she set out for, and when she had looked

lifeVars == <<sights, lifeTime, thinking, planned, recentActions, lastSpoken, waitingWav, chronicle, went>>

-----------------------------------------------------------------------------
(* _visual_observation_context                                             *)

\* A job of the last minutes that inventoried a raw picture (else it has no rows), every row of
\* which can be described.
Usable(s, now) ==
    /\ now - s.at \in 0..SightAge
    /\ s.rows # <<>> /\ None \notin ToSet(s.rows)

\* The candidates are those of the latest of them.
SeenLately(now) ==
    UNION {ToSet(s.rows) : s \in {u \in sights : Usable(u, now) /\ \A v \in sights : Usable(v, now) => v.nth =< u.nth}}

-----------------------------------------------------------------------------
(* One tick                                                                *)

\* _context, _planner_packet: what the model is told.
ContextTaken ==
    /\ thinking = None /\ planned = None
    /\ \E heard \in BOOLEAN : thinking' = [targets |-> SeenLately(lifeTime), at |-> lifeTime, heard |-> heard]
    /\ UNCHANGED <<sights, lifeTime, planned, recentActions, lastSpoken, waitingWav, chronicle, went>>

Rested == lastSpoken = None \/ lifeTime - lastSpoken >= Cooldown

\* _speech_due: after some silent decisions, when somebody is there to hear it (or, where that
\* is not required, there is no body to show anything, or she feels like it).
SpeechDue(context) ==
    LET lately == SubSeq(recentActions, IF Len(recentActions) > Window THEN Len(recentActions) - Window + 1 ELSE 1, Len(recentActions))
    IN /\ Rested
       /\ Len(lately) >= 2 /\ \A i \in DOMAIN lately : lately[i].action # "speak"
       /\ context.heard

\* _plan: an utterance takes the place of the action, and of nothing else in the proposal.
Spoken(p, utterance) == IF utterance = None THEN p ELSE [p EXCEPT !.action = "speak", !.text = utterance]

\* _normalize_plan.
Errors(p, context) ==
    {e \in {"action", "cooldown", "text", "duplicate", "native", "target", "target_not_applicable"} :
        \/ e = "action" /\ p.action \notin {"move", "look", "gesture", "speak", "rest", "sleep", "observe"}
        \/ e = "cooldown" /\ p.action = "speak" /\ ~Rested
        \/ e = "text" /\ p.action = "speak" /\ p.text = None
        \/ e = "duplicate" /\ p.action = "speak" /\ p.text \in {r.text : r \in ToSet(recentActions)}
        \/ e = "native" /\ p.native
        \/ e = "target" /\ p.action \in {"move", "look"} /\ p.target \notin context.targets
        \/ e = "target_not_applicable" /\ p.action \notin {"move", "look"} /\ p.target # None}

\* The model answers; when speech is due it is asked for a line as well.
PlanArrives(p, utterance) ==
    /\ thinking # None
    /\ LET q == IF SpeechDue(thinking) THEN Spoken(p, utterance) ELSE p
       IN planned' = [action |-> q.action, text |-> q.text, target |-> q.target, errors |-> Errors(q, thinking),
                      at |-> thinking.at]
    /\ thinking' = None
    /\ UNCHANGED <<sights, lifeTime, recentActions, lastSpoken, waitingWav, chronicle, went>>

\* Planning fails, a person asks for something meanwhile, or a visual job is under way:
\* nothing is done or remembered.
TickDropped ==
    /\ thinking # None \/ planned # None
    /\ thinking' = None /\ planned' = None
    /\ UNCHANGED <<sights, lifeTime, recentActions, lastSpoken, waitingWav, chronicle, went>>

\* The last KeptActions decisions are remembered, what was refused as well.
Remember ==
    LET longer == Append(recentActions, [action |-> planned.action,
                                         text |-> IF planned.action = "speak" THEN planned.text ELSE None])
    IN recentActions' = IF Len(longer) > KeptActions THEN Tail(longer) ELSE longer

Noted(line) == chronicle' = Append(chronicle, [text |-> line, at |-> IF line = None THEN None ELSE lifeTime])

\* _execute: a plan with an error, or whose output is not there, is only remembered.
NotDone ==
    /\ planned # None
    /\ Remember /\ planned' = None
    /\ Noted(None)
    /\ UNCHANGED <<sights, lifeTime, thinking, lastSpoken, waitingWav, went>>

Executes(line) ==
    /\ planned # None /\ planned.errors = {}
    /\ Remember /\ planned' = None
    /\ Noted(line)

\* speak: through the bridge, or else as a sound that waits to be fetched.
SaysIt(byBridge) ==
    /\ Executes(planned.text) /\ planned.action = "speak"
    /\ lastSpoken' = lifeTime
    /\ waitingWav' = IF byBridge THEN waitingWav ELSE planned.text
    /\ UNCHANGED <<sights, lifeTime, thinking, went>>

\* gesture, rest and sleep.
ActsInPlace ==
    /\ Executes(None) /\ planned.action \in {"gesture", "rest", "sleep"}
    /\ UNCHANGED <<sights, lifeTime, thinking, lastSpoken, waitingWav, went>>

\* move and look become a visual job.
SetsOut ==
    /\ Executes(None) /\ planned.action \in {"move", "look"}
    /\ went' = went \cup {[target |-> planned.target, at |-> planned.at]}
    /\ UNCHANGED <<sights, lifeTime, thinking, lastSpoken, waitingWav>>

\* take_speech_output.
FetchWav ==
    /\ waitingWav # None /\ waitingWav' = None
    /\ UNCHANGED <<sights, lifeTime, thinking, planned, recentActions, lastSpoken, chronicle, went>>

-----------------------------------------------------------------------------
\* A visual job ends, of a person or her own.
JobEnds ==
    /\ Cardinality(sights) < MaxSights
    /\ \E rows \in SightRows :
          sights' = sights \cup {[at |-> lifeTime, rows |-> rows, nth |-> Cardinality(sights)]}
    /\ UNCHANGED <<lifeTime, thinking, planned, recentActions, lastSpoken, waitingWav, chronicle, went>>

InstantPasses ==
    /\ lifeTime < LastInstant /\ lifeTime' = lifeTime + 1
    /\ UNCHANGED <<sights, thinking, planned, recentActions, lastSpoken, waitingWav, chronicle, went>>

LifeInit ==
    /\ sights = {} /\ lifeTime = 0 /\ thinking = None /\ planned = None
    /\ recentActions = <<>> /\ lastSpoken = None /\ waitingWav = None /\ chronicle = <<>> /\ went = {}

LifeNext ==
    \/ Len(chronicle) < MaxDecisions /\ ContextTaken
    \/ \E p \in RawPlans, utterance \in Utterances : PlanArrives(p, utterance)
    \/ TickDropped \/ NotDone \/ ActsInPlace \/ SetsOut \/ FetchWav
    \/ \E byBridge \in BOOLEAN : SaysIt(byBridge)
    \/ JobEnds \/ InstantPasses

LifeSpec == LifeInit /\ [][LifeNext]_lifeVars

-----------------------------------------------------------------------------
\* speech_cooldown_seconds: however long the model and the speech engine take, and whichever
\* way the words go, a pause lies between what she says by herself.
SpeechIsSpaced ==
    \A i, j \in DOMAIN chronicle :
        i < j /\ chronicle[i].text # None /\ chronicle[j].text # None =>
            chronicle[j].at - chronicle[i].at >= Cooldown

\* duplicate_speech: what was said is not said again while it is remembered, and what waits to
\* be fetched was said.
NoEcho ==
    /\ \A i, j \in DOMAIN chronicle :
          i < j /\ chronicle[i].text # None /\ chronicle[i].text = chronicle[j].text => j - i > KeptActions
    /\ waitingWav # None => \E i \in DOMAIN chronicle : chronicle[i].text = waitingWav

\* visual_target_not_observed: she sets out only for what she had lately seen, in the latest
\* picture that was finished before she began to think.
GoesToWhatWasSeen ==
    \A g \in went : \E s \in sights :
        /\ g.target \in ToSet(s.rows) /\ g.at - s.at \in 0..SightAge
        /\ ~\E v \in sights : v.nth > s.nth /\ v.at < g.at /\ v.rows # <<>> /\ None \notin ToSet(v.rows)
=============================================================================
