----------------------------- MODULE AutonomyPlan -----------------------------
(***************************************************************************)
(* What the avatar does next: the options of the rules                     *)
(* (si_godot_bridge/autonomy_planner.py), and what becomes of a language   *)
(* model's answer (si_godot_bridge/autonomy_llm.py,                        *)
(* request_llm_autonomy_plan): it is repaired from the options, checked    *)
(* against what is allowed, corrected for how near the visitor is, and the *)
(* best is taken; an option is, where nothing of the answer is left.       *)
(*                                                                         *)
(* An intent is its act, its target and, of a sequence, its steps; targets *)
(* are named in the target field only, and have been folded to one name.   *)
(* Scores are in twentieths; how the rules score their options is a table. *)
(* Where two score the same, the code takes the first key; here one.       *)
(***************************************************************************)
EXTENDS Integers, Sequences, FiniteSets, FiniteSetsExt, Absent

CONSTANTS
    Seats,        \* nodes that are furniture to sit on
    Routines,     \* ALLOWED_DEMO_ROUTINES
    Liking,       \* a score of each act (bound)
    Situations,   \* the world, what is allowed, the mode, and what was done before (bound)
    PlanAnswers,  \* what the model may propose: sets of intents with keys and scores (bound)
    MaxSteps      \* MAX_AUTONOMY_SEQUENCE_STEPS

VARIABLES
    situation,  \* or None
    options,    \* of the rules
    chosen     \* the plan, or None

planVars == <<situation, options, chosen>>

ApproachLimit == 15   \* MIN_APPROACH_USER_DISTANCE_METERS, in decimetres
FreeLimit     == 10   \* MIN_FREE_MOVEMENT_USER_DISTANCE_METERS
IsNearer(s, limit) == s.distance # None /\ s.distance < limit

MovingActs     == {"walk_to", "look_around", "approach_user", "sit", "stand"}
Aimed     == {"walk_to", "sit", "look_at"}
Permitted == MovingActs \cup {"act_sequence", "speak", "look_at", "set_mood", "demo", "idle_gesture", "wait"}

\* autonomy_step_key; a look is one whatever it is at, and a sequence is its first four steps.
StepKey(i) == <<i.act, IF i.act \in {"walk_to", "sit", "demo"} THEN i.target ELSE None>>
PlanKey(i) ==
    IF i.act # "act_sequence" THEN StepKey(i)
    ELSE <<i.act, [k \in 1..Min({4, Len(i.steps)}) |-> StepKey(i.steps[k])]>>
SimpleIntent(act, target) == [act |-> act, target |-> target, steps |-> <<>>]
LookAtUser == SimpleIntent("look_at", "user")
Scored(i, score) == [intent |-> i, score |-> IF score < 0 THEN 0 ELSE score]

-----------------------------------------------------------------------------

\* build_autonomy_plan: what the rules find to do.
WalkTargets(s) ==
    s.near \cup IF s.near \cap Seats = {} /\ s.mode \in {"auto", "movement"} THEN {"table", "sofa"} ELSE {}
OptionIntents(s) ==
    LET free  == s.allow.move /\ ~IsNearer(s, FreeLimit)
        lively == s.mode \in {"auto", "movement"}
    IN UNION {
        IF free THEN {SimpleIntent("walk_to", n) : n \in WalkTargets(s)}
                     \cup {SimpleIntent("sit", n) : n \in s.near \cap Seats} ELSE {},
        IF s.allow.move /\ s.sitting /\ lively THEN {SimpleIntent("stand", None)} ELSE {},
        IF s.allow.speak \/ s.allow.demo THEN {LookAtUser} ELSE {},
        IF s.allow.speak THEN {SimpleIntent("speak", None)} ELSE {},
        IF TRUE \in {s.allow.speak, s.allow.move, s.allow.demo} /\ s.mode # "off" THEN {SimpleIntent("wait", None)} ELSE {},
        IF s.allow.move /\ s.mode = "auto" THEN {SimpleIntent("set_mood", None)} ELSE {},
        IF s.allow.move /\ lively THEN {SimpleIntent("look_around", None)} ELSE {},
        IF s.distance # None /\ s.distance > 10 /\ lively THEN {SimpleIntent("approach_user", None)} ELSE {},
        IF s.allow.demo /\ s.mode = "auto" /\ ~IsNearer(s, 8) THEN {SimpleIntent("idle_gesture", None)} ELSE {},
        IF s.allow.demo /\ s.mode = "auto" THEN {SimpleIntent("demo", n) : n \in Routines} ELSE {}}
\* What was done last is worth less.
OptionScore(s, i) == Liking[i.act] - IF PlanKey(i) = s.last THEN 22 ELSE 0
OptionsOf(s) == {Scored(i, OptionScore(s, i)) : i \in OptionIntents(s)}

\* _dedupe_llm_candidates and _select_best_candidate.
BestOf(C) == CHOOSE c \in C : \A d \in C : d.score =< c.score
OnePerKey(C) == {BestOf({d \in C : PlanKey(d.intent) = PlanKey(c.intent)}) : c \in C}

-----------------------------------------------------------------------------

BadSeat(p) == p.act = "sit" /\ p.target # None /\ p.target \notin Seats
AtSelf(p)  == p.act \in {"look_at", "walk_to"} /\ p.target = "self"

\* _repair_candidate_payload_from_existing: an option whose key is named, or the best of the
\* same act where the target is missing or no target at all, gives what the proposal leaves out.
MatchingOptions(p, O) ==
    {o \in O : \/ p.key # None /\ PlanKey(o.intent) = p.key
               \/ /\ p.act \in Aimed /\ o.intent.act = p.act
                  /\ \/ p.target \in {None, o.intent.target}
                     \/ BadSeat(p) \/ (AtSelf(p) /\ p.act # "walk_to")}
Overlaid(p, i) ==
    [act    |-> IF p.act = None THEN i.act ELSE p.act,
     target |-> IF p.target = None \/ BadSeat(p) \/ AtSelf(p) THEN i.target ELSE p.target,
     steps  |-> IF p.steps = <<>> THEN i.steps ELSE p.steps]
AsProposed(p) == [act |-> p.act, target |-> p.target, steps |-> p.steps]
Repaired(p, O) ==
    IF p.key = None /\ p.act \notin Aimed THEN AsProposed(p)
    ELSE IF MatchingOptions(p, O) # {} THEN Overlaid(p, BestOf(MatchingOptions(p, O)).intent)
    ELSE IF BadSeat(p) \/ AtSelf(p) THEN LookAtUser ELSE AsProposed(p)

\* To the visitor is approaching, to oneself is nowhere.
Redirected(i) ==
    CASE i.act = "walk_to" /\ i.target = "user" -> SimpleIntent("approach_user", None)
      [] i.act = "walk_to" /\ i.target = "self" -> LookAtUser
      [] OTHER -> i

\* _normalize_act_sequence_candidate: the first steps, one of them spoken at most; None if one
\* is not allowed.  Here a mood is a movement.
StepAllowed(i, allow) ==
    /\ i.act \in Permitted \ {"act_sequence", "demo"}
    /\ i.act = "speak" => allow.speak
    /\ i.act \in MovingActs \cup {"set_mood"} => allow.move
    /\ i.act = "idle_gesture" => allow.demo
    /\ i.act = "sit" => i.target \in Seats
    /\ i.act = "walk_to" => i.target # None
AimedStep(i) ==
    IF i.act = "look_at" /\ i.target \in {None, "self"} THEN LookAtUser ELSE Redirected(i)
SequenceOf(steps, allow) ==
    LET kept == [k \in 1..Min({MaxSteps, Len(steps)}) |-> AimedStep(steps[k])]
    IN IF /\ steps # <<>> /\ \A k \in DOMAIN kept : StepAllowed(kept[k], allow)
          /\ Cardinality({k \in DOMAIN kept : kept[k].act = "speak"}) =< 1
       THEN kept ELSE None

\* _llm_candidate_to_plan_candidate: the intent as it would be carried out, None if it is refused.
Admitted(i, allow) ==
    LET a == Redirected(i)
        b == IF a.act \in {"walk_to", "look_at"} /\ a.target = None THEN LookAtUser ELSE a
    IN IF /\ b.act \in Permitted
          /\ b.act \in MovingActs => allow.move
          /\ b.act \in {"demo", "idle_gesture"} => allow.demo
          /\ b.act = "demo" => b.target \in Routines
          /\ b.act = "speak" => allow.speak
          /\ b.act = "sit" => b.target \in Seats
          /\ b.act = "act_sequence" => SequenceOf(b.steps, allow) # None
       THEN [act |-> b.act, target |-> IF b.act \in Aimed \cup {"demo"} THEN b.target ELSE None,
             steps |-> IF b.act = "act_sequence" THEN SequenceOf(b.steps, allow) ELSE <<>>]
       ELSE None

-----------------------------------------------------------------------------

\* What was walked to in the last four entries, and how many of them end in a row of walks.
WalkedTo(s) == {s.journal[k].target : k \in {k \in DOMAIN s.journal : s.journal[k].act = "walk_to"}}
WalksInARow(s) ==
    LET n == Len(s.journal)
    IN Max({k \in 0..n : \A j \in n - k + 1..n : s.journal[j].act = "walk_to"})
WalkPenalty(s, i) ==
    IF i.act # "walk_to" THEN 0
    ELSE IF WalksInARow(s) >= 2 THEN 9 ELSE IF i.target \in WalkedTo(s) THEN 5 ELSE 0
Urge(s, i) ==
    (IF i.act = "look_at" /\ s.social >= 14 THEN 6 ELSE 0)
    + (IF i.act \in {"sit", "wait"} /\ s.tired THEN 7 ELSE 0)
    + (IF i.act \in {"walk_to", "look_around"} /\ s.curious THEN 5 ELSE 0)

KeptAway(s, i) ==
    IF \/ i.act = "approach_user"
       \/ i.act \in {"walk_to", "sit"} /\ IsNearer(s, FreeLimit)
    THEN LookAtUser ELSE i

\* _apply_humanity_plan_corrections: too near the visitor, she looks at them instead.
Corrected(s, c) ==
    LET i == c.intent
        score == c.score - WalkPenalty(s, i)
    IN IF i.act = "approach_user" /\ IsNearer(s, ApproachLimit) THEN Scored(LookAtUser, score - 20)
       ELSE IF i.act \in {"walk_to", "sit"} /\ IsNearer(s, FreeLimit) THEN Scored(LookAtUser, score - 15)
       ELSE IF i.act = "look_around" /\ IsNearer(s, FreeLimit) /\ s.social >= 17
            THEN Scored(LookAtUser, IF score > 40 THEN score ELSE 40)
       ELSE IF /\ i.act = "act_sequence" /\ IsNearer(s, ApproachLimit)
               /\ \E k \in DOMAIN i.steps : KeptAway(s, i.steps[k]) # i.steps[k]
            THEN Scored([i EXCEPT !.steps = [k \in DOMAIN i.steps |-> KeptAway(s, i.steps[k])]], c.score)
       ELSE Scored(i, score + Urge(s, i)
                      + IF i.act \in {"look_at", "idle_gesture"} /\ s.social >= 17 /\ IsNearer(s, 20) THEN 4 ELSE 0)

\* _inner_state_select_from_existing: the best of the first options that are still allowed; a
\* score of nothing counts as one.
StillAllowed(s, i) ==
    /\ i.act = "speak" => s.allow.speak
    /\ i.act \in MovingActs => s.allow.move
    /\ i.act \in {"demo", "idle_gesture"} => s.allow.demo
    /\ i.act \in {"walk_to", "sit"} => ~IsNearer(s, FreeLimit)
    /\ i.act = "approach_user" => ~IsNearer(s, ApproachLimit)
FirstOptions(O) == {o \in O : Cardinality({p \in O : p.score > o.score}) < 8}
FallbackScore(s, o) == (IF o.score = 0 THEN 20 ELSE o.score) - WalkPenalty(s, o.intent) + Urge(s, o.intent)
Fallback(s, O) ==
    LET left == {[intent |-> o.intent, score |-> FallbackScore(s, o)] :
                    o \in {o \in FirstOptions(O) : StillAllowed(s, o.intent)}}
    IN IF left = {} THEN [is |-> "none", intent |-> None, among |-> {}]
       ELSE [is |-> "fallback", intent |-> BestOf(left).intent, among |-> {BestOf(left)}]

Considered(s, O, answer) ==
    LET usable == {p \in answer : Admitted(Repaired(p, O), s.allow) # None}
        parsed == {Scored(Admitted(Repaired(p, O), s.allow), p.score) : p \in usable}
    IN {Corrected(s, c) : c \in OnePerKey(parsed)}

-----------------------------------------------------------------------------

PlanInit == situation = None /\ options = {} /\ chosen = None

\* The rules' options, of which they would take the best themselves.
Consider ==
    /\ situation = None
    /\ \E s \in Situations : situation' = s /\ options' = OptionsOf(s)
    /\ UNCHANGED chosen

\* The model answers in time and in a form that can be read.
AnswerComes ==
    /\ situation # None /\ chosen = None
    /\ \E answer \in PlanAnswers :
          LET C == Considered(situation, options, answer)
          IN chosen' = IF C = {} THEN Fallback(situation, options)
                        ELSE [is |-> "ok", intent |-> BestOf(C).intent, among |-> C]
    /\ UNCHANGED <<situation, options>>

AnswerFails ==
    /\ situation # None /\ chosen = None
    /\ chosen' = Fallback(situation, options)
    /\ UNCHANGED <<situation, options>>

PlanNext == Consider \/ AnswerComes \/ AnswerFails

-----------------------------------------------------------------------------

CarriedOut(i) == IF i.act = "act_sequence" THEN {i.steps[k] : k \in DOMAIN i.steps} ELSE {i}

\* Whatever the model proposes, and whatever repairs it from the options or corrects it after
\* the check, she does only what the policy allows, sits on seats, does not walk to herself and
\* does not say two things in one plan; nor walks or sits down with the visitor within a metre,
\* nor comes nearer from within a metre and a half.  All of that holds of every candidate, not
\* of the chosen one only.  (She may be made to look at herself: by an answer that gives a key
\* and a target, but no act.)
PlanIsAllowed ==
    chosen # None =>
        \A c \in chosen.among : \A i \in CarriedOut(c.intent) :
            /\ i.act \in MovingActs => situation.allow.move
            /\ i.act = "speak" => situation.allow.speak
            /\ i.act \in {"demo", "idle_gesture"} => situation.allow.demo
            /\ i.act = "sit" => i.target \in Seats
            /\ i.act \in {"walk_to", "sit"} => i.target \notin {None, "self"}
            /\ IsNearer(situation, FreeLimit) => i.act \notin {"walk_to", "sit"}
            /\ IsNearer(situation, ApproachLimit) => i.act # "approach_user" /\ ~(i.act = "walk_to" /\ i.target = "user")
            /\ c.intent.act = "act_sequence" =>
                  Cardinality({k \in DOMAIN c.intent.steps : c.intent.steps[k].act = "speak"}) =< 1

\* There is something to do whenever anything is allowed, however the model fails.
SomethingIsDone ==
    (chosen # None /\ situation.mode # "off" /\ TRUE \in {situation.allow.speak, situation.allow.move, situation.allow.demo})
        => chosen.intent # None
=============================================================================
