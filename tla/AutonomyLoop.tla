------------------------------ MODULE AutonomyLoop ------------------------------
(***************************************************************************)
(* The goal she pursues, the loop that acts on it and the watchdog beside  *)
(* it (lumina_next/goal_intent_model_v1.py, autonomy_orchestrator_v1.py,   *)
(* autonomy_watchdog_v1.py).                                               *)
(*                                                                         *)
(* The model of goals is a function of a context; the goal that a decision *)
(* selects comes back as the active goal of the next context, which is the *)
(* caller's doing and marked external.  The watchdog is fed with samples   *)
(* and is the only one of the three that remembers.  Contexts and samples  *)
(* that the validators refuse raise, change nothing and are no action.     *)
(***************************************************************************)
EXTENDS Integers, Sequences, FiniteSets, FiniteSetsExt, SequencesExt, Absent

CONSTANTS
    GoalOwners,            \* owners of objectives and relationships
    RoleGoals,        \* roles: type, priority, short, allowed types, stale
    UserGoals,        \* user_objective: owner, type, priority, short, explicit, stale; or None
    VenueGoals,       \* venue_objective: the same without owner and explicit; or None
    SafeTypes,        \* SAFE_GOAL_TYPES
    Circumstances,    \* signals, and what is stale or unsafe: "world", "outer", "relationship" or None
    LoopOrders,       \* the planner's actions by effect class or None, mode and receipt of a run
    LoopActions,      \* action_id of a sample
    MaxRepeated,      \* max_repeated_action_count
    PressureLimit     \* resource_consecutive_limit

\* _priority and the validators of contexts, plans and samples: an action has an id.
ASSUME LoopAssumption ==
    /\ MaxRepeated \in Nat /\ PressureLimit \in Nat /\ None \notin LoopActions
    /\ \A g \in (RoleGoals \cup UserGoals \cup VenueGoals) \ {None} : g.priority \in 0..100
    /\ None \notin RoleGoals
    /\ \A o \in LoopOrders : /\ o.plan = None \/ o.plan \in Seq({"local", "other"})
                             /\ o.mode \in {"observe_only", "dry_run", "execute_local"}

VARIABLES
    activeGoal,      \* the active goal of the next context, or None
    looped,      \* what the last run of the loop came to, or None
    watch,       \* the watchdog: state, last action, repeats, pressures
    sampled      \* the samples since the last reset, the last few of them

goalVars == <<activeGoal, looped>>
watchVars == <<watch, sampled>>
loopVars == <<activeGoal, looped, watch, sampled>>

-----------------------------------------------------------------------------
(* Goals                                                                   *)

\* _candidate: a user's wish before the venue's before the role's own, the explicit and the short first.
SourceBase == [user |-> 600, venue |-> 400, role |-> 200]
CandidateOf(source, g) ==
    [source |-> source, type |-> g.type, short |-> g.short,
     score |-> SourceBase[source] + g.priority + (IF source = "user" /\ g.explicit THEN 100 ELSE 0)
                   + (IF g.short THEN 20 ELSE 0)]
GoalOf(candidate) == [source |-> candidate.source, type |-> candidate.type, short |-> candidate.short]

\* _context_fail_reason: everything in the context is current and of a kind that is known as safe.
GoalWishes(c) == {g \in {c.user, c.venue, activeGoal} : g # None}
ContextFails(c) ==
    \/ c.lapse # None \/ c.role.stale
    \/ \E g \in GoalWishes(c) : g.stale
    \/ \E g \in GoalWishes(c) \cup {c.role} : g.type \notin SafeTypes

Ended == {"user_cancel", "objective_completed", "role_revoked"}
Idle(action) == [goal |-> None, action |-> action, closed |-> TRUE]
Selects(goal, action) == [goal |-> goal, action |-> action, closed |-> FALSE]
CancelIfActive == IF activeGoal = None THEN "SAFE_IDLE" ELSE "CANCEL"

GoalCandidates(c) ==
    {CandidateOf(w[1], w[2]) : w \in
        {w \in {<<"role", c.role>>, <<"user", c.user>>, <<"venue", c.venue>>} : w[2] # None /\ w[2].type \in c.role.allowed}}
\* The bases of the sources are further apart than their priorities and bonuses.
Top(candidates) == CHOOSE t \in candidates : \A o \in candidates : t.score >= o.score

\* Against the active goal, which need not be among the candidates.
AgainstActive(c, candidates, top) ==
    LET same == {o \in candidates : GoalOf(o) = GoalOf(activeGoal)}
        ActiveGoal == IF same # {} THEN CHOOSE o \in same : TRUE
                      ELSE [source |-> activeGoal.source, type |-> activeGoal.type, short |-> activeGoal.short, score |-> activeGoal.score]
    IN CASE activeGoal.status = "PAUSED" /\ "resume_ready" \in c.signals /\ activeGoal.score >= top.score -> Selects(ActiveGoal, "RESUME")
         [] activeGoal.status = "PAUSED" /\ top.score > activeGoal.score -> Selects(top, "PREEMPT")
         [] activeGoal.status = "PAUSED" /\ top.score =< activeGoal.score /\ "resume_ready" \notin c.signals -> Idle("SAFE_IDLE")
         [] activeGoal.status = "ACTIVE" /\ GoalOf(top) # GoalOf(activeGoal) /\ "interrupt_request" \in c.signals -> Selects(top, "INTERRUPT")
         [] activeGoal.status = "ACTIVE" /\ GoalOf(top) = GoalOf(activeGoal) -> Selects(top, "CONTINUE")
         [] activeGoal.status = "ACTIVE" /\ GoalOf(top) # GoalOf(activeGoal) /\ "interrupt_request" \notin c.signals ->
                IF top.score > activeGoal.score THEN Selects(top, "PREEMPT") ELSE Selects(ActiveGoal, "CONTINUE")

\* evaluate
Evaluated(c) ==
    CASE ContextFails(c) -> Idle(CancelIfActive)
      [] ~ContextFails(c) /\ "emergency_stop" \in c.signals -> Idle("INTERRUPT")
      [] ~ContextFails(c) /\ "emergency_stop" \notin c.signals /\ c.signals \cap Ended # {} -> Idle("CANCEL")
      [] OTHER ->
            IF activeGoal # None /\ activeGoal.type \notin c.role.allowed THEN Idle("CANCEL")
            ELSE IF GoalCandidates(c) = {} THEN Idle(CancelIfActive)
            ELSE IF activeGoal = None THEN Selects(Top(GoalCandidates(c)), "START")
            ELSE AgainstActive(c, GoalCandidates(c), Top(GoalCandidates(c)))

-----------------------------------------------------------------------------
(* The loop: observe, interpret, goal, plan, act, reflect                  *)

\* _default_planner: one local action, whatever the goal is.
Planned(plan) == IF plan = None THEN <<"local">> ELSE plan

\* _act: an action with effects outside is refused before the mode is looked at.
Acted(plan, mode, right) ==
    IF plan = <<>> \/ \E i \in DOMAIN plan : plan[i] # "local" THEN "BLOCKED"
    ELSE IF mode = "observe_only" THEN "SKIPPED"
    ELSE IF mode = "dry_run" THEN "DRY_RUN"
    ELSE IF right # "local" THEN "BLOCKED"
    ELSE "EXECUTED"

\* The caller remembers the goal that was selected, and forgets one that was cancelled.
AdoptedGoal(c, decision) ==
    IF ~decision.closed
    THEN [source |-> decision.goal.source, type |-> decision.goal.type, short |-> decision.goal.short, stale |-> FALSE,
          score |-> decision.goal.score, status |-> "ACTIVE", owner |-> c.actor]
    ELSE IF decision.action = "CANCEL" THEN None ELSE activeGoal

\* validate_goal_context: what belongs to a user belongs to the one who acts.
OfOneUser(c) == \A g \in {c.user, activeGoal} : g # None => g.owner = c.actor

RunOnce ==
    \E actor \in GoalOwners, role \in RoleGoals, user \in UserGoals, venue \in VenueGoals, now \in Circumstances, order \in LoopOrders :
        LET c == [actor |-> actor, role |-> role, user |-> user, venue |-> venue, signals |-> now.signals, lapse |-> now.lapse]
            plan == Planned(order.plan)
        IN /\ looped = None /\ OfOneUser(c)
           /\ \E decision \in {Evaluated(c)} :
                 /\ activeGoal' = AdoptedGoal(c, decision)
                 /\ looped' = [context |-> c, was |-> activeGoal, decision |-> decision, order |-> order, plan |-> plan,
                               act |-> Acted(plan, order.mode, order.right)]

\* Between two runs the caller may pause the goal or wake it, and it gets old.
BetweenRuns ==
    /\ looped # None /\ looped' = None
    /\ IF activeGoal = None THEN UNCHANGED activeGoal
       ELSE \E status \in {"ACTIVE", "PAUSED"}, stale \in BOOLEAN : activeGoal' = [activeGoal EXCEPT !.status = status, !.stale = stale]

GoalInit == activeGoal = None /\ looped = None
GoalNext == RunOnce \/ BetweenRuns

-----------------------------------------------------------------------------
(* The watchdog                                                            *)

FreshWatch == [state |-> "RUNNING", last |-> None, repeats |-> 0, pressures |-> 0]

\* ingest: once killed nothing is counted; otherwise the counters first, then the verdict.
IngestSample ==
    \E action \in LoopActions, pressed, stop, whole, beating \in BOOLEAN :
        LET repeats   == IF action = watch.last THEN watch.repeats + 1 ELSE 1
            pressures == IF pressed THEN watch.pressures + 1 ELSE 0
            alarmed   == stop \/ ~whole \/ ~beating \/ repeats > MaxRepeated \/ pressures >= PressureLimit
            kept      == [state |-> IF alarmed THEN "SAFE_IDLE" ELSE watch.state,
                          last |-> action, repeats |-> Min({repeats, MaxRepeated + 1}),
                          pressures |-> Min({pressures, PressureLimit})]
            sample    == [action |-> action, pressed |-> pressed, well |-> whole /\ beating /\ ~stop]
            longest   == Max({MaxRepeated + 1, PressureLimit})
        IN /\ watch' = IF watch.state = "KILLED" THEN watch ELSE kept
           /\ sampled' = LET all == Append(sampled, sample)
                         IN IF Len(all) > longest THEN Tail(all) ELSE all

TriggerKillSwitch == watch' = [watch EXCEPT !.state = "KILLED"] /\ UNCHANGED sampled

\* reset_safe_idle: from any state, the latched one too, when nothing is left running.
ResetSafeIdle == watch' = FreshWatch /\ sampled' = <<>>

WatchInit == watch = FreshWatch /\ sampled = <<>>
WatchNext == IngestSample \/ TriggerKillSwitch \/ ResetSafeIdle

\* Nothing in the source joins them: while the goals are at work the watchdog is fresh here.
LoopNext ==
    \/ watch = FreshWatch /\ sampled = <<>> /\ GoalNext /\ UNCHANGED watchVars
    \/ activeGoal = None /\ looped = None /\ WatchNext /\ UNCHANGED goalVars

LoopInit == GoalInit /\ WatchInit
LoopSpec == LoopInit /\ [][LoopNext]_loopVars

-----------------------------------------------------------------------------

\* A goal that is pursued is one that the present role allows and that is known as safe, of the
\* user who is there, in a context nothing of which is old, unsafe or called off; although the
\* active goal, its score and its status come back from an earlier context.
GoalIsWarranted ==
    looped # None /\ ~looped.decision.closed =>
        LET c == looped.context
            g == looped.decision.goal
        IN /\ g.type \in c.role.allowed \cap SafeTypes
           /\ c.lapse = None
           /\ "emergency_stop" \notin c.signals /\ c.signals \cap Ended = {}
           /\ g.source = "user" /\ c.user # None => c.user.owner = c.actor
           /\ looped.decision.action \in {"CONTINUE", "RESUME"} =>
                 looped.was # None /\ ~looped.was.stale /\ looped.was.owner = c.actor /\ GoalOf(g) = GoalOf(looped.was)

\* Of what is wished for now nothing that is allowed has a higher score than what is pursued,
\* and a goal that is dropped for another is dropped for a higher one or at the user's word.
BestIsPursued ==
    looped # None /\ ~looped.decision.closed =>
        LET c == looped.context
            g == looped.decision.goal
        IN /\ \A o \in GoalCandidates(c) : o.score =< g.score
           /\ looped.was # None /\ GoalOf(g) # GoalOf(looped.was) =>
                 g.score > looped.was.score \/ "interrupt_request" \in c.signals

\* Only local actions are executed, with a receipt for them and when execution was asked for.
OnlyLocalIsDone ==
    looped # None /\ looped.act = "EXECUTED" =>
        looped.order.mode = "execute_local" /\ looped.order.right = "local" /\ Range(looped.plan) = {"local"}

\* The watchdog lets actions go on only if nothing it was told since the last reset was
\* alarming, the last samples are not the same action over and over, nor all under pressure.
RunsWhileWell ==
    watch.state = "RUNNING" =>
        /\ \A i \in DOMAIN sampled : sampled[i].well
        /\ Len(sampled) > MaxRepeated =>
              \E i \in Len(sampled) - MaxRepeated .. Len(sampled) : sampled[i].action # sampled[Len(sampled)].action
        /\ sampled # <<>> /\ Len(sampled) >= PressureLimit =>
              \E i \in Len(sampled) - PressureLimit + 1 .. Len(sampled) : ~sampled[i].pressed

LoopTypeOK ==
    /\ watch.state \in {"RUNNING", "SAFE_IDLE", "KILLED"}
    /\ watch.repeats \in 0..MaxRepeated + 1 /\ watch.pressures \in 0..PressureLimit
    /\ activeGoal = None \/ (activeGoal.status \in {"ACTIVE", "PAUSED"} /\ activeGoal.score \in 0..1000)
=============================================================================
