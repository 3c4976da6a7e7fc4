------------------------------ MODULE Autonomy ------------------------------
(***************************************************************************)
(* lumina_next/autonomy_supervisor.py on top of the job service: the       *)
(* proactive life cycle shares VisualJob with human requests.              *)
(*                                                                         *)
(* A tick holds _tick_lock from beginning to end.  It first collects the   *)
(* visual action that an earlier tick left pending; only without one does  *)
(* it look at resources and human requests, plan with the model, look      *)
(* again and execute one action.  Its locations are its awaits: whatever   *)
(* the supervisor read before one may be out of date after it.  stop()     *)
(* cancels the tick at any of them.                                        *)
(*                                                                         *)
(* Human requests come from Calls; Automatic are the ids the supervisor    *)
(* draws for its own visual actions.  A plan is the action it names.       *)
(***************************************************************************)
EXTENDS VisualJob

CONSTANT Automatic   \* request ids the supervisor draws

\* The actions that become a visual job; "observe" is one of _SPATIAL_ACTIONS too, and
\* is refused by _execute_visual_action before it looks at anything.
Spatial == {"move", "look"}
Actions == Spatial \cup {"body",       \* speak, gesture or rest, posted to the bridge
                         "sleep",
                         "rejected"}   \* validation errors, an unsupported action, observe

ASSUME AutonomyAssumption ==
    /\ Automatic \subseteq Requests /\ \A r \in Automatic : Calls[r] = {}
    /\ None \notin Actions

VARIABLES
    tick,        \* the await where the tick that holds _tick_lock is
    plan,        \* the action of its validated plan
    pending,     \* _pending_visual_action
    intent,      \* the action each automatic request was started for
    collected,   \* how often its terminal result was counted
    succeeded,   \* whether it was counted as succeeded
    chatting     \* orchestrator.active_request_ids() is not empty

supervisor == <<tick, plan, pending, intent, collected, succeeded, chatting>>
allVars == <<vars, supervisor>>

Awaits  == {"resources", "requests", "planning", "recheck", "admission", "working"}

AutonomyInit ==
    /\ Init
    /\ tick = "idle" /\ plan = None /\ pending = None
    /\ intent = [r \in Automatic |-> None]
    /\ collected = [r \in Automatic |-> 0]
    /\ succeeded = [r \in Automatic |-> FALSE]
    /\ chatting = FALSE

\* _visual_execution_busy: an owner, a stop or a task to finish, or a held lock.
Busy == activeId # None \/ unconfirmed # None \/ TaskRunning \/ operation # NoOperation

TickTo(location) == tick' = location /\ plan' = None

-----------------------------------------------------------------------------
(* The beginning of a tick: _reconcile_pending_visual_action               *)

\* Mutant of Settled: a terminal status is enough.
SettledByStatus(r) == jobs[r].status \in Terminal

\* The result is stable: the job is terminal, nobody owns the slot, no task is running
\* and its stop is not unconfirmed.
Settled(r) ==
    /\ jobs[r].status \in Terminal
    /\ activeId # r /\ ~TaskRunning /\ unconfirmed # r

\* Mutant of Collect: the result stays pending and is counted again.
CollectAgain ==
    /\ tick = "idle" /\ pending # None /\ Settled(pending)
    /\ collected[pending] < 2
    /\ collected' = [collected EXCEPT ![pending] = @ + 1]
    /\ UNCHANGED <<tick, plan, pending, intent, succeeded, chatting, vars>>

\* Mutant of Collect: a failed action is left pending.
CollectSuccess ==
    /\ tick = "idle" /\ pending # None /\ Settled(pending)
    /\ jobs[pending].status \in {"arrived", "observed"}
    /\ collected' = [collected EXCEPT ![pending] = @ + 1]
    /\ pending' = None
    /\ UNCHANGED <<tick, plan, intent, succeeded, chatting, vars>>

\* Count the pending action once, as succeeded when it did what it was started for.  A
\* job that ended "observed" may not have found its target (not_visible).
Collect ==
    /\ tick = "idle" /\ pending # None /\ Settled(pending)
    /\ collected' = [collected EXCEPT ![pending] = @ + 1]
    /\ \E found \in BOOLEAN :
          succeeded' = [succeeded EXCEPT ![pending] =
             \/ intent[pending] = "move" /\ jobs[pending].status = "arrived"
             \/ intent[pending] = "look" /\ jobs[pending].status = "observed" /\ found]
    /\ pending' = None
    /\ UNCHANGED <<tick, plan, intent, chatting, vars>>

\* Nothing is pending and the planner may run: the resource snapshot is awaited.
TickBegins ==
    /\ tick = "idle" /\ pending = None
    /\ TickTo("resources")
    /\ UNCHANGED <<pending, intent, collected, succeeded, chatting, vars>>

-----------------------------------------------------------------------------
(* The rest of _tick_locked                                                *)

\* Elevated memory pressure ends the tick.
ResourcesRead ==
    /\ tick = "resources"
    /\ \E location \in {"idle", "requests"} : TickTo(location)
    /\ UNCHANGED <<pending, intent, collected, succeeded, chatting, vars>>

\* A human request or a visual job ends the tick; so do sleep and waking up.
RequestsRead ==
    /\ tick = "requests"
    /\ IF chatting \/ Busy THEN TickTo("idle")
       ELSE \E location \in {"idle", "working", "planning"} : TickTo(location)
    /\ UNCHANGED <<pending, intent, collected, succeeded, chatting, vars>>

\* Mutant of Planned: an action the supervisor does not know is passed on.
PlannedUnvalidated ==
    /\ tick = "planning"
    /\ \E action \in Actions \cup {"dance"} : tick' = "recheck" /\ plan' = action
    /\ UNCHANGED <<pending, intent, collected, succeeded, chatting, vars>>

\* The model answers, or planning fails.
Planned ==
    /\ tick = "planning"
    /\ \/ TickTo("idle")
       \/ \E action \in Actions : tick' = "recheck" /\ plan' = action
    /\ UNCHANGED <<pending, intent, collected, succeeded, chatting, vars>>

\* Mutant of Recheck: the visual service is not looked at again after planning.
RecheckRequestsOnly ==
    /\ tick = "recheck"
    /\ IF chatting \/ plan = "rejected" THEN TickTo("idle")
       ELSE tick' = (IF plan \in Spatial THEN "admission" ELSE "working") /\ UNCHANGED plan
    /\ UNCHANGED <<pending, intent, collected, succeeded, chatting, vars>>

\* After planning a human request or job wins; otherwise _execute begins.  A body action
\* is posted before the next await.
Recheck ==
    /\ tick = "recheck"
    /\ IF chatting \/ Busy \/ plan = "rejected" THEN TickTo("idle")
       ELSE tick' = (IF plan \in Spatial THEN "admission" ELSE "working") /\ UNCHANGED plan
    /\ UNCHANGED <<pending, intent, collected, succeeded, chatting, vars>>

\* _execute_visual_action: look a third time, then start(only_if_idle=True), which
\* finds the lock free and registers the job without giving way.
Admission ==
    /\ tick = "admission"
    /\ \/ /\ TickTo("idle")
          /\ UNCHANGED <<pending, intent, vars>>
       \/ /\ ~chatting /\ ~Busy /\ Portable
          /\ \E r \in Automatic :
                /\ jobs[r] = NoJob
                /\ Register(r, FALSE, plan = "move")
                /\ pending' = r
                /\ intent' = [intent EXCEPT ![r] = plan]
          /\ TickTo("idle")
          /\ UNCHANGED <<forwarded, unconfirmed, operation, blocked, world>>
    /\ UNCHANGED <<collected, succeeded, chatting>>

\* The sleep cycle or the bridge answers.
WorkDone ==
    /\ tick = "working"
    /\ TickTo("idle")
    /\ UNCHANGED <<pending, intent, collected, succeeded, chatting, vars>>

\* AutonomySupervisor.stop() cancels the worker inside the tick.
StopSupervisor ==
    /\ tick # "idle"
    /\ TickTo("idle")
    /\ UNCHANGED <<pending, intent, collected, succeeded, chatting, vars>>

\* Human chat requests come and go.
Chat ==
    /\ chatting' = ~chatting
    /\ UNCHANGED <<tick, plan, pending, intent, collected, succeeded, vars>>

-----------------------------------------------------------------------------
TickStep == Collect \/ TickBegins \/ ResourcesRead \/ RequestsRead \/ Planned \/ Recheck
            \/ Admission \/ WorkDone

AutonomyNext ==
    \/ TickStep \/ StopSupervisor \/ Chat
    \/ Next /\ UNCHANGED supervisor

\* The worker ticks for ever, and the job service runs as in VisualJob.
AutonomyFairness ==
    /\ WF_allVars(Collect)
    /\ \A r \in Requests : WF_allVars(Step(r) /\ UNCHANGED supervisor)
    /\ WF_allVars(Finishing /\ UNCHANGED supervisor)

AutonomySpec == AutonomyInit /\ [][AutonomyNext]_allVars
AutonomyFairSpec == AutonomySpec /\ AutonomyFairness

-----------------------------------------------------------------------------
\* Types of the supervisor's fields: a plan that was validated names a known action.
SupervisorTypeOK ==
    /\ tick \in Awaits \cup {"idle"}
    /\ plan \in Actions \cup {None}
    /\ pending \in Automatic \cup {None}
    /\ intent \in [Automatic -> Spatial \cup {None}]
    /\ collected \in [Automatic -> 0..2]
    /\ succeeded \in [Automatic -> BOOLEAN]
    /\ chatting \in BOOLEAN

\* Every visual action is counted at most once, and none is left behind: what was
\* started is pending or was counted.
CountedOnce ==
    \A r \in Automatic :
        /\ collected[r] <= 1
        /\ jobs[r].status # "none" => (pending = r \/ collected[r] = 1)
        /\ pending = r => collected[r] = 0

\* A success the supervisor has counted is never taken back by the job: the final
\* resource sample of a monitored job comes before it is collected.
CountedSuccessStands ==
    \A r \in Automatic : succeeded[r] =>
        jobs[r].status = IF intent[r] = "move" THEN "arrived" ELSE "observed"

\* When an autonomous action reaches the avatar (a body command is posted or a visual
\* job is admitted), no motion of a human job is under way or can still start, and no
\* human job waits to be admitted.
HumansFirst ==
    [][(tick' = "working" /\ plan' = "body" /\ tick # "working")
          \/ (\E r \in Automatic : jobs[r] = NoJob /\ jobs'[r] # NoJob) =>
       /\ \A r \in Requests : ~MayStillRun(r, "motion")
       /\ operation = NoOperation /\ ~chatting]_allVars

\* A pending action is collected by a later tick, unless its own stop stays
\* unconfirmed.
PendingIsCollected ==
    \A r \in Automatic : pending = r ~> pending # r \/ unconfirmed = r
=============================================================================
