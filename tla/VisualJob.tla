----------------------------- MODULE VisualJob -----------------------------
(***************************************************************************)
(* The job service of lumina_next/visual_navigation.py: admission, the     *)
(* life of one job coroutine, exact-owned stops, and release.              *)
(*                                                                         *)
(* A request becomes a job.  Its coroutine observes, may dispatch one      *)
(* motion to the avatar engine, waits for it, verifies the arrival and     *)
(* speaks a report.  start() and cancel() hold one asyncio lock and cancel *)
(* the running coroutine wherever it is awaiting.  A stop is sent for the  *)
(* exact command a job owns, and an unconfirmed stop is remembered.        *)
(*                                                                         *)
(* A location of the coroutine is an await inside _run_job, _finish,       *)
(* _safe_stop or _fail_job_budget.  Where the code calls these from an     *)
(* except clause the location has a name of its own, because an exception  *)
(* raised there is not caught by the sibling clauses.                      *)
(*                                                                         *)
(* The engine is the avatar controller of the Godot project behind its     *)
(* HTTP bridge: a request in flight may be delivered late, also after the  *)
(* caller gave up, or be lost.  Images, maps and answers are left out: a   *)
(* stage succeeds or fails, and failures differ only in whether they may   *)
(* still speak.                                                            *)
(***************************************************************************)
EXTENDS Naturals, FiniteSets, Absent

CONSTANTS
    Requests,    \* request ids
    Calls,       \* the flags with which start() may be called for each request
    Portable,    \* portable_enabled(): motions go through the portable adapter
    Monitored    \* enabled() and phase_enabled(): the budget watches whole jobs

ASSUME VisualJobAssumption ==
    /\ None \notin Requests \cup {"motion", "speech"}
    /\ Calls \in [Requests ->
          SUBSET [speak : BOOLEAN, allowMove : BOOLEAN, onlyIfIdle : BOOLEAN]]
    /\ Portable \in BOOLEAN /\ Monitored \in BOOLEAN

VARIABLES
    jobs,         \* self.jobs
    at,           \* where each job's coroutine is awaiting
    forwarded,    \* the coroutine has been cancelled once
    activeId,     \* self.active_id
    unconfirmed,  \* self.unconfirmed_stop
    operation,    \* the start() or cancel() that holds self.lock
    blocked,      \* self.resource_budget.blocked_reason is set
    engine,       \* fate of each job's motion and speech command
    cancelledIds  \* _cancelled_command_ids of the avatar controller

vars == <<jobs, at, forwarded, activeId, unconfirmed, operation, blocked, engine,
          cancelledIds>>
world == <<engine, cancelledIds>>

Kinds    == {"motion", "speech"}
\* "observed" stands for not_visible too, and "failed" for ambiguous: how a job ended.
Terminal == {"arrived", "observed", "failed", "cancelled"}

\* Awaits inside the try block of _run_job ...
InTry     == {"observe", "dispatch", "move", "verify", "report", "stop_report"}
\* ... inside its "except Exception" clause ...
InHandler == {"stop_error", "report_error", "stop_report_error"}
\* ... and inside _run, around _run_job.
Outside   == {"none", "check", "stop_cancel", "ended", "ended_cancelled",
              "stop_budget", "released"}
Locations == InTry \cup InHandler \cup Outside
Stopping  == {"stop_report", "stop_error", "stop_report_error", "stop_cancel",
              "stop_budget"}

Fates == {"none",        \* never posted
          "sent",        \* the POST is under way
          "live",        \* the avatar executes it
          "adrift",      \* still executed, but reported interrupted by another kind
          "completed",
          "ended",       \* failed, interrupted, or refused on arrival
          "lost"}        \* never arrived
Ended   == {"completed", "ended"}   \* the engine reported an outcome, and it is over
Running == {"live", "adrift"}

Job == [status : Terminal \cup {"none", "observing", "moving"},
        speak : BOOLEAN, allowMove : BOOLEAN,
        command : BOOLEAN,      \* command_id is allocated
        rejected : BOOLEAN,     \* command_dispatch_state = "rejected"
        retired : BOOLEAN,      \* the adapter retired the motion on its terminal event
        speech : BOOLEAN,       \* speech_command_id is allocated
        speechStatus : {"none", "pending", "completed",
                        "failed",     \* or "timeout"
                        "cancelled", "stop_unconfirmed"},
        stopConfirmed : {"unset", "no", "yes"},
        stopFor : Kinds \cup {None}]   \* stop_expected_command_id

NoJob == [status |-> "none", speak |-> FALSE, allowMove |-> FALSE,
          command |-> FALSE, rejected |-> FALSE, retired |-> FALSE,
          speech |-> FALSE, speechStatus |-> "none",
          stopConfirmed |-> "unset", stopFor |-> None]

NoOperation == [kind |-> "none", request |-> None, cancelled |-> None,
                speak |-> FALSE, allowMove |-> FALSE, stage |-> "none"]

\* The command a stop of this job names: the speech before the motion.
OwnedKind(job) ==
    IF job.speech THEN "speech" ELSE IF job.command THEN "motion" ELSE None

\* _safe_stop returns at once: nothing owned, or the adapter rejected the motion.
StopIsTrivial(job) ==
    \/ OwnedKind(job) = None
    \/ Portable /\ OwnedKind(job) = "motion" /\ job.rejected

\* Mutant of StopBegun: a state that nobody else knows.
StopBegunUnknown(job) == [job EXCEPT !.stopConfirmed = "unknown"]

\* What _safe_stop records before its first await.
StopBegun(job) ==
    IF OwnedKind(job) = None THEN job
    ELSE [job EXCEPT !.stopFor = OwnedKind(job),
                     !.stopConfirmed = IF StopIsTrivial(job) THEN "yes" ELSE "no"]

\* self.unconfirmed_stop after that prologue.
UnconfirmedAfter(r, job) ==
    IF OwnedKind(job) = None THEN unconfirmed
    ELSE IF StopIsTrivial(job) THEN None ELSE r

MayStillRun(r, k) ==
    \/ engine[r][k] \in Running
    \/ engine[r][k] = "sent" /\ <<r, k>> \notin cancelledIds

-----------------------------------------------------------------------------
Init ==
    /\ jobs = [r \in Requests |-> NoJob]
    /\ at = [r \in Requests |-> "none"]
    /\ forwarded = [r \in Requests |-> FALSE]
    /\ activeId = None /\ unconfirmed = None
    /\ operation = NoOperation
    /\ blocked = FALSE
    /\ engine = [r \in Requests |-> [k \in Kinds |-> "none"]]
    /\ cancelledIds = {}

TaskRunning == \E r \in Requests : at[r] \notin {"none", "released"}

-----------------------------------------------------------------------------
(* start() and cancel(), under self.lock                                   *)

\* start: a known id is answered from self.jobs; a background caller and a silent
\* look give way to a running job; everyone else cancels it.
StartEnter(r, call) ==
    /\ operation = NoOperation
    /\ jobs[r] = NoJob
    /\ ~(call.onlyIfIdle /\ (activeId # None \/ TaskRunning \/ unconfirmed # None))
    /\ ~(activeId # None /\ ~call.allowMove /\ ~call.speak)
    /\ operation' = [kind |-> "start", request |-> r, cancelled |-> activeId,
                     speak |-> call.speak, allowMove |-> call.allowMove,
                     stage |-> "cancelling"]
    /\ UNCHANGED <<jobs, at, forwarded, activeId, unconfirmed, blocked, world>>

\* cancel: retry an unconfirmed stop, or cancel the active job.
CancelEnter(r) ==
    /\ operation = NoOperation
    /\ \/ activeId = None /\ unconfirmed = r
       \/ activeId = r
    /\ operation' = [NoOperation EXCEPT
                        !.kind = "cancel", !.request = r, !.cancelled = activeId,
                        !.stage = IF activeId = None THEN "restop" ELSE "cancelling"]
    /\ IF activeId = None
       THEN /\ jobs' = [jobs EXCEPT ![r] = StopBegun(@)]
            /\ unconfirmed' = UnconfirmedAfter(r, jobs[r])
       ELSE UNCHANGED <<jobs, unconfirmed>>
    /\ UNCHANGED <<at, forwarded, activeId, blocked, world>>

\* Mutant of Interrupted: the stop is not remembered while it is under way.
InterruptedForgets(r) ==
    /\ IF at[r] \in InTry
       THEN /\ jobs' = [jobs EXCEPT ![r] = StopBegun(@)]
            /\ at' = [at EXCEPT ![r] = "stop_cancel"]
       ELSE at' = [at EXCEPT ![r] = "ended_cancelled"] /\ UNCHANGED jobs
    /\ UNCHANGED unconfirmed

\* An error raised where the try block of _run_job catches cancellation starts the
\* scoped stop; elsewhere it leaves the coroutine.
Interrupted(r) ==
    IF at[r] \in InTry
    THEN /\ jobs' = [jobs EXCEPT ![r] = StopBegun(@)]
         /\ unconfirmed' = UnconfirmedAfter(r, jobs[r])
         /\ at' = [at EXCEPT ![r] = "stop_cancel"]
    ELSE /\ at' = [at EXCEPT ![r] = "ended_cancelled"]
         /\ UNCHANGED <<jobs, unconfirmed>>

\* _cancel_active cancels the task; _run forwards that once, and not at all while a
\* resource trip is already draining the job.
ForwardCancel(r) ==
    /\ operation.stage = "cancelling" /\ operation.cancelled = r
    /\ at[r] \in InTry \cup InHandler \cup {"check"}
    /\ ~forwarded[r] /\ ~(Monitored /\ blocked)
    /\ Interrupted(r)
    /\ forwarded' = [forwarded EXCEPT ![r] = TRUE]
    /\ UNCHANGED <<activeId, operation, blocked, world>>

\* Mutants of Drained: the task is not awaited; a terminal status is overwritten.
DrainedEarly ==
    /\ operation.stage = "cancelling"
    /\ activeId' = None
    /\ operation' = IF operation.kind = "cancel" THEN NoOperation
                    ELSE [operation EXCEPT !.stage = "drained"]
    /\ UNCHANGED <<jobs, at, forwarded, unconfirmed, blocked, world>>

DrainedOverwrites ==
    /\ operation.stage = "cancelling" /\ ~TaskRunning
    /\ jobs' = [r \in Requests |-> IF r = operation.cancelled
                  THEN [jobs[r] EXCEPT !.status = "cancelled"] ELSE jobs[r]]
    /\ activeId' = None
    /\ operation' = IF operation.kind = "cancel" THEN NoOperation
                    ELSE [operation EXCEPT !.stage = "drained"]
    /\ UNCHANGED <<at, forwarded, unconfirmed, blocked, world>>

\* _cancel_active returns once the task is done: a job without a terminal status is
\* marked cancelled, and ownership is released.
Drained ==
    /\ operation.stage = "cancelling"
    /\ ~TaskRunning
    /\ jobs' = [r \in Requests |->
                  IF r = operation.cancelled /\ jobs[r].status \notin Terminal
                  THEN [jobs[r] EXCEPT !.status = "cancelled"] ELSE jobs[r]]
    /\ activeId' = None
    /\ operation' = IF operation.kind = "cancel" THEN NoOperation
                    ELSE [operation EXCEPT !.stage = "drained"]
    /\ UNCHANGED <<at, forwarded, unconfirmed, blocked, world>>

\* start, after the previous job is gone: an unconfirmed stop is tried once more.
Restop ==
    /\ operation.stage = "drained" /\ unconfirmed # None
    /\ operation' = [operation EXCEPT !.stage = "restop"]
    /\ LET r == unconfirmed
       IN /\ jobs' = [jobs EXCEPT ![r] = StopBegun(@)]
          /\ unconfirmed' = UnconfirmedAfter(r, jobs[r])
    /\ UNCHANGED <<at, forwarded, activeId, blocked, world>>

\* Register a job and create its task.
Register(r, speak, allowMove) ==
    /\ jobs' = [jobs EXCEPT ![r] = [NoJob EXCEPT !.status = "observing", !.speak = speak,
                                                 !.allowMove = allowMove]]
    /\ at' = [at EXCEPT ![r] = IF Monitored THEN "check" ELSE "observe"]
    /\ activeId' = r

\* Mutant of Admit: the unconfirmed stop is not looked at.
AdmitRegardless ==
    /\ operation.stage = "drained"
    /\ Register(operation.request, operation.speak, operation.allowMove)
    /\ operation' = NoOperation
    /\ UNCHANGED <<forwarded, unconfirmed, blocked, world>>

\* start, at its end: nothing of an earlier job is left.
Admit ==
    /\ operation.stage = "drained" /\ unconfirmed = None
    /\ Register(operation.request, operation.speak, operation.allowMove)
    /\ operation' = NoOperation
    /\ UNCHANGED <<forwarded, unconfirmed, blocked, world>>

-----------------------------------------------------------------------------
(* The stages of _run_job                                                  *)

\* Mutant of Finish: speaks whether or not the motion is known to have stopped.
FinishAlwaysSpeaks(r, job, status, speaking, silent) ==
    /\ jobs' = [jobs EXCEPT ![r] = [job EXCEPT !.status = status, !.speech = TRUE,
                                               !.speechStatus = "pending"]]
    /\ engine' = [engine EXCEPT ![r]["speech"] = "sent"]
    /\ cancelledIds' = cancelledIds \ {<<r, "speech">>}
    /\ at' = [at EXCEPT ![r] = speaking]

\* _finish up to its first await: the status, and a speech command of its own unless
\* a stop is unconfirmed.  The id is new every time: no earlier stop names it.
Finish(r, job, status, speaking, silent) ==
    IF job.speak /\ job.stopConfirmed # "no"
    THEN /\ jobs' = [jobs EXCEPT ![r] = [job EXCEPT !.status = status, !.speech = TRUE,
                                                    !.speechStatus = "pending"]]
         /\ engine' = [engine EXCEPT ![r]["speech"] = "sent"]
         /\ cancelledIds' = cancelledIds \ {<<r, "speech">>}
         /\ at' = [at EXCEPT ![r] = speaking]
    ELSE /\ jobs' = [jobs EXCEPT ![r] = [job EXCEPT !.status = status]]
         /\ at' = [at EXCEPT ![r] = silent]
         /\ UNCHANGED world

\* The end of "except Exception": report the failure.  Resource and phase failures
\* never start speech.
FinishError(r, job) == Finish(r, job, "failed", "report_error", "ended")

\* "except Exception": stop what the job owns, then report.  mute: the failure code
\* belongs to the resource budget or the phase lease.
Fail(r, job, mute) ==
    LET muted == [job EXCEPT !.speak = @ /\ ~mute]
    IN IF StopIsTrivial(muted)
       THEN /\ unconfirmed' = UnconfirmedAfter(r, muted)
            /\ FinishError(r, StopBegun(muted))
       ELSE /\ unconfirmed' = r
            /\ jobs' = [jobs EXCEPT ![r] = StopBegun(muted)]
            /\ at' = [at EXCEPT ![r] = "stop_error"]
            /\ UNCHANGED world

\* resource_budget.run: the check before the job starts.
CheckBudget(r) ==
    /\ at[r] = "check"
    /\ \/ /\ ~blocked
          /\ at' = [at EXCEPT ![r] = "observe"]
          /\ UNCHANGED <<jobs, blocked>>
       \/ /\ blocked' = TRUE
          /\ jobs' = [jobs EXCEPT ![r].status = "failed", ![r].speak = FALSE]
          /\ at' = [at EXCEPT ![r] = "released"]
    /\ activeId' = IF at'[r] = "released" THEN None ELSE activeId
    /\ UNCHANGED <<forwarded, unconfirmed, operation, world>>

\* The image shows no target, or only an answer was asked for.
ObservationEnds(r) ==
    /\ ~blocked
    /\ Finish(r, jobs[r], "observed", "report", "ended")
    /\ UNCHANGED <<unconfirmed, blocked>>

\* The target is grounded again in a fresh frame and a route is planned: ownership of
\* the motion is allocated before it is dispatched.
MotionPlanned(r) ==
    /\ ~blocked /\ jobs[r].allowMove
    /\ jobs' = [jobs EXCEPT ![r].command = TRUE]
    /\ at' = [at EXCEPT ![r] = "dispatch"]
    /\ UNCHANGED <<world, unconfirmed, blocked>>

\* The lease, the model wake, a capture, the inference, grounding or planning fails.
ObservationFails(r) ==
    \/ Fail(r, jobs[r], FALSE) /\ UNCHANGED blocked
    \/ Fail(r, jobs[r], TRUE) /\ blocked' \in {blocked, TRUE}

Observe(r) ==
    /\ at[r] = "observe"
    /\ ObservationEnds(r) \/ MotionPlanned(r) \/ ObservationFails(r)
    /\ UNCHANGED <<forwarded, activeId, operation>>

\* The motion POST leaves the process (the portable adapter first reads the world).
PostMotion(r) ==
    /\ at[r] = "dispatch" /\ engine[r]["motion"] = "none"
    /\ engine' = [engine EXCEPT ![r]["motion"] = "sent"]
    /\ UNCHANGED <<jobs, at, forwarded, activeId, unconfirmed, operation, blocked,
                   cancelledIds>>

\* The dispatch is acknowledged, refused by the bridge, or its response is lost.
Dispatched(r) ==
    /\ at[r] = "dispatch"
    /\ \/ /\ engine[r]["motion"] \notin {"none", "lost"}
          /\ jobs' = [jobs EXCEPT ![r].status = "moving"]
          /\ at' = [at EXCEPT ![r] = "move"]
          /\ UNCHANGED <<world, unconfirmed>>
       \/ /\ engine[r]["motion"] \in {"none", "lost"}
          /\ Fail(r, [jobs[r] EXCEPT !.rejected = Portable], FALSE)
       \/ Fail(r, jobs[r], FALSE)
    /\ UNCHANGED <<forwarded, activeId, operation, blocked>>

\* Mutant of Poll: any terminal report of the command counts as its completion.
PollAnyReport(r) ==
    /\ at[r] = "move" /\ engine[r]["motion"] \in Ended
    /\ jobs' = [jobs EXCEPT ![r].retired = Portable]
    /\ at' = [at EXCEPT ![r] = "verify"]
    /\ UNCHANGED <<forwarded, activeId, unconfirmed, operation, blocked, world>>

\* One poll of the movement loop: completion, a failure report, a transport error
\* or the deadline.  The portable loop also keeps the model awake: a lease failure
\* is a phase error, while a budget trip arrives as a bare VisualResourceError,
\* whose code the except clause does not take for a resource failure.
Poll(r) ==
    /\ at[r] = "move"
    /\ \/ /\ engine[r]["motion"] = "completed"
          /\ jobs' = [jobs EXCEPT ![r].retired = Portable]
          /\ at' = [at EXCEPT ![r] = "verify"]
          /\ UNCHANGED <<world, unconfirmed>>
       \/ /\ engine[r]["motion"] \in Ended
          /\ Fail(r, [jobs[r] EXCEPT !.retired = Portable], FALSE)
       \/ Fail(r, jobs[r], FALSE)   \* or the report contradicts a live route
       \/ Portable /\ Monitored /\ Fail(r, jobs[r], TRUE)
    /\ UNCHANGED <<forwarded, activeId, operation, blocked>>

KeepaliveTrips(r) ==
    /\ at[r] = "move" /\ Portable /\ Monitored
    /\ blocked' = TRUE
    /\ Fail(r, jobs[r], FALSE)
    /\ UNCHANGED <<forwarded, activeId, operation>>

\* Frames captured after the arrival, or the pose-and-epoch fast path, confirm it.
ArrivalConfirmed(r) ==
    /\ Finish(r, jobs[r], "arrived", "report", "ended")
    /\ UNCHANGED <<unconfirmed, blocked>>

\* The evidence refutes the arrival, or cannot be obtained.
ArrivalRefuted(r) ==
    \/ Fail(r, jobs[r], FALSE) /\ UNCHANGED blocked
    \/ Portable /\ Fail(r, jobs[r], TRUE) /\ blocked' \in {blocked, TRUE}

Verify(r) ==
    /\ at[r] = "verify"
    /\ ArrivalConfirmed(r) \/ ArrivalRefuted(r)
    /\ UNCHANGED <<forwarded, activeId, operation>>

\* _finish waits for the speech to end; a timeout or a lost response stops it.  A
\* response that is not JSON escapes _finish: the try block of _run_job turns it into
\* a failure of the job, while from the except clause it leaves the coroutine.
Report(r) ==
    /\ at[r] \in {"report", "report_error"}
    /\ \/ /\ engine[r]["speech"] \in Ended
          /\ jobs' = [jobs EXCEPT ![r].speechStatus =
                         IF engine[r]["speech"] = "completed" THEN "completed" ELSE "failed"]
          /\ at' = [at EXCEPT ![r] = "ended"]
          /\ UNCHANGED <<unconfirmed, world>>
       \/ /\ jobs' = [jobs EXCEPT ![r] = [StopBegun(@) EXCEPT !.speechStatus = "failed"]]
          /\ unconfirmed' = r
          /\ at' = [at EXCEPT ![r] = IF at[r] = "report" THEN "stop_report"
                                     ELSE "stop_report_error"]
          /\ UNCHANGED world
       \/ at[r] = "report" /\ Fail(r, jobs[r], FALSE)
       \/ /\ at[r] = "report_error"
          /\ at' = [at EXCEPT ![r] = "ended"]
          /\ UNCHANGED <<jobs, unconfirmed, world>>
    /\ UNCHANGED <<forwarded, activeId, operation, blocked>>

-----------------------------------------------------------------------------
(* _safe_stop                                                              *)

\* Someone is inside _safe_stop for job r: its own coroutine, or start()/cancel().
StopUnderWay(r) ==
    \/ at[r] \in Stopping
    \/ operation.stage = "restop" /\ unconfirmed = r

\* The adapter's own record: the motion is over, or was never posted.
LocallyOver(r) ==
    /\ Portable /\ jobs[r].stopFor = "motion"
    /\ engine[r]["motion"] = "none" \/ jobs[r].retired

\* The targeted stop reaches the avatar: the id can never start again, and if it is
\* the one the avatar calls active, the route and the voice both end.
StopDelivered(r) ==
    /\ StopUnderWay(r) /\ jobs[r].stopConfirmed = "no" /\ ~LocallyOver(r)
    /\ LET k == jobs[r].stopFor
       IN /\ <<r, k>> \notin cancelledIds
          /\ cancelledIds' = cancelledIds \cup {<<r, k>>}
          /\ engine' = IF engine[r][k] # "live" THEN engine
                       ELSE [q \in Requests |-> [j \in Kinds |->
                               IF engine[q][j] \in Running THEN "ended" ELSE engine[q][j]]]
    /\ UNCHANGED <<jobs, at, forwarded, activeId, unconfirmed, operation, blocked>>

\* What the caller accepts as a stop: the bridge path needs the acknowledgement and
\* another active command; the adapter also needs the owned command's own end and
\* an avatar without a route.
Confirmable(r) ==
    LET k == jobs[r].stopFor
    IN \/ LocallyOver(r)
       \/ /\ <<r, k>> \in cancelledIds
          /\ IF Portable /\ k = "motion"
             THEN /\ engine[r][k] \in Ended
                  /\ \A q \in Requests : engine[q]["motion"] \notin Running
             ELSE engine[r][k] # "live"

\* Where the coroutine goes when its _safe_stop returned.
AfterStop(r, job) ==
    LET over == IF job.stopConfirmed = "no" THEN "stop_unconfirmed" ELSE "cancelled"
        hushed == [job EXCEPT !.speechStatus = IF @ = "pending" THEN over ELSE @]
    IN CASE at[r] = "stop_error" -> FinishError(r, job)
         [] at[r] \in {"stop_report", "stop_report_error"} ->
              /\ jobs' = [jobs EXCEPT ![r] = job]
              /\ at' = [at EXCEPT ![r] = "ended"]
              /\ UNCHANGED world
         [] at[r] = "stop_cancel" ->
              /\ jobs' = [jobs EXCEPT ![r] =
                   [hushed EXCEPT !.status =
                        IF @ \in Terminal THEN @
                        ELSE IF job.stopConfirmed = "no" THEN "failed" ELSE "cancelled"]]
              /\ at' = [at EXCEPT ![r] = "ended_cancelled"]
              /\ UNCHANGED world
         [] at[r] = "stop_budget" ->
              /\ jobs' = [jobs EXCEPT ![r] = hushed]
              /\ at' = [at EXCEPT ![r] = "released"]
              /\ UNCHANGED world

\* Mutant of StopReturns: it waits until the stop is confirmed.
StopReturnsConfirmed(r) ==
    /\ at[r] \in Stopping
    /\ jobs[r].stopConfirmed # "no" \/ Confirmable(r)
    /\ AfterStop(r, [jobs[r] EXCEPT !.stopConfirmed = IF @ = "no" THEN "yes" ELSE @])
    /\ unconfirmed' = IF jobs[r].stopConfirmed = "no" THEN None ELSE unconfirmed
    /\ activeId' = IF at'[r] = "released" /\ activeId = r THEN None ELSE activeId
    /\ UNCHANGED <<forwarded, operation, blocked>>

\* The coroutine's stop returns: confirmed, or its three seconds ran out.
StopReturns(r) ==
    /\ at[r] \in Stopping
    /\ \/ /\ jobs[r].stopConfirmed # "no" \/ Confirmable(r)
          /\ AfterStop(r, [jobs[r] EXCEPT !.stopConfirmed =
                              IF @ = "no" THEN "yes" ELSE @])
          /\ unconfirmed' = IF jobs[r].stopConfirmed = "no" THEN None ELSE unconfirmed
       \/ /\ jobs[r].stopConfirmed = "no"
          /\ AfterStop(r, jobs[r])
          /\ UNCHANGED unconfirmed
    /\ activeId' = IF at'[r] = "released" /\ activeId = r THEN None ELSE activeId
    /\ UNCHANGED <<forwarded, operation, blocked>>

\* Mutant of RestopReturns: it waits until the stop is confirmed.
RestopReturnsConfirmed ==
    /\ operation.stage = "restop"
    /\ unconfirmed # None => Confirmable(unconfirmed)
    /\ jobs' = [r \in Requests |-> IF r = unconfirmed
                  THEN [jobs[r] EXCEPT !.stopConfirmed = "yes"] ELSE jobs[r]]
    /\ unconfirmed' = None
    /\ operation' = NoOperation
    /\ UNCHANGED <<at, forwarded, activeId, blocked, world>>

\* The stop retried by start() or cancel() returns; start() refuses the request
\* while the stop stays unconfirmed.
RestopReturns ==
    /\ operation.stage = "restop"
    /\ \/ /\ unconfirmed # None => Confirmable(unconfirmed)
          /\ jobs' = [r \in Requests |-> IF r = unconfirmed
                        THEN [jobs[r] EXCEPT !.stopConfirmed = "yes"] ELSE jobs[r]]
          /\ unconfirmed' = None
          /\ operation' = IF operation.kind = "cancel" THEN NoOperation
                          ELSE [operation EXCEPT !.stage = "drained"]
       \/ /\ unconfirmed # None
          /\ operation' = NoOperation
          /\ UNCHANGED <<jobs, unconfirmed>>
    /\ UNCHANGED <<at, forwarded, activeId, blocked, world>>

-----------------------------------------------------------------------------
(* The resource monitor around the job, and the release of ownership       *)

\* A periodic check of resource_budget.run trips: the job coroutine is cancelled.
ResourceTrip(r) ==
    /\ Monitored /\ ~forwarded[r]
    /\ at[r] \in InTry \cup InHandler
    /\ Interrupted(r)
    /\ blocked' = TRUE
    /\ forwarded' = [forwarded EXCEPT ![r] = TRUE]
    /\ UNCHANGED <<activeId, operation, world>>

\* The job coroutine is over.  A monitored job is sampled once more; a trip now, or
\* one that cancelled the job, fails it and stops what it still owns.  Only then is
\* request ownership released.
Release(r) ==
    /\ at[r] \in {"ended", "ended_cancelled"}
    /\ \/ /\ ~(Monitored /\ blocked)
          /\ at' = [at EXCEPT ![r] = "released"]
          /\ UNCHANGED <<jobs, unconfirmed, blocked>>
       \/ /\ Monitored
          /\ blocked' = TRUE
          /\ LET failed == [jobs[r] EXCEPT !.status = "failed", !.speak = FALSE]
                 stopped == failed.stopConfirmed = "yes" /\ failed.stopFor = OwnedKind(failed)
             IN IF stopped
                THEN /\ jobs' = [jobs EXCEPT ![r] = [failed EXCEPT !.speechStatus =
                                    IF @ = "pending" THEN "cancelled" ELSE @]]
                     /\ at' = [at EXCEPT ![r] = "released"]
                     /\ UNCHANGED unconfirmed
                ELSE /\ jobs' = [jobs EXCEPT ![r] = StopBegun(failed)]
                     /\ unconfirmed' = UnconfirmedAfter(r, failed)
                     /\ at' = [at EXCEPT ![r] = "stop_budget"]
    /\ activeId' = IF at'[r] = "released" /\ activeId = r THEN None ELSE activeId
    /\ UNCHANGED <<forwarded, operation, world>>

-----------------------------------------------------------------------------
(* The avatar engine                                                       *)

\* A posted command arrives.  A cancelled id, or a command the avatar cannot carry
\* out, is refused.  Any other one becomes the active command: it replaces a command of
\* its own kind, while one of the other kind is reported interrupted and goes on.
Deliver(r, k) ==
    /\ engine[r][k] = "sent"
    /\ \/ engine' = [engine EXCEPT ![r][k] = "ended"]
       \/ /\ <<r, k>> \notin cancelledIds
          /\ engine' = [q \in Requests |-> [j \in Kinds |->
                          IF q = r /\ j = k THEN "live"
                          ELSE IF j = k /\ engine[q][j] \in Running THEN "ended"
                          ELSE IF engine[q][j] = "live" THEN "adrift"
                          ELSE engine[q][j]]]
    /\ UNCHANGED <<jobs, at, forwarded, activeId, unconfirmed, operation, blocked,
                   cancelledIds>>

\* A posted command never reaches the avatar.
Lose(r, k) ==
    /\ engine[r][k] = "sent"
    /\ engine' = [engine EXCEPT ![r][k] = "lost"]
    /\ UNCHANGED <<jobs, at, forwarded, activeId, unconfirmed, operation, blocked,
                   cancelledIds>>

\* The avatar finishes what it was doing.  The outcome is reported for the active
\* command, also when what finished is a route the active speech set adrift.
EngineEnds(r, k) ==
    /\ engine[r][k] \in Running
    /\ \E fate \in Ended :
          engine' = [q \in Requests |-> [j \in Kinds |->
                       IF q = r /\ j = k
                       THEN IF engine[r][k] = "live" THEN fate ELSE "ended"
                       ELSE IF k = "motion" /\ engine[q][j] = "live" THEN fate
                       ELSE engine[q][j]]]
    /\ UNCHANGED <<jobs, at, forwarded, activeId, unconfirmed, operation, blocked,
                   cancelledIds>>

-----------------------------------------------------------------------------
Step(r) ==
    \/ CheckBudget(r) \/ Observe(r) \/ Dispatched(r) \/ Verify(r)
    \/ Poll(r) \/ KeepaliveTrips(r)
    \/ Report(r) \/ StopReturns(r) \/ Release(r)

Finishing == Drained \/ Restop \/ Admit \/ RestopReturns

Callers ==
    \/ \E r \in Requests : \E call \in Calls[r] : StartEnter(r, call)
    \/ \E r \in Requests : CancelEnter(r)
    \/ Finishing

Next ==
    \/ Callers
    \/ \E r \in Requests :
          \/ Step(r) \/ ForwardCancel(r) \/ PostMotion(r) \/ StopDelivered(r)
          \/ ResourceTrip(r)
    \/ \E r \in Requests, k \in Kinds : Deliver(r, k) \/ Lose(r, k) \/ EngineEnds(r, k)

\* Every await of a job is bounded by a timeout and the event loop runs whatever is
\* ready, so a job's coroutine and the lock holder keep moving; nothing is assumed of
\* the engine, the network, the callers or the resource readings.
Fairness ==
    /\ \A r \in Requests : WF_vars(Step(r))
    /\ WF_vars(Finishing)

Spec == Init /\ [][Next]_vars
FairSpec == Spec /\ Fairness

-----------------------------------------------------------------------------
Operation == [kind : {"none", "start", "cancel"},
              request : Requests \cup {None}, cancelled : Requests \cup {None},
              speak : BOOLEAN, allowMove : BOOLEAN,
              stage : {"none", "cancelling", "drained", "restop"}]

\* Types of the service's fields, the coroutines' locations and the avatar's state.
TypeOK ==
    /\ jobs \in [Requests -> Job]
    /\ at \in [Requests -> Locations]
    /\ forwarded \in [Requests -> BOOLEAN]
    /\ activeId \in Requests \cup {None}
    /\ unconfirmed \in Requests \cup {None}
    /\ operation \in Operation
    /\ blocked \in BOOLEAN
    /\ engine \in [Requests -> [Kinds -> Fates]]
    /\ cancelledIds \in SUBSET (Requests \X Kinds)

\* One job coroutine runs at a time, and it is the owner of the request slot:
\* start() drains its predecessor, including a stop in progress, before it admits.
OneOwner ==
    \A r \in Requests :
        at[r] \notin {"none", "released"} =>
            activeId = r /\ \A q \in Requests \ {r} : at[q] \in {"none", "released"}

\* A motion that is executing, or that was posted and may still start, belongs to the
\* active job or to the unconfirmed stop that blocks the next one, whichever await
\* the cancellation hit and however late the network delivers the POST.
MotionAccountedFor ==
    \A r \in Requests : MayStillRun(r, "motion") => r \in {activeId, unconfirmed}

\* The service implements the ownership discipline: a job holds its motion while it is
\* the active one or its stop is unconfirmed, and lets go of it once, at rest.
Owned == INSTANCE OwnedMotion WITH
    Commands <- Requests,
    owner  <- [r \in Requests |-> IF jobs[r].status = "none" THEN "free"
                                  ELSE IF r \in {activeId, unconfirmed} THEN "held"
                                  ELSE "released"],
    moving <- [r \in Requests |-> MayStillRun(r, "motion")]

\* The job service implements OwnedMotion.
KeepsOwnership == Owned!OwnedSpec

\* A job speaks only after its own motion is over: _safe_stop names the speech before
\* the motion, so a motion behind a speech could no longer be stopped.
SpeechFollowsMotion ==
    \A r \in Requests : jobs[r].speech => ~MayStillRun(r, "motion")

\* No request is admitted while a motion of an earlier one may still move the avatar
\* or while its stop is unconfirmed.
AdmissionIsQuiet ==
    [][\A r \in Requests : jobs[r].status = "none" /\ jobs'[r].status # "none" =>
          /\ unconfirmed = None
          /\ \A q \in Requests : ~MayStillRun(q, "motion")]_vars

\* A job that is left in status arrived completed its motion.
ArrivalIsReal ==
    \A r \in Requests : jobs[r].status = "arrived" => engine[r]["motion"] = "completed"

\* A released job keeps its outcome: a cancel() that still waits for it, a retried stop or
\* a later job does not rewrite how it ended or what became of its speech.
ReleasedIsFinal ==
    [][\A r \in Requests : at[r] = "released" /\ jobs[r].status \in Terminal =>
          jobs'[r].status = jobs[r].status /\ jobs'[r].speechStatus = jobs[r].speechStatus]_vars

\* Every admitted job ends and gives its slot back: stops that nobody confirms do not
\* hang the service.
EveryJobIsReleased ==
    \A r \in Requests : at[r] # "none" ~> at[r] = "released" /\ jobs[r].status \in Terminal

\* start() and cancel() return: neither a draining job nor a stop that is retried keeps
\* the lock for ever.
EveryOperationReturns == []<>(operation = NoOperation)

\* "Cancel its preallocated ID before releasing the job; an unconfirmed stop blocks
\* the next interaction": a speech that may still play belongs to the active job or
\* to the unconfirmed stop.
SpeechAccountedFor ==
    \A r \in Requests : MayStillRun(r, "speech") => r \in {activeId, unconfirmed}

\* The cancel handler reports "cancelled" for a confirmed stop and "failed" for an
\* unconfirmed one.
CancelledMeansStopped ==
    \A r \in Requests : jobs[r].status = "cancelled" => r # unconfirmed

\* "Do not start a second memory-heavy stage after a budget trip": no speech is
\* posted once the budget has tripped.
TripStartsNoSpeech ==
    [][\A r \in Requests : blocked /\ engine[r]["speech"] = "none" =>
          engine'[r]["speech"] = "none"]_vars
=============================================================================
