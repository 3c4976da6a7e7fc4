-------------------------- MODULE VisualJobProofs --------------------------
(***************************************************************************)
(* Proofs about the job service: one coroutine at a time owns the request  *)
(* slot, no motion runs without an owner, nothing is admitted while an     *)
(* earlier motion may move the avatar, and the service implements          *)
(* OwnedMotion.  What concerns motions is proved for the portable path     *)
(* (Portable = TRUE): on the direct one a stop is accepted while the       *)
(* avatar may still walk a route that a speech set adrift.                 *)
(***************************************************************************)
EXTENDS VisualJob, TLAPS

Idle == {"none", "released"}

\* The slot: the active request is the one whose coroutine is not over, a stop left
\* over from an earlier job keeps the next one out, and the lock holder goes on only
\* when the slot is empty.
Slot ==
    /\ \A r \in Requests : at[r] \notin Idle <=> activeId = r
    /\ activeId # None => unconfirmed \in {None, activeId}
    /\ operation.stage \in {"drained", "restop"} => activeId = None

\* A request without a job is untouched, and the one start() will admit stays so.
Untouched ==
    /\ \A r \in Requests : jobs[r].status = "none" <=> at[r] = "none"
    /\ unconfirmed # None => at[unconfirmed] # "none"
    /\ operation.cancelled # None => at[operation.cancelled] # "none"
    /\ operation.kind = "start" =>
          operation.request \in Requests /\ at[operation.request] = "none"
    /\ operation.stage = "drained" => operation.kind = "start"
    /\ operation.kind = "none" => operation.stage = "none"

\* A stop that is under way names a command.
StopsNamed ==
    \A r \in Requests : jobs[r].stopConfirmed = "no" => jobs[r].stopFor # None

SlotInv == TypeOK /\ Slot /\ Untouched /\ StopsNamed

\* What is known of a job's motion from where the job is and what it records.
MotionOf(r) ==
    /\ at[r] \in {"none", "check", "observe"} \/ ~jobs[r].command =>
          engine[r]["motion"] = "none"
    /\ at[r] \in {"check", "observe"} => ~jobs[r].command
    /\ at[r] \in {"dispatch", "move"} => jobs[r].command
    /\ at[r] \in {"check", "observe", "dispatch", "move"} =>
          ~jobs[r].rejected /\ ~jobs[r].speech /\ jobs[r].stopConfirmed = "unset"
    /\ jobs[r].retired => engine[r]["motion"] \in Ended
    /\ at[r] = "verify" \/ jobs[r].status = "arrived" => engine[r]["motion"] = "completed"
    /\ jobs[r].stopFor = "speech" => jobs[r].speech
    /\ at[r] = "stop_error" => jobs[r].stopConfirmed # "unset"

\* The motion is over once the job speaks, was refused or confirmed a stop; before
\* that somebody waits for it or its stop is unconfirmed.
CoveredOf(r) ==
    MayStillRun(r, "motion") =>
        /\ ~jobs[r].speech /\ ~jobs[r].rejected /\ jobs[r].stopConfirmed # "yes"
        /\ at[r] \in {"dispatch", "move"} \/ unconfirmed = r

Motions == \A r \in Requests : MotionOf(r)
Covered == Portable => \A r \in Requests : CoveredOf(r)

IInv == SlotInv /\ Motions /\ Covered

-----------------------------------------------------------------------------
(* Types                                                                   *)

\* The updates of a job and of the operation that the actions make.
LEMMA JobUpdates ==
    ASSUME NEW job \in Job
    PROVE  /\ \A status \in Terminal \cup {"moving"} :
                 [job EXCEPT !.status = status] \in Job
           /\ [job EXCEPT !.status = "failed", !.speak = FALSE] \in Job
           /\ [job EXCEPT !.command = TRUE] \in Job
           /\ \A b \in BOOLEAN : /\ [job EXCEPT !.rejected = b] \in Job
                                 /\ [job EXCEPT !.retired = b] \in Job
           /\ \A said \in {"completed", "failed", "cancelled", "stop_unconfirmed"} :
                 [job EXCEPT !.speechStatus = said] \in Job
           /\ [job EXCEPT !.stopConfirmed = "yes"] \in Job
  BY DEF Job, Terminal

LEMMA StageUpdates ==
    ASSUME NEW op \in Operation, NEW stage \in {"none", "cancelling", "drained", "restop"}
    PROVE  [op EXCEPT !.stage = stage] \in Operation
  BY DEF Operation

LEMMA StopBegunType ==
    ASSUME NEW job \in Job
    PROVE  StopBegun(job) \in Job
<1>1. OwnedKind(job) \in Kinds \cup {None}
  BY DEF OwnedKind, Kinds
<1>2. ASSUME NEW k \in Kinds \cup {None}, NEW confirmed \in {"yes", "no"}
      PROVE  [job EXCEPT !.stopFor = k, !.stopConfirmed = confirmed] \in Job
  BY DEF Job
<1> QED BY <1>1, <1>2 DEF StopBegun

LEMMA UnconfirmedType ==
    ASSUME TypeOK, NEW r \in Requests, NEW job \in Job
    PROVE  UnconfirmedAfter(r, job) \in Requests \cup {None}
  BY DEF TypeOK, UnconfirmedAfter

LEMMA InterruptedType ==
    ASSUME TypeOK, NEW r \in Requests, Interrupted(r)
    PROVE  /\ jobs' \in [Requests -> Job] /\ at' \in [Requests -> Locations]
           /\ unconfirmed' \in Requests \cup {None}
<1>1. StopBegun(jobs[r]) \in Job /\ UnconfirmedAfter(r, jobs[r]) \in Requests \cup {None}
  BY StopBegunType, UnconfirmedType DEF TypeOK
<1> QED BY <1>1 DEF Interrupted, TypeOK, Locations, Outside

LEMMA FinishType ==
    ASSUME TypeOK, NEW r \in Requests, NEW job \in Job, NEW status \in Terminal,
           NEW speaking \in Locations, NEW silent \in Locations,
           Finish(r, job, status, speaking, silent)
    PROVE  /\ jobs' \in [Requests -> Job] /\ at' \in [Requests -> Locations]
           /\ engine' \in [Requests -> [Kinds -> Fates]]
           /\ cancelledIds' \in SUBSET (Requests \X Kinds)
<1>1. /\ [job EXCEPT !.status = status] \in Job
      /\ [job EXCEPT !.status = status, !.speech = TRUE, !.speechStatus = "pending"] \in Job
  BY DEF Job
<1> QED BY <1>1 DEF Finish, TypeOK, world, Kinds, Fates

LEMMA FailType ==
    ASSUME TypeOK, NEW r \in Requests, NEW job \in Job, NEW mute \in BOOLEAN,
           Fail(r, job, mute)
    PROVE  /\ jobs' \in [Requests -> Job] /\ at' \in [Requests -> Locations]
           /\ unconfirmed' \in Requests \cup {None}
           /\ engine' \in [Requests -> [Kinds -> Fates]]
           /\ cancelledIds' \in SUBSET (Requests \X Kinds)
<1> DEFINE muted == [job EXCEPT !.speak = @ /\ ~mute]
<1>1. muted \in Job
  BY DEF Job
<1>2. StopBegun(muted) \in Job /\ UnconfirmedAfter(r, muted) \in Requests \cup {None}
  BY <1>1, StopBegunType, UnconfirmedType
<1>3. CASE StopIsTrivial(muted)
  <2>1. Finish(r, StopBegun(muted), "failed", "report_error", "ended")
    BY <1>3 DEF Fail, FinishError
  <2>2. unconfirmed' = UnconfirmedAfter(r, muted)
    BY <1>3 DEF Fail
  <2> QED BY <1>2, <2>1, <2>2, FinishType
          DEF Terminal, Locations, InHandler, Outside
<1>4. CASE ~StopIsTrivial(muted)
  BY <1>2, <1>4 DEF Fail, TypeOK, Locations, InHandler, world
<1> QED BY <1>3, <1>4

LEMMA AfterStopType ==
    ASSUME TypeOK, NEW r \in Requests, NEW job \in Job, at[r] \in Stopping,
           AfterStop(r, job)
    PROVE  /\ jobs' \in [Requests -> Job] /\ at' \in [Requests -> Locations]
           /\ engine' \in [Requests -> [Kinds -> Fates]]
           /\ cancelledIds' \in SUBSET (Requests \X Kinds)
<1> DEFINE over == IF job.stopConfirmed = "no" THEN "stop_unconfirmed" ELSE "cancelled"
           hushed == [job EXCEPT !.speechStatus = IF @ = "pending" THEN over ELSE @]
           last == IF hushed.status \in Terminal THEN hushed.status
                   ELSE IF job.stopConfirmed = "no" THEN "failed" ELSE "cancelled"
<1>1. hushed \in Job
  BY DEF Job
<1>2. last \in Terminal
  BY DEF Terminal
<1>3. [hushed EXCEPT !.status = last] \in Job
  BY <1>1, <1>2, JobUpdates
<1>4. CASE at[r] = "stop_error"
  BY <1>4, FinishType
     DEF AfterStop, FinishError, Terminal, Locations, InHandler, Outside
<1>5. CASE at[r] \in {"stop_report", "stop_report_error"}
  BY <1>5 DEF AfterStop, TypeOK, Locations, Outside, world
<1>6. CASE at[r] = "stop_cancel"
  BY <1>3, <1>6 DEF AfterStop, TypeOK, Locations, Outside, world
<1>7. CASE at[r] = "stop_budget"
  BY <1>1, <1>7 DEF AfterStop, TypeOK, Locations, Outside, world
<1> QED BY <1>4, <1>5, <1>6, <1>7 DEF Stopping

LEMMA StopReturnsType ==
    ASSUME TypeOK, NEW r \in Requests, StopReturns(r)
    PROVE  TypeOK'
<1> DEFINE confirmed == [jobs[r] EXCEPT !.stopConfirmed = IF @ = "no" THEN "yes" ELSE @]
<1>1. jobs[r] \in Job /\ confirmed \in Job
  <2>1. jobs[r] \in Job
    BY DEF TypeOK
  <2>2. CASE jobs[r].stopConfirmed = "no"
    BY <2>1, <2>2, JobUpdates
  <2>3. CASE jobs[r].stopConfirmed # "no"
    BY <2>1, <2>3 DEF Job
  <2> QED BY <2>1, <2>2, <2>3
<1>2. AfterStop(r, confirmed) \/ AfterStop(r, jobs[r])
  BY DEF StopReturns
<1>3. at[r] \in Stopping
  BY DEF StopReturns
<1> HIDE DEF confirmed
<1>4. /\ jobs' \in [Requests -> Job] /\ at' \in [Requests -> Locations]
      /\ engine' \in [Requests -> [Kinds -> Fates]]
      /\ cancelledIds' \in SUBSET (Requests \X Kinds)
  BY <1>1, <1>2, <1>3, AfterStopType
<1> QED BY <1>4 DEF StopReturns, TypeOK

LEMMA ReleaseType ==
    ASSUME TypeOK, NEW r \in Requests, Release(r)
    PROVE  TypeOK'
<1> DEFINE failed == [jobs[r] EXCEPT !.status = "failed", !.speak = FALSE]
           hushed == [failed EXCEPT !.speechStatus = IF @ = "pending" THEN "cancelled" ELSE @]
<1>1. failed \in Job
  BY JobUpdates DEF TypeOK
<1>2. hushed \in Job
  BY <1>1 DEF Job
<1>3. StopBegun(failed) \in Job /\ UnconfirmedAfter(r, failed) \in Requests \cup {None}
  BY <1>1, StopBegunType, UnconfirmedType
<1> QED BY <1>2, <1>3 DEF Release, TypeOK, world, Locations, Outside

LEMMA VisualTypeInit == Init => TypeOK
<1> SUFFICES ASSUME Init PROVE TypeOK
  OBVIOUS
<1>1. NoJob \in Job /\ NoOperation \in Operation
  BY DEF NoJob, Job, NoOperation, Operation
<1> QED BY <1>1 DEF Init, TypeOK, Locations, Outside, Fates

LEMMA VisualTypeStep == TypeOK /\ StopsNamed /\ [Next]_vars => TypeOK'
<1> SUFFICES ASSUME TypeOK, StopsNamed, [Next]_vars PROVE TypeOK'
  OBVIOUS
<1>1. ASSUME NEW r \in Requests, NEW call \in Calls[r], StartEnter(r, call)
      PROVE  TypeOK'
  <2>1. call \in [speak : BOOLEAN, allowMove : BOOLEAN, onlyIfIdle : BOOLEAN]
    BY VisualJobAssumption
  <2>2. operation' \in Operation
    BY <1>1, <2>1 DEF StartEnter, TypeOK, Operation
  <2> QED BY <1>1, <2>2 DEF StartEnter, TypeOK, world
<1>2. ASSUME NEW r \in Requests, CancelEnter(r) PROVE TypeOK'
  <2>1. StopBegun(jobs[r]) \in Job /\ UnconfirmedAfter(r, jobs[r]) \in Requests \cup {None}
    BY StopBegunType, UnconfirmedType DEF TypeOK
  <2>2. operation' \in Operation
    BY <1>2 DEF CancelEnter, TypeOK, Operation, NoOperation
  <2> QED BY <1>2, <2>1, <2>2 DEF CancelEnter, TypeOK, world
<1>3. CASE Drained
  <2>1. \A r \in Requests : [jobs[r] EXCEPT !.status = "cancelled"] \in Job
    BY JobUpdates DEF TypeOK, Terminal
  <2>2. operation' \in Operation
    BY <1>3 DEF Drained, TypeOK, Operation, NoOperation
  <2> QED BY <1>3, <2>1, <2>2 DEF Drained, TypeOK, world
<1>4. CASE Restop
  <2>1. unconfirmed \in Requests
    BY <1>4 DEF Restop, TypeOK
  <2>2. /\ StopBegun(jobs[unconfirmed]) \in Job
        /\ UnconfirmedAfter(unconfirmed, jobs[unconfirmed]) \in Requests \cup {None}
    BY <2>1, StopBegunType, UnconfirmedType DEF TypeOK
  <2>3. operation' \in Operation
    BY <1>4 DEF Restop, TypeOK, Operation
  <2> QED BY <1>4, <2>2, <2>3 DEF Restop, TypeOK, world
<1>5. CASE Admit
  <2>1. [NoJob EXCEPT !.status = "observing", !.speak = operation.speak,
                      !.allowMove = operation.allowMove] \in Job
    BY DEF NoJob, Job, TypeOK, Operation
  <2>2. NoOperation \in Operation /\ operation.request \in Requests \cup {None}
    BY DEF NoOperation, Operation, TypeOK
  <2> QED BY <1>5, <2>1, <2>2
          DEF Admit, Register, TypeOK, world, Locations, Outside, InTry
<1>6. CASE RestopReturns
  <2>1. \A r \in Requests : [jobs[r] EXCEPT !.stopConfirmed = "yes"] \in Job
    BY JobUpdates DEF TypeOK
  <2>2. NoOperation \in Operation /\ [operation EXCEPT !.stage = "drained"] \in Operation
    BY StageUpdates DEF TypeOK, Operation, NoOperation
  <2>3. operation' \in Operation
    BY <1>6, <2>2 DEF RestopReturns
  <2>4. jobs' \in [Requests -> Job] /\ unconfirmed' \in Requests \cup {None}
    BY <1>6, <2>1 DEF RestopReturns, TypeOK
  <2> QED BY <1>6, <2>3, <2>4 DEF RestopReturns, TypeOK, world
<1>7. ASSUME NEW r \in Requests, Step(r) PROVE TypeOK'
  <2>1. CASE CheckBudget(r)
    <3>1. [jobs[r] EXCEPT !.status = "failed", !.speak = FALSE] \in Job
      BY JobUpdates DEF TypeOK
    <3> QED BY <2>1, <3>1 DEF CheckBudget, TypeOK, world, Locations, InTry, Outside
  <2>2. CASE Observe(r)
    <3>1. CASE ObservationEnds(r)
      BY <2>2, <3>1, FinishType
         DEF Observe, ObservationEnds, TypeOK, Terminal, Locations, InTry, Outside
    <3>2. CASE MotionPlanned(r)
      <4>1. [jobs[r] EXCEPT !.command = TRUE] \in Job
        BY JobUpdates DEF TypeOK
      <4> QED BY <2>2, <3>2, <4>1
              DEF Observe, MotionPlanned, TypeOK, world, Locations, InTry
    <3>3. CASE ObservationFails(r)
      BY <2>2, <3>3, FailType DEF Observe, ObservationFails, TypeOK
    <3> QED BY <2>2, <3>1, <3>2, <3>3 DEF Observe
  <2>3. CASE Dispatched(r)
    <3>1. /\ [jobs[r] EXCEPT !.status = "moving"] \in Job
          /\ [jobs[r] EXCEPT !.rejected = Portable] \in Job
      BY VisualJobAssumption, JobUpdates DEF TypeOK
    <3> QED BY <2>3, <3>1, FailType DEF Dispatched, TypeOK, world, Locations, InTry
  <2>4. CASE Verify(r)
    BY <2>4, FinishType, FailType
       DEF Verify, ArrivalConfirmed, ArrivalRefuted, TypeOK, Terminal, Locations, InTry, Outside
  <2>5. CASE Poll(r) \/ KeepaliveTrips(r)
    <3>1. [jobs[r] EXCEPT !.retired = Portable] \in Job
      BY VisualJobAssumption, JobUpdates DEF TypeOK
    <3> QED BY <2>5, <3>1, FailType
            DEF Poll, KeepaliveTrips, TypeOK, world, Locations, InTry
  <2>6. CASE Report(r)
    <3>1. /\ [jobs[r] EXCEPT !.speechStatus = "completed"] \in Job
          /\ [jobs[r] EXCEPT !.speechStatus = "failed"] \in Job
          /\ [StopBegun(jobs[r]) EXCEPT !.speechStatus = "failed"] \in Job
      BY StopBegunType, JobUpdates DEF TypeOK
    <3> QED BY <2>6, <3>1, FailType
            DEF Report, TypeOK, world, Locations, InTry, InHandler, Outside
  <2>7. CASE StopReturns(r)
    BY <2>7, StopReturnsType
  <2>8. CASE Release(r)
    BY <2>8, ReleaseType
  <2> QED BY <1>7, <2>1, <2>2, <2>3, <2>4, <2>5, <2>6, <2>7, <2>8 DEF Step
<1>8. ASSUME NEW r \in Requests,
             ForwardCancel(r) \/ ResourceTrip(r) \/ PostMotion(r) \/ StopDelivered(r)
      PROVE  TypeOK'
  <2>1. CASE ForwardCancel(r) \/ ResourceTrip(r)
    BY <2>1, InterruptedType DEF ForwardCancel, ResourceTrip, TypeOK, world
  <2>2. CASE PostMotion(r)
    BY <2>2 DEF PostMotion, TypeOK, Kinds, Fates
  <2>3. CASE StopDelivered(r)
    <3>1. jobs[r].stopFor \in Kinds
      BY <2>3 DEF TypeOK, Job, StopsNamed, StopDelivered
    <3> QED BY <2>3, <3>1 DEF StopDelivered, TypeOK, Kinds, Fates, Running, StopUnderWay
  <2> QED BY <1>8, <2>1, <2>2, <2>3
<1>9. ASSUME NEW r \in Requests, NEW k \in Kinds,
             Deliver(r, k) \/ Lose(r, k) \/ EngineEnds(r, k)
      PROVE  TypeOK'
  BY <1>9 DEF Deliver, Lose, EngineEnds, TypeOK, Kinds, Fates, Ended, Running
<1>10. CASE UNCHANGED vars
  BY <1>10 DEF vars, TypeOK
<1> QED BY <1>1, <1>2, <1>3, <1>4, <1>5, <1>6, <1>7, <1>8, <1>9, <1>10
        DEF Next, Callers, Finishing

-----------------------------------------------------------------------------
(* The steps of a coroutine                                                *)

\* No command of kind motion is posted, ended or cancelled.
MotionsKept ==
    \A q \in Requests :
        /\ engine'[q]["motion"] = engine[q]["motion"]
        /\ <<q, "motion">> \in cancelledIds' <=> <<q, "motion">> \in cancelledIds

\* What every step of the coroutine of r has in common, and every cancellation of it.
Moves(r) ==
    /\ at[r] \notin Idle /\ at'[r] # "none"
    /\ \A q \in Requests \ {r} : jobs'[q] = jobs[q] /\ at'[q] = at[q]
    /\ jobs'[r].status # "none"
    /\ jobs'[r].stopConfirmed = "no" => jobs'[r].stopFor # None
    /\ activeId' = IF at'[r] = "released" THEN None ELSE activeId
    /\ unconfirmed' \in {unconfirmed, None, r}
    /\ operation' = operation
    /\ MotionsKept

\* Beginning a stop touches nothing but what is known of the stop.
LEMMA StopBegunFields ==
    ASSUME NEW job \in Job
    PROVE  LET begun == StopBegun(job)
           IN /\ begun.status = job.status /\ begun.speak = job.speak
              /\ begun.command = job.command /\ begun.rejected = job.rejected
              /\ begun.retired = job.retired /\ begun.speech = job.speech
              /\ begun.speechStatus = job.speechStatus
              /\ IF OwnedKind(job) = None
                 THEN /\ begun.stopFor = job.stopFor
                      /\ begun.stopConfirmed = job.stopConfirmed
                 ELSE /\ begun.stopFor = OwnedKind(job)
                      /\ begun.stopConfirmed = IF StopIsTrivial(job) THEN "yes" ELSE "no"
  BY DEF StopBegun, Job

\* Ending a job keeps what it owns, and a job speaks only without an open stop.
LEMMA FinishFields ==
    ASSUME TypeOK, NEW r \in Requests, NEW job \in Job, NEW status \in Terminal,
           NEW speaking, NEW silent, Finish(r, job, status, speaking, silent)
    PROVE  /\ \A q \in Requests \ {r} : jobs'[q] = jobs[q] /\ at'[q] = at[q]
           /\ jobs'[r].status = status
           /\ jobs'[r].command = job.command /\ jobs'[r].rejected = job.rejected
           /\ jobs'[r].retired = job.retired
           /\ jobs'[r].stopFor = job.stopFor
           /\ jobs'[r].stopConfirmed = job.stopConfirmed
           /\ \/ jobs'[r].speech = job.speech /\ at'[r] = silent
              \/ jobs'[r].speech /\ job.stopConfirmed # "no" /\ at'[r] = speaking
           /\ MotionsKept
<1>1. CASE job.speak /\ job.stopConfirmed # "no"
  <2>1. /\ jobs' = [jobs EXCEPT ![r] = [job EXCEPT !.status = status, !.speech = TRUE,
                                                   !.speechStatus = "pending"]]
        /\ engine' = [engine EXCEPT ![r]["speech"] = "sent"]
        /\ cancelledIds' = cancelledIds \ {<<r, "speech">>}
        /\ at' = [at EXCEPT ![r] = speaking]
    BY <1>1 DEF Finish
  <2>2. MotionsKept
    BY <2>1 DEF MotionsKept, TypeOK, Kinds
  <2> QED BY <1>1, <2>1, <2>2 DEF TypeOK, Job
<1>2. CASE ~(job.speak /\ job.stopConfirmed # "no")
  <2>1. /\ jobs' = [jobs EXCEPT ![r] = [job EXCEPT !.status = status]]
        /\ at' = [at EXCEPT ![r] = silent]
        /\ engine' = engine /\ cancelledIds' = cancelledIds
    BY <1>2 DEF Finish, world
  <2>2. MotionsKept
    BY <2>1 DEF MotionsKept
  <2> QED BY <2>1, <2>2 DEF TypeOK, Job
<1> QED BY <1>1, <1>2

\* A failure stops what the job owns and then reports, or reports at once when nothing
\* is to be stopped.
LEMMA FailFields ==
    ASSUME TypeOK, NEW r \in Requests, NEW job \in Job, NEW mute \in BOOLEAN,
           Fail(r, job, mute)
    PROVE  /\ \A q \in Requests \ {r} : jobs'[q] = jobs[q] /\ at'[q] = at[q]
           /\ jobs'[r].status \in {job.status, "failed"}
           /\ jobs'[r].command = job.command /\ jobs'[r].rejected = job.rejected
           /\ jobs'[r].retired = job.retired
           /\ IF StopIsTrivial(job)
              THEN /\ at'[r] \in {"report_error", "ended"}
                   /\ IF OwnedKind(job) = None
                      THEN /\ unconfirmed' = unconfirmed
                           /\ jobs'[r].stopFor = job.stopFor
                           /\ jobs'[r].stopConfirmed = job.stopConfirmed
                      ELSE /\ unconfirmed' = None
                           /\ jobs'[r].stopFor = OwnedKind(job)
                           /\ jobs'[r].stopConfirmed = "yes"
                   /\ \/ jobs'[r].speech = job.speech /\ at'[r] = "ended"
                      \/ jobs'[r].speech /\ at'[r] = "report_error"
              ELSE /\ at'[r] = "stop_error" /\ unconfirmed' = r
                   /\ jobs'[r].speech = job.speech
                   /\ jobs'[r].stopFor = OwnedKind(job)
                   /\ jobs'[r].stopConfirmed = "no"
           /\ MotionsKept
<1> DEFINE muted == [job EXCEPT !.speak = @ /\ ~mute]
<1>1. /\ muted \in Job /\ muted.status = job.status
      /\ muted.command = job.command /\ muted.rejected = job.rejected
      /\ muted.retired = job.retired /\ muted.speech = job.speech
      /\ muted.stopFor = job.stopFor /\ muted.stopConfirmed = job.stopConfirmed
  BY DEF Job
<1>2. OwnedKind(muted) = OwnedKind(job) /\ (StopIsTrivial(muted) <=> StopIsTrivial(job))
  BY <1>1 DEF OwnedKind, StopIsTrivial
<1>3. StopBegun(muted) \in Job
  BY <1>1, StopBegunType
<1>4. CASE StopIsTrivial(muted)
  <2>1. /\ Finish(r, StopBegun(muted), "failed", "report_error", "ended")
        /\ unconfirmed' = UnconfirmedAfter(r, muted)
    BY <1>4 DEF Fail, FinishError
  <2> HIDE DEF muted
  <2>2. unconfirmed' = IF OwnedKind(job) = None THEN unconfirmed ELSE None
    BY <1>2, <1>4, <2>1 DEF UnconfirmedAfter
  <2>3. "failed" \in Terminal
    BY DEF Terminal
  <2> QED BY <1>1, <1>2, <1>3, <1>4, <2>1, <2>2, <2>3, FinishFields, StopBegunFields
<1>5. CASE ~StopIsTrivial(muted)
  <2>1. /\ unconfirmed' = r
        /\ jobs' = [jobs EXCEPT ![r] = StopBegun(muted)]
        /\ at' = [at EXCEPT ![r] = "stop_error"]
        /\ engine' = engine /\ cancelledIds' = cancelledIds
    BY <1>5 DEF Fail, world
  <2> HIDE DEF muted
  <2>2. OwnedKind(job) # None
    BY <1>2, <1>5 DEF StopIsTrivial
  <2>3. jobs'[r] = StopBegun(muted) /\ at'[r] = "stop_error"
    BY <2>1 DEF TypeOK
  <2>4. MotionsKept
    BY <2>1 DEF MotionsKept
  <2> QED BY <1>1, <1>2, <1>5, <2>1, <2>2, <2>3, <2>4, StopBegunFields DEF TypeOK
<1> QED BY <1>4, <1>5

\* A stop that returns keeps what the job owns; only the failing job goes on to speak,
\* and only when no stop is open.
LEMMA AfterStopFields ==
    ASSUME TypeOK, NEW r \in Requests, NEW job \in Job, at[r] \in Stopping,
           AfterStop(r, job)
    PROVE  /\ \A q \in Requests \ {r} : jobs'[q] = jobs[q] /\ at'[q] = at[q]
           /\ jobs'[r].status \in {job.status, "failed", "cancelled"}
           /\ jobs'[r].command = job.command /\ jobs'[r].rejected = job.rejected
           /\ jobs'[r].retired = job.retired
           /\ jobs'[r].stopFor = job.stopFor
           /\ jobs'[r].stopConfirmed = job.stopConfirmed
           /\ \/ /\ jobs'[r].speech = job.speech
                 /\ at'[r] \in {"ended", "ended_cancelled", "released"}
              \/ /\ at[r] = "stop_error" /\ job.stopConfirmed # "no"
                 /\ jobs'[r].speech /\ at'[r] = "report_error"
           /\ MotionsKept
<1> DEFINE over == IF job.stopConfirmed = "no" THEN "stop_unconfirmed" ELSE "cancelled"
           hushed == [job EXCEPT !.speechStatus = IF @ = "pending" THEN over ELSE @]
           last == IF hushed.status \in Terminal THEN hushed.status
                   ELSE IF job.stopConfirmed = "no" THEN "failed" ELSE "cancelled"
<1>1. /\ hushed.status = job.status /\ hushed.command = job.command
      /\ hushed.rejected = job.rejected /\ hushed.retired = job.retired
      /\ hushed.speech = job.speech /\ hushed.stopFor = job.stopFor
      /\ hushed.stopConfirmed = job.stopConfirmed /\ hushed \in Job
  BY DEF Job
<1>2. CASE at[r] = "stop_error"
  <2>1. Finish(r, job, "failed", "report_error", "ended") /\ "failed" \in Terminal
    BY <1>2 DEF AfterStop, FinishError, Terminal
  <2> QED BY <1>2, <2>1, FinishFields
<1>3. ASSUME UNCHANGED world PROVE MotionsKept
  BY <1>3 DEF world, MotionsKept
<1>4. CASE at[r] \in {"stop_report", "stop_report_error"}
  BY <1>3, <1>4 DEF AfterStop, TypeOK
<1>5. CASE at[r] = "stop_cancel"
  <2>1. /\ jobs' = [jobs EXCEPT ![r] = [hushed EXCEPT !.status = last]]
        /\ at' = [at EXCEPT ![r] = "ended_cancelled"] /\ UNCHANGED world
    BY <1>5 DEF AfterStop
  <2>2. last \in {job.status, "failed", "cancelled"}
    BY <1>1
  <2> HIDE DEF hushed, last
  <2> QED BY <1>1, <1>3, <2>1, <2>2 DEF TypeOK, Job
<1>6. CASE at[r] = "stop_budget"
  <2>1. /\ jobs' = [jobs EXCEPT ![r] = hushed]
        /\ at' = [at EXCEPT ![r] = "released"] /\ UNCHANGED world
    BY <1>6 DEF AfterStop
  <2> HIDE DEF hushed
  <2> QED BY <1>1, <1>3, <2>1 DEF TypeOK
<1> QED BY <1>2, <1>4, <1>5, <1>6 DEF Stopping

\* A cancelled coroutine stops what it owns, or leaves an except clause at once.
LEMMA InterruptedFields ==
    ASSUME TypeOK, NEW r \in Requests, Interrupted(r)
    PROVE  /\ \A q \in Requests \ {r} : jobs'[q] = jobs[q] /\ at'[q] = at[q]
           /\ jobs'[r].status = jobs[r].status
           /\ jobs'[r].command = jobs[r].command /\ jobs'[r].rejected = jobs[r].rejected
           /\ jobs'[r].retired = jobs[r].retired /\ jobs'[r].speech = jobs[r].speech
           /\ IF at[r] \in InTry /\ OwnedKind(jobs[r]) # None
              THEN /\ jobs'[r].stopFor = OwnedKind(jobs[r])
                   /\ IF StopIsTrivial(jobs[r])
                      THEN unconfirmed' = None /\ jobs'[r].stopConfirmed = "yes"
                      ELSE unconfirmed' = r /\ jobs'[r].stopConfirmed = "no"
              ELSE /\ jobs'[r].stopFor = jobs[r].stopFor
                   /\ jobs'[r].stopConfirmed = jobs[r].stopConfirmed
                   /\ unconfirmed' = unconfirmed
           /\ at'[r] = IF at[r] \in InTry THEN "stop_cancel" ELSE "ended_cancelled"
<1>1. jobs[r] \in Job
  BY DEF TypeOK
<1>2. CASE at[r] \in InTry
  <2>1. /\ jobs' = [jobs EXCEPT ![r] = StopBegun(jobs[r])]
        /\ unconfirmed' = UnconfirmedAfter(r, jobs[r])
        /\ at' = [at EXCEPT ![r] = "stop_cancel"]
    BY <1>2 DEF Interrupted
  <2>2. jobs'[r] = StopBegun(jobs[r]) /\ at'[r] = "stop_cancel"
    BY <2>1 DEF TypeOK
  <2> QED BY <1>1, <1>2, <2>1, <2>2, StopBegunFields DEF UnconfirmedAfter, TypeOK
<1>3. CASE at[r] \notin InTry
  BY <1>3 DEF Interrupted, TypeOK
<1> QED BY <1>2, <1>3

LEMMA KeptRuns ==
    ASSUME MotionsKept, NEW q \in Requests
    PROVE  MayStillRun(q, "motion")' <=> MayStillRun(q, "motion")
  BY DEF MotionsKept, MayStillRun

\* What a step of job r must establish.
Carried(r) == Moves(r) /\ MotionOf(r)' /\ (Portable => CoveredOf(r)')

\* A failure is covered: either nothing of the job may run, or its stop is open.
LEMMA FailCarries ==
    ASSUME IInv, NEW r \in Requests, NEW job \in Job, NEW mute \in BOOLEAN,
           Fail(r, job, mute),
           at[r] \notin Idle, jobs[r].status # "none", job.status # "none",
           job.status = "arrived" => engine[r]["motion"] = "completed",
           ~job.command => engine[r]["motion"] = "none",
           job.retired => engine[r]["motion"] \in Ended,
           job.stopFor = "speech" => job.speech,
           job.stopConfirmed = "no" => job.stopFor # None,
           Portable /\ MayStillRun(r, "motion") => ~job.speech /\ ~job.rejected,
           Portable /\ MayStillRun(r, "motion") =>
                job.stopConfirmed # "yes" /\ (at[r] \in {"dispatch", "move"} \/ unconfirmed = r),
           UNCHANGED <<activeId, operation>>
    PROVE  Carried(r)
<1>1. TypeOK /\ r # None
  BY VisualJobAssumption DEF IInv, SlotInv
<1>2. Moves(r)
  <2>1. jobs'[r].stopConfirmed = "no" => jobs'[r].stopFor # None
    BY <1>1, FailFields DEF StopIsTrivial
  <2>2. /\ at'[r] \in {"report_error", "ended", "stop_error"}
        /\ MotionsKept
        /\ unconfirmed' \in {unconfirmed, None, r}
        /\ \A q \in Requests \ {r} : jobs'[q] = jobs[q] /\ at'[q] = at[q]
        /\ jobs'[r].status \in {job.status, "failed"}
    BY <1>1, FailFields
  <2> QED BY <2>1, <2>2 DEF Moves
<1>3. engine'[r]["motion"] = engine[r]["motion"]
  BY <1>2 DEF Moves, MotionsKept
<1>4. MotionOf(r)'
  <2>1. at'[r] \in {"report_error", "ended", "stop_error"}
    BY <1>1, FailFields
  <2>2. /\ jobs'[r].status \in {job.status, "failed"}
        /\ jobs'[r].command = job.command /\ jobs'[r].retired = job.retired
    BY <1>1, FailFields
  <2>3. jobs'[r].stopFor = "speech" => jobs'[r].speech
    BY <1>1, FailFields, VisualJobAssumption DEF OwnedKind
  <2>4. at'[r] = "stop_error" => jobs'[r].stopConfirmed # "unset"
    BY <1>1, FailFields
  <2> QED BY <1>3, <2>1, <2>2, <2>3, <2>4 DEF MotionOf
<1>5. ASSUME Portable, MayStillRun(r, "motion")'
      PROVE  /\ ~jobs'[r].speech /\ ~jobs'[r].rejected /\ jobs'[r].stopConfirmed # "yes"
             /\ unconfirmed' = r
  <2>1. MayStillRun(r, "motion")
    BY <1>2, <1>5, KeptRuns DEF Moves
  <2>2. job.command /\ ~job.speech /\ ~job.rejected
    BY <1>5, <2>1 DEF MayStillRun, Running
  <2>3. OwnedKind(job) = "motion" /\ ~StopIsTrivial(job)
    BY <2>2, VisualJobAssumption DEF OwnedKind, StopIsTrivial
  <2> QED BY <1>1, <2>2, <2>3, FailFields
<1> QED BY <1>2, <1>4, <1>5 DEF Carried, CoveredOf

\* Every operation of a job's coroutine carries the invariant for that job.
LEMMA CheckBudgetCarries ==
    ASSUME IInv, NEW r \in Requests, CheckBudget(r)
    PROVE  Carried(r)
<1>1. TypeOK /\ Slot /\ Untouched /\ StopsNamed /\ MotionOf(r)
  BY DEF IInv, SlotInv, Motions
<1>2. /\ engine' = engine /\ cancelledIds' = cancelledIds /\ at[r] = "check"
      /\ operation' = operation /\ unconfirmed' = unconfirmed
      /\ at'[r] \in {"observe", "released"}
      /\ \A q \in Requests \ {r} : jobs'[q] = jobs[q] /\ at'[q] = at[q]
      /\ activeId' = IF at'[r] = "released" THEN None ELSE activeId
  BY <1>1 DEF CheckBudget, TypeOK, world
<1>3. /\ jobs'[r].status \in {jobs[r].status, "failed"}
      /\ jobs'[r].command = jobs[r].command /\ jobs'[r].speech = jobs[r].speech
      /\ jobs'[r].retired = jobs[r].retired /\ jobs'[r].rejected = jobs[r].rejected
      /\ jobs'[r].stopFor = jobs[r].stopFor
      /\ jobs'[r].stopConfirmed = jobs[r].stopConfirmed
  <2>1. jobs[r] \in Job
    BY <1>1 DEF TypeOK
  <2>2. CASE jobs' = jobs
    BY <2>2
  <2>3. CASE jobs' = [jobs EXCEPT ![r] =
                        [jobs[r] EXCEPT !.status = "failed", !.speak = FALSE]]
    <3>1. jobs'[r] = [jobs[r] EXCEPT !.status = "failed", !.speak = FALSE]
      BY <1>1, <2>3 DEF TypeOK
    <3> QED BY <2>1, <3>1 DEF Job
  <2> QED BY <2>2, <2>3 DEF CheckBudget
<1>4. MotionsKept
  BY <1>2 DEF MotionsKept
<1>5. jobs[r].status # "none"
  BY <1>1, <1>2 DEF Untouched
<1>6. Moves(r)
  BY <1>1, <1>2, <1>3, <1>4, <1>5 DEF Moves, Idle, StopsNamed
<1>7. engine[r]["motion"] = "none" /\ engine'[r]["motion"] = "none"
      /\ ~jobs[r].command /\ ~jobs[r].speech
  BY <1>1, <1>2 DEF MotionOf
<1>8. MotionOf(r)'
  BY <1>1, <1>2, <1>3, <1>7 DEF MotionOf
<1>9. ~MayStillRun(r, "motion")'
  BY <1>7 DEF MayStillRun, Running
<1> QED BY <1>6, <1>8, <1>9 DEF Carried, CoveredOf

\* A job that ends keeps its motion covered.
LEMMA FinishCarries ==
    ASSUME IInv, NEW r \in Requests, NEW status \in Terminal,
           Finish(r, jobs[r], status, "report", "ended"),
           at[r] \in {"observe", "verify"},
           status = "arrived" => at[r] = "verify",
           UNCHANGED <<unconfirmed, activeId, operation>>
    PROVE  Carried(r)
<1>1. TypeOK /\ StopsNamed /\ MotionOf(r) /\ jobs[r] \in Job
  BY DEF IInv, SlotInv, Motions, TypeOK
<1>2. /\ \A q \in Requests \ {r} : jobs'[q] = jobs[q] /\ at'[q] = at[q]
      /\ jobs'[r].status = status /\ jobs'[r].command = jobs[r].command
      /\ jobs'[r].retired = jobs[r].retired /\ jobs'[r].stopFor = jobs[r].stopFor
      /\ jobs'[r].stopConfirmed = jobs[r].stopConfirmed
      /\ jobs[r].speech => jobs'[r].speech
      /\ at'[r] \in {"report", "ended"}
      /\ MotionsKept
  BY <1>1, FinishFields
<1>3. Moves(r)
  BY <1>1, <1>2 DEF Moves, Idle, StopsNamed, Terminal
<1>4. engine'[r]["motion"] = engine[r]["motion"] /\ engine[r]["motion"] \in {"none", "completed"}
  BY <1>1, <1>2 DEF MotionOf, MotionsKept
<1>5. MotionOf(r)'
  BY <1>1, <1>2, <1>4 DEF MotionOf
<1>6. ~MayStillRun(r, "motion")'
  BY <1>4 DEF MayStillRun, Running
<1> QED BY <1>3, <1>5, <1>6 DEF Carried, CoveredOf

\* A failure of the job as it stands, or with the verdict just learnt.
LEMMA FailOfCarries ==
    ASSUME IInv, NEW r \in Requests, NEW mute \in BOOLEAN,
           at[r] \notin Idle, Fail(r, jobs[r], mute),
           UNCHANGED <<activeId, operation>>
    PROVE  Carried(r)
<1>1. TypeOK /\ Untouched /\ StopsNamed /\ MotionOf(r) /\ (Portable => CoveredOf(r))
  BY DEF IInv, SlotInv, Motions, Covered
<1>2. jobs[r] \in Job
  BY <1>1 DEF TypeOK
<1>3. jobs[r].status # "none"
  BY <1>1 DEF Untouched, Idle
<1>4. Portable /\ MayStillRun(r, "motion") =>
        /\ ~jobs[r].speech /\ ~jobs[r].rejected /\ jobs[r].stopConfirmed # "yes"
        /\ at[r] \in {"dispatch", "move"} \/ unconfirmed = r
  BY <1>1 DEF CoveredOf
<1>5. /\ jobs[r].status = "arrived" => engine[r]["motion"] = "completed"
      /\ ~jobs[r].command => engine[r]["motion"] = "none"
      /\ jobs[r].retired => engine[r]["motion"] \in Ended
      /\ jobs[r].stopFor = "speech" => jobs[r].speech
      /\ jobs[r].stopConfirmed = "no" => jobs[r].stopFor # None
  BY <1>1 DEF MotionOf, StopsNamed
<1> QED BY <1>2, <1>3, <1>4, <1>5, FailCarries

LEMMA ObserveCarries ==
    ASSUME IInv, NEW r \in Requests, Observe(r)
    PROVE  Carried(r)
<1>1. /\ at[r] = "observe" /\ at[r] \notin Idle
      /\ UNCHANGED <<activeId, operation>>
  BY DEF Observe, Idle
<1>2. CASE ObservationEnds(r)
  BY <1>1, <1>2, FinishCarries DEF ObservationEnds, Terminal
<1>3. CASE MotionPlanned(r)
  <2>1. TypeOK /\ Untouched /\ StopsNamed /\ MotionOf(r) /\ jobs[r] \in Job
    BY DEF IInv, SlotInv, Motions, TypeOK
  <2>2. /\ \A q \in Requests \ {r} : jobs'[q] = jobs[q] /\ at'[q] = at[q]
        /\ jobs'[r] = [jobs[r] EXCEPT !.command = TRUE] /\ at'[r] = "dispatch"
        /\ engine' = engine /\ cancelledIds' = cancelledIds /\ unconfirmed' = unconfirmed
    BY <1>3, <2>1 DEF MotionPlanned, TypeOK, world
  <2>3. /\ jobs'[r].status = jobs[r].status /\ jobs'[r].command
        /\ jobs'[r].rejected = jobs[r].rejected /\ jobs'[r].retired = jobs[r].retired
        /\ jobs'[r].speech = jobs[r].speech /\ jobs'[r].stopFor = jobs[r].stopFor
        /\ jobs'[r].stopConfirmed = jobs[r].stopConfirmed
    BY <2>1, <2>2 DEF Job
  <2>4. MotionsKept /\ jobs[r].status # "none"
    BY <1>1, <2>1, <2>2 DEF MotionsKept, Untouched
  <2>5. Moves(r)
    BY <1>1, <2>1, <2>2, <2>3, <2>4 DEF Moves, StopsNamed
  <2>6. engine[r]["motion"] = "none" /\ ~jobs[r].speech
    BY <1>1, <2>1 DEF MotionOf
  <2>7. MotionOf(r)'
    BY <1>1, <2>1, <2>2, <2>3, <2>6 DEF MotionOf
  <2>8. ~MayStillRun(r, "motion")'
    BY <2>2, <2>6 DEF MayStillRun, Running
  <2> QED BY <2>5, <2>7, <2>8 DEF Carried, CoveredOf
<1>4. CASE ObservationFails(r)
  BY <1>1, <1>4, FailOfCarries DEF ObservationFails
<1> QED BY <1>2, <1>3, <1>4 DEF Observe

\* The motion is dispatched, or refused before it could reach the avatar.
LEMMA DispatchedCarries ==
    ASSUME IInv, NEW r \in Requests, Dispatched(r)
    PROVE  Carried(r)
<1>1. /\ at[r] = "dispatch" /\ at[r] \notin Idle
      /\ UNCHANGED <<activeId, operation>>
  BY DEF Dispatched, Idle
<1>2. /\ TypeOK /\ Untouched /\ StopsNamed /\ MotionOf(r) /\ jobs[r] \in Job
      /\ (Portable => CoveredOf(r))
  BY DEF IInv, SlotInv, Motions, Covered, TypeOK
<1>3. jobs[r].status # "none"
  BY <1>1, <1>2 DEF Untouched
<1>4. CASE /\ jobs' = [jobs EXCEPT ![r].status = "moving"]
           /\ at' = [at EXCEPT ![r] = "move"]
           /\ UNCHANGED <<world, unconfirmed>>
  <2>1. /\ \A q \in Requests \ {r} : jobs'[q] = jobs[q] /\ at'[q] = at[q]
        /\ jobs'[r] = [jobs[r] EXCEPT !.status = "moving"] /\ at'[r] = "move"
        /\ engine' = engine /\ cancelledIds' = cancelledIds /\ unconfirmed' = unconfirmed
    BY <1>2, <1>4 DEF TypeOK, world
  <2>2. /\ jobs'[r].status = "moving" /\ jobs'[r].command = jobs[r].command
        /\ jobs'[r].rejected = jobs[r].rejected /\ jobs'[r].retired = jobs[r].retired
        /\ jobs'[r].speech = jobs[r].speech /\ jobs'[r].stopFor = jobs[r].stopFor
        /\ jobs'[r].stopConfirmed = jobs[r].stopConfirmed
    BY <1>2, <2>1 DEF Job
  <2>3. MotionsKept
    BY <2>1 DEF MotionsKept
  <2>4. Moves(r)
    BY <1>1, <1>2, <2>1, <2>2, <2>3 DEF Moves, StopsNamed
  <2>5. MotionOf(r)'
    BY <1>1, <1>2, <2>1, <2>2 DEF MotionOf
  <2>6. Portable => CoveredOf(r)'
    BY <1>1, <1>2, <2>1, <2>2 DEF MotionOf, CoveredOf
  <2> QED BY <2>4, <2>5, <2>6 DEF Carried
<1>5. CASE /\ engine[r]["motion"] \in {"none", "lost"}
           /\ Fail(r, [jobs[r] EXCEPT !.rejected = Portable], FALSE)
  <2> DEFINE job == [jobs[r] EXCEPT !.rejected = Portable]
  <2>1. /\ job \in Job /\ job.status = jobs[r].status /\ job.command = jobs[r].command
        /\ job.retired = jobs[r].retired /\ job.speech = jobs[r].speech
        /\ job.stopFor = jobs[r].stopFor /\ job.stopConfirmed = jobs[r].stopConfirmed
    BY <1>2, VisualJobAssumption DEF Job
  <2>2. ~MayStillRun(r, "motion")
    BY <1>5 DEF MayStillRun, Running
  <2>3. /\ job.status = "arrived" => engine[r]["motion"] = "completed"
        /\ ~job.command => engine[r]["motion"] = "none"
        /\ job.retired => engine[r]["motion"] \in Ended
        /\ job.stopFor = "speech" => job.speech
        /\ job.stopConfirmed = "no" => job.stopFor # None
    BY <1>2, <2>1 DEF MotionOf, StopsNamed
  <2>4. Fail(r, job, FALSE)
    BY <1>5
  <2> HIDE DEF job
  <2> QED BY <1>1, <1>3, <2>1, <2>2, <2>3, <2>4, FailCarries
<1>6. CASE Fail(r, jobs[r], FALSE)
  BY <1>1, <1>6, FailOfCarries
<1> QED BY <1>4, <1>5, <1>6 DEF Dispatched

\* A job that learns of its motion's end retires it, and goes on to the verification
\* only if the motion was completed.
LEMMA PollCarries ==
    ASSUME IInv, NEW r \in Requests, Poll(r) \/ KeepaliveTrips(r)
    PROVE  Carried(r)
<1>1. /\ at[r] = "move" /\ at[r] \notin Idle
      /\ UNCHANGED <<activeId, operation>>
  BY DEF Poll, KeepaliveTrips, Idle
<1>2. /\ TypeOK /\ Untouched /\ StopsNamed /\ MotionOf(r) /\ jobs[r] \in Job
  BY DEF IInv, SlotInv, Motions, TypeOK
<1>3. jobs[r].status # "none"
  BY <1>1, <1>2 DEF Untouched
<1> DEFINE job == [jobs[r] EXCEPT !.retired = Portable]
<1>4. /\ job \in Job /\ job.status = jobs[r].status /\ job.command = jobs[r].command
      /\ job.rejected = jobs[r].rejected /\ job.speech = jobs[r].speech
      /\ job.stopFor = jobs[r].stopFor /\ job.stopConfirmed = jobs[r].stopConfirmed
  BY <1>2, VisualJobAssumption DEF Job
<1>5. CASE /\ engine[r]["motion"] = "completed"
           /\ jobs' = [jobs EXCEPT ![r].retired = Portable]
           /\ at' = [at EXCEPT ![r] = "verify"]
           /\ UNCHANGED <<world, unconfirmed>>
  <2>1. /\ \A q \in Requests \ {r} : jobs'[q] = jobs[q] /\ at'[q] = at[q]
        /\ jobs'[r] = job /\ at'[r] = "verify"
        /\ engine' = engine /\ cancelledIds' = cancelledIds /\ unconfirmed' = unconfirmed
    BY <1>2, <1>5 DEF TypeOK, world
  <2> HIDE DEF job
  <2>2. MotionsKept
    BY <2>1 DEF MotionsKept
  <2>3. Moves(r)
    BY <1>1, <1>2, <1>3, <1>4, <2>1, <2>2 DEF Moves, StopsNamed
  <2>4. MotionOf(r)'
    BY <1>1, <1>2, <1>4, <1>5, <2>1 DEF MotionOf, Ended
  <2>5. ~MayStillRun(r, "motion")'
    BY <1>5, <2>1 DEF MayStillRun, Running
  <2> QED BY <2>3, <2>4, <2>5 DEF Carried, CoveredOf
<1>6. CASE engine[r]["motion"] \in Ended /\ Fail(r, job, FALSE)
  <2>1. ~MayStillRun(r, "motion")
    BY <1>6 DEF MayStillRun, Running, Ended
  <2> HIDE DEF job
  <2>2. /\ job.status = "arrived" => engine[r]["motion"] = "completed"
        /\ ~job.command => engine[r]["motion"] = "none"
        /\ job.retired => engine[r]["motion"] \in Ended
        /\ job.stopFor = "speech" => job.speech
        /\ job.stopConfirmed = "no" => job.stopFor # None
    BY <1>2, <1>4, <1>6 DEF MotionOf, StopsNamed
  <2> QED BY <1>1, <1>3, <1>4, <1>6, <2>1, <2>2, FailCarries
<1>7. ASSUME NEW mute \in BOOLEAN, Fail(r, jobs[r], mute) PROVE Carried(r)
  BY <1>1, <1>7, FailOfCarries
<1> QED BY <1>5, <1>6, <1>7 DEF Poll, KeepaliveTrips

LEMMA VerifyCarries ==
    ASSUME IInv, NEW r \in Requests, Verify(r)
    PROVE  Carried(r)
<1>1. /\ at[r] = "verify" /\ at[r] \notin Idle
      /\ UNCHANGED <<activeId, operation>>
  BY DEF Verify, Idle
<1>2. CASE ArrivalConfirmed(r)
  BY <1>1, <1>2, FinishCarries DEF ArrivalConfirmed, Terminal
<1>3. CASE ArrivalRefuted(r)
  BY <1>1, <1>3, FailOfCarries DEF ArrivalRefuted
<1> QED BY <1>2, <1>3 DEF Verify

\* The report: its end, its stop, or its failure.
LEMMA ReportCarries ==
    ASSUME IInv, NEW r \in Requests, Report(r)
    PROVE  Carried(r)
<1>1. /\ at[r] \in {"report", "report_error"} /\ at[r] \notin Idle
      /\ UNCHANGED <<activeId, operation>>
  BY DEF Report, Idle
<1>2. /\ TypeOK /\ Untouched /\ StopsNamed /\ MotionOf(r) /\ jobs[r] \in Job
      /\ (Portable => CoveredOf(r))
  BY DEF IInv, SlotInv, Motions, Covered, TypeOK
<1>3. jobs[r].status # "none"
  BY <1>1, <1>2 DEF Untouched
\* What the job records of its motion, whatever becomes of its report.
<1>4. ASSUME NEW job \in Job,
             jobs' = [jobs EXCEPT ![r] = job], UNCHANGED world,
             job.status = jobs[r].status, job.command = jobs[r].command,
             job.rejected = jobs[r].rejected, job.retired = jobs[r].retired,
             job.speech = jobs[r].speech,
             job.stopFor = "speech" => job.speech,
             job.stopConfirmed = "no" => job.stopFor # None,
             Portable /\ MayStillRun(r, "motion") => job.stopConfirmed # "yes",
             NEW there \in {"ended", "stop_report", "stop_report_error"},
             at' = [at EXCEPT ![r] = there],
             unconfirmed' \in {unconfirmed, r}
      PROVE  Carried(r)
  <2>1. /\ \A q \in Requests \ {r} : jobs'[q] = jobs[q] /\ at'[q] = at[q]
        /\ jobs'[r] = job /\ at'[r] = there
        /\ engine' = engine /\ cancelledIds' = cancelledIds
    BY <1>2, <1>4 DEF TypeOK, world
  <2>2. MotionsKept
    BY <2>1 DEF MotionsKept
  <2>3. Moves(r)
    BY <1>1, <1>3, <1>4, <2>1, <2>2 DEF Moves
  <2>4. MotionOf(r)'
    BY <1>2, <1>4, <2>1 DEF MotionOf
  <2>5. ASSUME Portable PROVE CoveredOf(r)'
    <3>1. MayStillRun(r, "motion")' <=> MayStillRun(r, "motion")
      BY <2>2, KeptRuns
    <3> QED BY <1>1, <1>2, <1>4, <2>1, <2>5, <3>1 DEF CoveredOf
  <2> QED BY <2>3, <2>4, <2>5 DEF Carried
<1>5. ASSUME NEW said \in {"completed", "failed"},
             jobs' = [jobs EXCEPT ![r].speechStatus = said],
             at' = [at EXCEPT ![r] = "ended"], UNCHANGED <<unconfirmed, world>>
      PROVE  Carried(r)
  <2> DEFINE job == [jobs[r] EXCEPT !.speechStatus = said]
  <2>1. /\ job \in Job /\ job.status = jobs[r].status /\ job.command = jobs[r].command
        /\ job.rejected = jobs[r].rejected /\ job.retired = jobs[r].retired
        /\ job.speech = jobs[r].speech /\ job.stopFor = jobs[r].stopFor
        /\ job.stopConfirmed = jobs[r].stopConfirmed
    BY <1>2 DEF Job
  <2>2. jobs' = [jobs EXCEPT ![r] = job] /\ UNCHANGED world
    BY <1>5
  <2> HIDE DEF job
  <2> QED BY <1>1, <1>2, <1>4, <1>5, <2>1, <2>2 DEF MotionOf, CoveredOf, StopsNamed
<1>6. ASSUME jobs' = [jobs EXCEPT ![r] = [StopBegun(jobs[r]) EXCEPT !.speechStatus = "failed"]],
             unconfirmed' = r, UNCHANGED world,
             NEW there \in {"stop_report", "stop_report_error"},
             at' = [at EXCEPT ![r] = there]
      PROVE  Carried(r)
  <2> DEFINE job == [StopBegun(jobs[r]) EXCEPT !.speechStatus = "failed"]
  <2>1. StopBegun(jobs[r]) \in Job
    BY <1>2, StopBegunType
  <2>2. /\ job \in Job /\ job.status = StopBegun(jobs[r]).status
        /\ job.command = StopBegun(jobs[r]).command
        /\ job.rejected = StopBegun(jobs[r]).rejected
        /\ job.retired = StopBegun(jobs[r]).retired
        /\ job.speech = StopBegun(jobs[r]).speech
        /\ job.stopFor = StopBegun(jobs[r]).stopFor
        /\ job.stopConfirmed = StopBegun(jobs[r]).stopConfirmed
    BY <2>1 DEF Job
  <2>3. jobs' = [jobs EXCEPT ![r] = job]
    BY <1>6
  <2> HIDE DEF job
  <2>4. /\ job.status = jobs[r].status /\ job.command = jobs[r].command
        /\ job.rejected = jobs[r].rejected /\ job.retired = jobs[r].retired
        /\ job.speech = jobs[r].speech
        /\ IF OwnedKind(jobs[r]) = None
           THEN job.stopFor = jobs[r].stopFor /\ job.stopConfirmed = jobs[r].stopConfirmed
           ELSE /\ job.stopFor = OwnedKind(jobs[r])
                /\ job.stopConfirmed = IF StopIsTrivial(jobs[r]) THEN "yes" ELSE "no"
    BY <1>2, <2>2, StopBegunFields
  <2>5. job.stopFor = "speech" => job.speech
    BY <1>2, <2>4, VisualJobAssumption DEF MotionOf, OwnedKind
  <2>6. job.stopConfirmed = "no" => job.stopFor # None
    BY <1>2, <2>4 DEF StopsNamed
  <2>7. Portable /\ MayStillRun(r, "motion") => job.stopConfirmed # "yes"
    BY <1>2, <2>4 DEF CoveredOf, StopIsTrivial
  <2> QED BY <1>4, <1>6, <2>2, <2>3, <2>4, <2>5, <2>6, <2>7
<1>7. CASE Fail(r, jobs[r], FALSE)
  BY <1>1, <1>7, FailOfCarries
<1>8. ASSUME at' = [at EXCEPT ![r] = "ended"], UNCHANGED <<jobs, unconfirmed, world>>
      PROVE  Carried(r)
  <2>1. jobs' = [jobs EXCEPT ![r] = jobs[r]]
    BY <1>2, <1>8 DEF TypeOK
  <2> QED BY <1>1, <1>2, <1>4, <1>8, <2>1 DEF MotionOf, CoveredOf, StopsNamed
<1> QED BY <1>1, <1>5, <1>6, <1>7, <1>8 DEF Report

\* On the portable path a stop is confirmed only when the job's motion is over.
LEMMA ConfirmableOver ==
    ASSUME IInv, Portable, NEW r \in Requests, Confirmable(r)
    PROVE  ~MayStillRun(r, "motion")
<1>1. TypeOK /\ MotionOf(r) /\ CoveredOf(r)
  BY DEF IInv, SlotInv, Motions, Covered
<1>2. jobs[r].stopFor \in Kinds \cup {None}
  BY <1>1 DEF TypeOK, Job
<1>3. CASE LocallyOver(r)
  BY <1>1, <1>3 DEF LocallyOver, MotionOf, MayStillRun, Ended, Running
<1>4. CASE ~LocallyOver(r)
  <2>1. <<r, jobs[r].stopFor>> \in cancelledIds
    BY <1>4 DEF Confirmable
  <2>2. jobs[r].stopFor \in Kinds
    BY <1>1, <2>1 DEF TypeOK
  <2>3. CASE jobs[r].stopFor = "motion"
    BY <1>4, <2>3 DEF Confirmable, MayStillRun, Ended, Running
  <2>4. CASE jobs[r].stopFor = "speech"
    BY <1>1, <2>4 DEF MotionOf, CoveredOf
  <2> QED BY <2>2, <2>3, <2>4 DEF Kinds
<1> QED BY <1>3, <1>4

LEMMA StopReturnsCarries ==
    ASSUME IInv, NEW r \in Requests, StopReturns(r)
    PROVE  Carried(r)
<1>1. /\ at[r] \in Stopping /\ at[r] \notin Idle
      /\ at[r] \notin {"check", "observe", "dispatch", "move", "none"}
      /\ operation' = operation
      /\ activeId' = IF at'[r] = "released" /\ activeId = r THEN None ELSE activeId
  BY DEF StopReturns, Stopping, Idle
<1>2. /\ TypeOK /\ Slot /\ Untouched /\ StopsNamed /\ MotionOf(r) /\ jobs[r] \in Job
      /\ (Portable => CoveredOf(r))
  BY DEF IInv, SlotInv, Motions, Covered, TypeOK
<1>3. jobs[r].status # "none" /\ activeId = r
  BY <1>1, <1>2 DEF Untouched, Slot
\* Either way the job is as it was, except that an open stop may be confirmed now.
<1>4. ASSUME NEW job \in Job, AfterStop(r, job),
             job.status = jobs[r].status, job.command = jobs[r].command,
             job.rejected = jobs[r].rejected, job.retired = jobs[r].retired,
             job.speech = jobs[r].speech, job.stopFor = jobs[r].stopFor,
             \/ job.stopConfirmed = jobs[r].stopConfirmed /\ unconfirmed' = unconfirmed
             \/ /\ jobs[r].stopConfirmed = "no" /\ Confirmable(r)
                /\ job.stopConfirmed = "yes" /\ unconfirmed' = None
      PROVE  Carried(r)
  <2>1. /\ \A q \in Requests \ {r} : jobs'[q] = jobs[q] /\ at'[q] = at[q]
        /\ jobs'[r].status \in {job.status, "failed", "cancelled"}
        /\ jobs'[r].command = job.command /\ jobs'[r].rejected = job.rejected
        /\ jobs'[r].retired = job.retired
        /\ jobs'[r].stopFor = job.stopFor
        /\ jobs'[r].stopConfirmed = job.stopConfirmed
        /\ \/ /\ jobs'[r].speech = job.speech
              /\ at'[r] \in {"ended", "ended_cancelled", "released"}
           \/ /\ at[r] = "stop_error" /\ job.stopConfirmed # "no"
              /\ jobs'[r].speech /\ at'[r] = "report_error"
        /\ MotionsKept
    BY <1>1, <1>2, <1>4, AfterStopFields
  <2>2. Moves(r)
    BY <1>1, <1>2, <1>3, <1>4, <2>1 DEF Moves, StopsNamed
  <2>3. engine'[r]["motion"] = engine[r]["motion"]
    BY <2>1 DEF MotionsKept
  <2>4. MotionOf(r)'
    BY <1>1, <1>2, <1>4, <2>1, <2>3 DEF MotionOf
  <2>5. ASSUME Portable, MayStillRun(r, "motion")'
        PROVE  /\ ~jobs'[r].speech /\ ~jobs'[r].rejected
               /\ jobs'[r].stopConfirmed # "yes" /\ unconfirmed' = r
    <3>1. MayStillRun(r, "motion")
      BY <2>1, <2>5, KeptRuns
    <3>2. /\ ~jobs[r].speech /\ ~jobs[r].rejected /\ jobs[r].stopConfirmed # "yes"
          /\ unconfirmed = r
      BY <1>1, <1>2, <2>5, <3>1 DEF CoveredOf
    <3>3. job.stopConfirmed = jobs[r].stopConfirmed /\ unconfirmed' = unconfirmed
      BY <1>4, <2>5, <3>1, ConfirmableOver
    <3>4. at[r] = "stop_error" => jobs[r].stopConfirmed = "no"
      BY <1>2, <3>2 DEF MotionOf, Job
    <3> QED BY <1>4, <2>1, <3>2, <3>3, <3>4
  <2> QED BY <2>2, <2>4, <2>5 DEF Carried, CoveredOf
<1> DEFINE job == [jobs[r] EXCEPT !.stopConfirmed = IF @ = "no" THEN "yes" ELSE @]
<1>5. /\ job.status = jobs[r].status /\ job.command = jobs[r].command
      /\ job.rejected = jobs[r].rejected /\ job.retired = jobs[r].retired
      /\ job.speech = jobs[r].speech /\ job.stopFor = jobs[r].stopFor
      /\ job.stopConfirmed = IF jobs[r].stopConfirmed = "no" THEN "yes"
                             ELSE jobs[r].stopConfirmed
  BY <1>2 DEF Job
<1>6. job \in Job
  <2>1. CASE jobs[r].stopConfirmed = "no"
    BY <1>2, <2>1, JobUpdates
  <2>2. CASE jobs[r].stopConfirmed # "no"
    BY <1>2, <2>2 DEF Job
  <2> QED BY <2>1, <2>2
<1>7. CASE /\ jobs[r].stopConfirmed # "no" \/ Confirmable(r)
           /\ AfterStop(r, job)
           /\ unconfirmed' = IF jobs[r].stopConfirmed = "no" THEN None ELSE unconfirmed
  <2> HIDE DEF job
  <2> QED BY <1>4, <1>5, <1>6, <1>7
<1>8. CASE AfterStop(r, jobs[r]) /\ UNCHANGED unconfirmed
  BY <1>2, <1>4, <1>8
<1> QED BY <1>7, <1>8 DEF StopReturns

\* The release: a monitored job may be failed once more and stopped first.
LEMMA ReleaseCarries ==
    ASSUME IInv, NEW r \in Requests, Release(r)
    PROVE  Carried(r)
<1>1. /\ at[r] \in {"ended", "ended_cancelled"} /\ at[r] \notin Idle
      /\ operation' = operation /\ engine' = engine /\ cancelledIds' = cancelledIds
      /\ activeId' = IF at'[r] = "released" /\ activeId = r THEN None ELSE activeId
  BY DEF Release, Idle, world
<1>2. /\ TypeOK /\ Slot /\ Untouched /\ StopsNamed /\ MotionOf(r) /\ jobs[r] \in Job
      /\ (Portable => CoveredOf(r))
  BY DEF IInv, SlotInv, Motions, Covered, TypeOK
<1>3. jobs[r].status # "none" /\ activeId = r /\ MotionsKept
  BY <1>1, <1>2 DEF Untouched, Slot, MotionsKept
<1>4. ASSUME NEW job \in Job, jobs' = [jobs EXCEPT ![r] = job],
             job.status \in {jobs[r].status, "failed"}, job.command = jobs[r].command,
             job.rejected = jobs[r].rejected, job.retired = jobs[r].retired,
             job.speech = jobs[r].speech,
             job.stopFor = "speech" => job.speech,
             job.stopConfirmed = "no" => job.stopFor # None,
             Portable /\ MayStillRun(r, "motion") => job.stopConfirmed # "yes",
             Portable /\ MayStillRun(r, "motion") => unconfirmed' = r,
             NEW there \in {"released", "stop_budget"}, at' = [at EXCEPT ![r] = there],
             unconfirmed' \in {unconfirmed, None, r}
      PROVE  Carried(r)
  <2>1. /\ \A q \in Requests \ {r} : jobs'[q] = jobs[q] /\ at'[q] = at[q]
        /\ jobs'[r] = job /\ at'[r] = there
    BY <1>2, <1>4 DEF TypeOK
  <2>2. Moves(r)
    BY <1>1, <1>3, <1>4, <2>1 DEF Moves
  <2>3. MotionOf(r)'
    BY <1>1, <1>2, <1>4, <2>1 DEF MotionOf
  <2>4. ASSUME Portable PROVE CoveredOf(r)'
    <3>1. MayStillRun(r, "motion")' <=> MayStillRun(r, "motion")
      BY <1>3, KeptRuns
    <3> QED BY <1>1, <1>2, <1>4, <2>1, <2>4, <3>1 DEF CoveredOf
  <2> QED BY <2>2, <2>3, <2>4 DEF Carried
<1>a. Portable /\ MayStillRun(r, "motion") =>
        unconfirmed = r /\ ~jobs[r].rejected /\ jobs[r].stopConfirmed # "yes"
  BY <1>1, <1>2 DEF CoveredOf
<1>5. CASE at' = [at EXCEPT ![r] = "released"] /\ UNCHANGED <<jobs, unconfirmed>>
  <2>1. jobs' = [jobs EXCEPT ![r] = jobs[r]]
    BY <1>2, <1>5 DEF TypeOK
  <2> QED BY <1>2, <1>4, <1>5, <1>a, <2>1 DEF MotionOf, StopsNamed
<1> DEFINE failed == [jobs[r] EXCEPT !.status = "failed", !.speak = FALSE]
           hushed == [failed EXCEPT !.speechStatus = IF @ = "pending" THEN "cancelled" ELSE @]
<1>6. /\ failed \in Job /\ failed.status = "failed" /\ failed.command = jobs[r].command
      /\ failed.rejected = jobs[r].rejected /\ failed.retired = jobs[r].retired
      /\ failed.speech = jobs[r].speech /\ failed.stopFor = jobs[r].stopFor
      /\ failed.stopConfirmed = jobs[r].stopConfirmed
  <2>1. failed \in Job
    BY <1>2, JobUpdates
  <2> QED BY <1>2, <2>1 DEF Job
<1>7. CASE /\ jobs' = [jobs EXCEPT ![r] = hushed]
           /\ at' = [at EXCEPT ![r] = "released"] /\ UNCHANGED unconfirmed
  <2>1. /\ hushed \in Job /\ hushed.status = failed.status
        /\ hushed.command = failed.command
        /\ hushed.rejected = failed.rejected /\ hushed.retired = failed.retired
        /\ hushed.speech = failed.speech /\ hushed.stopFor = failed.stopFor
        /\ hushed.stopConfirmed = failed.stopConfirmed
    BY <1>6 DEF Job
  <2> HIDE DEF failed, hushed
  <2> QED BY <1>2, <1>4, <1>6, <1>7, <1>a, <2>1 DEF MotionOf, StopsNamed
<1>8. CASE /\ jobs' = [jobs EXCEPT ![r] = StopBegun(failed)]
           /\ unconfirmed' = UnconfirmedAfter(r, failed)
           /\ at' = [at EXCEPT ![r] = "stop_budget"]
  <2> HIDE DEF failed
  <2> DEFINE job == StopBegun(failed)
  <2>1. /\ job \in Job /\ job.status = failed.status /\ job.command = failed.command
        /\ job.rejected = failed.rejected /\ job.retired = failed.retired
        /\ job.speech = failed.speech
        /\ IF OwnedKind(failed) = None
           THEN job.stopFor = failed.stopFor /\ job.stopConfirmed = failed.stopConfirmed
           ELSE /\ job.stopFor = OwnedKind(failed)
                /\ job.stopConfirmed = IF StopIsTrivial(failed) THEN "yes" ELSE "no"
    BY <1>6, StopBegunType, StopBegunFields
  <2>2. unconfirmed' = IF OwnedKind(failed) = None THEN unconfirmed
                       ELSE IF StopIsTrivial(failed) THEN None ELSE r
    BY <1>8 DEF UnconfirmedAfter
  <2>3. job.stopFor = "speech" => job.speech
    BY <1>2, <1>6, <2>1, VisualJobAssumption DEF MotionOf, OwnedKind
  <2>4. job.stopConfirmed = "no" => job.stopFor # None
    BY <1>2, <1>6, <2>1 DEF StopsNamed
  <2>5. ASSUME Portable, MayStillRun(r, "motion")
        PROVE  job.stopConfirmed # "yes" /\ unconfirmed' = r
    BY <1>6, <1>a, <2>1, <2>2, <2>5 DEF StopIsTrivial
  <2>6. jobs' = [jobs EXCEPT ![r] = job]
    BY <1>8
  <2> HIDE DEF job
  <2> QED BY <1>4, <1>6, <1>8, <2>1, <2>2, <2>3, <2>4, <2>5, <2>6
<1> QED BY <1>5, <1>7, <1>8 DEF Release

\* A cancellation, by start(), cancel() or the resource monitor.
LEMMA InterruptedCarries ==
    ASSUME IInv, NEW r \in Requests, Interrupted(r), at[r] \notin Idle,
           UNCHANGED <<activeId, operation, world>>
    PROVE  Carried(r)
<1>1. /\ TypeOK /\ Untouched /\ StopsNamed /\ MotionOf(r) /\ jobs[r] \in Job
      /\ (Portable => CoveredOf(r))
  BY DEF IInv, SlotInv, Motions, Covered, TypeOK
<1>2. /\ engine' = engine /\ cancelledIds' = cancelledIds /\ MotionsKept
      /\ activeId' = activeId /\ operation' = operation
  BY DEF world, MotionsKept
<1>3. jobs[r].status # "none"
  BY <1>1 DEF Untouched, Idle
<1>4. /\ at'[r] \in {"stop_cancel", "ended_cancelled"}
      /\ at[r] \in {"dispatch", "move"} => at[r] \in InTry
  BY <1>1, InterruptedFields DEF InTry
<1>5. Moves(r)
  <2>1. jobs'[r].stopConfirmed = "no" => jobs'[r].stopFor # None
    BY <1>1, InterruptedFields DEF StopsNamed
  <2>2. /\ \A q \in Requests \ {r} : jobs'[q] = jobs[q] /\ at'[q] = at[q]
        /\ jobs'[r].status = jobs[r].status
        /\ unconfirmed' \in {unconfirmed, None, r}
    BY <1>1, InterruptedFields
  <2> QED BY <1>2, <1>3, <1>4, <2>1, <2>2 DEF Moves
<1>6. MotionOf(r)'
  <2>1. /\ jobs'[r].status = jobs[r].status /\ jobs'[r].command = jobs[r].command
        /\ jobs'[r].retired = jobs[r].retired
    BY <1>1, InterruptedFields
  <2>2. jobs'[r].stopFor = "speech" => jobs'[r].speech
    BY <1>1, InterruptedFields, VisualJobAssumption DEF OwnedKind, MotionOf
  <2> QED BY <1>1, <1>2, <1>4, <2>1, <2>2 DEF MotionOf
<1>7. ASSUME Portable, MayStillRun(r, "motion")'
      PROVE  /\ ~jobs'[r].speech /\ ~jobs'[r].rejected
             /\ jobs'[r].stopConfirmed # "yes" /\ unconfirmed' = r
  <2>1. /\ ~jobs[r].speech /\ ~jobs[r].rejected /\ jobs[r].stopConfirmed # "yes"
        /\ at[r] \in {"dispatch", "move"} \/ unconfirmed = r
    BY <1>1, <1>2, <1>7, KeptRuns DEF CoveredOf
  <2>2. at[r] \in {"dispatch", "move"} => OwnedKind(jobs[r]) = "motion"
    BY <1>1, <2>1 DEF MotionOf, OwnedKind
  <2>3. OwnedKind(jobs[r]) # None => ~StopIsTrivial(jobs[r])
    BY <2>1 DEF StopIsTrivial
  <2> QED BY <1>1, <1>4, <2>1, <2>2, <2>3, VisualJobAssumption, InterruptedFields
<1> QED BY <1>5, <1>6, <1>7 DEF Carried, CoveredOf

LEMMA StepCarries ==
    ASSUME IInv, NEW r \in Requests, Step(r)
    PROVE  Carried(r)
  BY CheckBudgetCarries, ObserveCarries, DispatchedCarries, VerifyCarries, PollCarries,
     ReportCarries, StopReturnsCarries, ReleaseCarries DEF Step

-----------------------------------------------------------------------------
(* The invariant                                                           *)

\* What a step of one job's coroutine carries is the invariant of the service.
LEMMA CarriedInv ==
    ASSUME IInv, TypeOK', NEW r \in Requests, Carried(r)
    PROVE  IInv'
<1>1. /\ TypeOK /\ Slot /\ Untouched /\ StopsNamed /\ Motions /\ Covered
      /\ Moves(r) /\ MotionOf(r)' /\ (Portable => CoveredOf(r)')
      /\ None \notin Requests
  BY VisualJobAssumption DEF IInv, SlotInv, Carried
<1>2. activeId = r /\ at[r] # "none" /\ unconfirmed \in {None, r}
  BY <1>1 DEF Slot, Moves, Idle
<1>3. Slot'
  BY <1>1, <1>2 DEF Slot, Moves, Idle
<1>4. Untouched'
  <2>1. \A q \in Requests : at'[q] = "none" <=> at[q] = "none"
    BY <1>1, <1>2 DEF Moves
  <2>2. \A q \in Requests : jobs'[q].status = "none" <=> at'[q] = "none"
    BY <1>1, <1>2 DEF Moves, Untouched
  <2>3. operation.cancelled \in Requests \cup {None}
    BY <1>1 DEF TypeOK, Operation
  <2>4. operation' = operation /\ unconfirmed' \in {None, r}
    BY <1>1, <1>2 DEF Moves
  <2> QED BY <1>1, <1>2, <2>1, <2>2, <2>3, <2>4 DEF Untouched
<1>5. StopsNamed'
  BY <1>1 DEF StopsNamed, Moves
<1>6. ASSUME NEW q \in Requests \ {r} 
      PROVE  MotionOf(q)' /\ (Portable => ~MayStillRun(q, "motion")')
  <2>1. /\ jobs'[q] = jobs[q] /\ at'[q] = at[q]
        /\ engine'[q]["motion"] = engine[q]["motion"]
    BY <1>1 DEF Moves, MotionsKept
  <2>2. MotionOf(q)'
    BY <1>1, <2>1 DEF Motions, MotionOf
  <2>3. at[q] \in Idle
    BY <1>1, <1>2 DEF Slot
  <2>4. Portable => ~MayStillRun(q, "motion")
    BY <1>1, <1>2, <2>3 DEF Covered, CoveredOf, Idle
  <2>5. MayStillRun(q, "motion")' <=> MayStillRun(q, "motion")
    BY <1>1, KeptRuns DEF Moves
  <2> QED BY <2>2, <2>4, <2>5
<1>7. Motions' /\ Covered'
  BY <1>1, <1>6 DEF Motions, Covered, CoveredOf
<1> QED BY <1>3, <1>4, <1>5, <1>7 DEF IInv, SlotInv

\* What the avatar, the network and a delivered stop may do to the motions: none
\* starts again, and one that ended stays as it ended.
Subsides ==
    /\ \A q \in Requests :
          /\ engine[q]["motion"] = "none" => engine'[q]["motion"] = "none"
          /\ engine[q]["motion"] \in Ended => engine'[q]["motion"] = engine[q]["motion"]
          /\ MayStillRun(q, "motion")' => MayStillRun(q, "motion")
    /\ UNCHANGED <<jobs, at, activeId, unconfirmed, operation>>

LEMMA EngineSubsides ==
    ASSUME TypeOK, NEW r \in Requests, NEW k \in Kinds,
           Deliver(r, k) \/ Lose(r, k) \/ EngineEnds(r, k)
    PROVE  Subsides
<1> USE DEF TypeOK, Kinds, Fates, Ended, Running, MayStillRun, Subsides
<1>1. CASE Deliver(r, k)
  <2>1. CASE engine' = [engine EXCEPT ![r][k] = "ended"]
    BY <1>1, <2>1 DEF Deliver
  <2>2. CASE /\ <<r, k>> \notin cancelledIds
             /\ engine' = [q \in Requests |-> [j \in Kinds |->
                            IF q = r /\ j = k THEN "live"
                            ELSE IF j = k /\ engine[q][j] \in Running THEN "ended"
                            ELSE IF engine[q][j] = "live" THEN "adrift"
                            ELSE engine[q][j]]]
    <3>1. \A q \in Requests :
             engine'[q]["motion"] = IF q = r /\ k = "motion" THEN "live"
                          ELSE IF k = "motion" /\ engine[q]["motion"] \in Running THEN "ended"
                          ELSE IF engine[q]["motion"] = "live" THEN "adrift"
                          ELSE engine[q]["motion"]
      BY <2>2
    <3> QED BY <1>1, <2>2, <3>1 DEF Deliver
  <2> QED BY <1>1, <2>1, <2>2 DEF Deliver
<1>2. CASE Lose(r, k)
  BY <1>2 DEF Lose
<1>3. CASE EngineEnds(r, k)
  BY <1>3 DEF EngineEnds
<1> QED BY <1>1, <1>2, <1>3

LEMMA StopSubsides ==
    ASSUME TypeOK, NEW r \in Requests, StopDelivered(r)
    PROVE  Subsides
  BY DEF StopDelivered, TypeOK, Kinds, Fates, Ended, Running, MayStillRun, Subsides

LEMMA SubsidesInv ==
    ASSUME IInv, TypeOK', Subsides
    PROVE  IInv'
<1>1. UNCHANGED <<jobs, at, activeId, unconfirmed, operation>>
  BY DEF Subsides
<1>2. (Slot /\ Untouched /\ StopsNamed)'
  BY <1>1 DEF IInv, SlotInv, Slot, Untouched, StopsNamed
<1>3. ASSUME NEW q \in Requests
      PROVE  MotionOf(q)' /\ (Portable => CoveredOf(q)')
  <2>1. MotionOf(q) /\ (Portable => CoveredOf(q))
    BY DEF IInv, Motions, Covered
  <2>2. /\ engine[q]["motion"] = "none" => engine'[q]["motion"] = "none"
        /\ engine[q]["motion"] \in Ended => engine'[q]["motion"] = engine[q]["motion"]
        /\ MayStillRun(q, "motion")' => MayStillRun(q, "motion")
    BY DEF Subsides
  <2>3. MotionOf(q)'
    BY <1>1, <2>1, <2>2 DEF MotionOf, Ended
  <2>4. Portable => CoveredOf(q)'
    BY <1>1, <2>1, <2>2 DEF CoveredOf
  <2> QED BY <2>3, <2>4
<1> QED BY <1>2, <1>3 DEF IInv, SlotInv, Motions, Covered

\* An unconfirmed stop is begun again, while no job is active.
LEMMA RestopBegins ==
    ASSUME IInv, NEW r \in Requests, unconfirmed = r, activeId = None,
           jobs' = [jobs EXCEPT ![r] = StopBegun(@)],
           unconfirmed' = UnconfirmedAfter(r, jobs[r]),
           UNCHANGED <<at, world>>
    PROVE  /\ \A q \in Requests : jobs'[q].status = jobs[q].status
           /\ unconfirmed' \in {None, r}
           /\ StopsNamed' /\ Motions' /\ Covered'
<1>1. /\ TypeOK /\ StopsNamed /\ MotionOf(r) /\ jobs[r] \in Job
      /\ (Portable => CoveredOf(r)) /\ None \notin Requests
  BY VisualJobAssumption DEF IInv, SlotInv, Motions, Covered, TypeOK
<1>2. /\ jobs'[r] = StopBegun(jobs[r]) /\ \A q \in Requests \ {r} : jobs'[q] = jobs[q]
      /\ at' = at /\ engine' = engine /\ cancelledIds' = cancelledIds
  BY <1>1 DEF TypeOK, world
<1>3. /\ jobs'[r].status = jobs[r].status /\ jobs'[r].command = jobs[r].command
      /\ jobs'[r].rejected = jobs[r].rejected /\ jobs'[r].retired = jobs[r].retired
      /\ jobs'[r].speech = jobs[r].speech
      /\ IF OwnedKind(jobs[r]) = None
         THEN /\ jobs'[r].stopFor = jobs[r].stopFor
              /\ jobs'[r].stopConfirmed = jobs[r].stopConfirmed
         ELSE /\ jobs'[r].stopFor = OwnedKind(jobs[r])
              /\ jobs'[r].stopConfirmed = IF StopIsTrivial(jobs[r]) THEN "yes" ELSE "no"
  BY <1>1, <1>2, StopBegunFields
<1>4. unconfirmed' = IF OwnedKind(jobs[r]) = None \/ ~StopIsTrivial(jobs[r]) THEN r ELSE None
  BY DEF UnconfirmedAfter
<1>5. StopsNamed'
  BY <1>1, <1>2, <1>3 DEF StopsNamed
<1>6. at[r] = "released"
  BY <1>1 DEF IInv, SlotInv, Slot, Untouched, Idle
<1>7. MotionOf(r)'
  <2>1. jobs'[r].stopFor = "speech" => jobs'[r].speech
    BY <1>1, <1>3 DEF MotionOf, OwnedKind
  <2> QED BY <1>1, <1>2, <1>3, <1>6, <2>1 DEF MotionOf
<1>8. ASSUME Portable PROVE CoveredOf(r)'
  <2>1. MayStillRun(r, "motion")' <=> MayStillRun(r, "motion")
    BY <1>2 DEF MayStillRun
  <2> QED BY <1>1, <1>2, <1>3, <1>4, <1>8, <2>1 DEF CoveredOf, StopIsTrivial
<1>9. ASSUME NEW q \in Requests \ {r}
      PROVE  MotionOf(q)' /\ (Portable => CoveredOf(q)')
  <2>1. MotionOf(q) /\ (Portable => CoveredOf(q)) /\ at[q] \in Idle
    BY <1>1 DEF IInv, SlotInv, Slot, Motions, Covered
  <2>2. MotionOf(q)'
    BY <1>2, <2>1 DEF MotionOf
  <2>3. MayStillRun(q, "motion")' <=> MayStillRun(q, "motion")
    BY <1>2 DEF MayStillRun
  <2> QED BY <1>2, <2>1, <2>2, <2>3 DEF CoveredOf, Idle
<1> QED BY <1>3, <1>4, <1>5, <1>7, <1>8, <1>9 DEF Motions, Covered

\* Where jobs, coroutines and commands are left alone, so is what is known of them.
LEMMA MotionsStay ==
    ASSUME Motions, Covered, UNCHANGED <<jobs, at, world, unconfirmed>>
    PROVE  Motions' /\ Covered'
  BY DEF world, Motions, Covered, MotionOf, CoveredOf, MayStillRun

LEMMA StartKeeps ==
    ASSUME IInv, NEW r \in Requests, NEW call \in Calls[r], StartEnter(r, call)
    PROVE  (Slot /\ Untouched /\ StopsNamed /\ Motions /\ Covered)'
<1>1. UNCHANGED <<jobs, at, activeId, world, unconfirmed>>
  BY DEF StartEnter
<1>2. Motions' /\ Covered'
  BY <1>1, MotionsStay DEF IInv
<1>3. /\ operation'.kind = "start" /\ operation'.request = r
      /\ operation'.cancelled = activeId /\ operation'.stage = "cancelling"
      /\ jobs[r].status = "none"
  BY DEF StartEnter, NoJob
<1>4. activeId # None => at[activeId] # "none"
  BY DEF IInv, SlotInv, Slot, TypeOK, Idle
<1> QED BY <1>1, <1>2, <1>3, <1>4 DEF IInv, SlotInv, Slot, Untouched, StopsNamed

LEMMA CancelKeeps ==
    ASSUME IInv, NEW r \in Requests, CancelEnter(r)
    PROVE  (Slot /\ Untouched /\ StopsNamed /\ Motions /\ Covered)'
<1>1. /\ operation'.kind = "cancel" /\ operation'.cancelled = activeId
      /\ operation'.stage = IF activeId = None THEN "restop" ELSE "cancelling"
      /\ UNCHANGED <<at, activeId, world>> /\ None \notin Requests
  BY VisualJobAssumption DEF CancelEnter, NoOperation
<1>2. activeId # None => at[activeId] # "none"
  BY DEF IInv, SlotInv, Slot, TypeOK, Idle
<1>3. CASE activeId = None
  <2>1. unconfirmed = r /\ jobs' = [jobs EXCEPT ![r] = StopBegun(@)]
        /\ unconfirmed' = UnconfirmedAfter(r, jobs[r])
    BY <1>1, <1>3 DEF CancelEnter
  <2>2. /\ \A q \in Requests : jobs'[q].status = jobs[q].status
        /\ unconfirmed' \in {None, r}
        /\ StopsNamed' /\ Motions' /\ Covered'
    BY <1>1, <1>3, <2>1, RestopBegins
  <2> QED BY <1>1, <1>3, <2>1, <2>2 DEF IInv, SlotInv, Slot, Untouched
<1>4. CASE activeId # None
  <2>1. UNCHANGED <<jobs, unconfirmed>>
    BY <1>4 DEF CancelEnter
  <2>2. Motions' /\ Covered'
    BY <1>1, <2>1, MotionsStay DEF IInv
  <2> QED BY <1>1, <1>2, <1>4, <2>1, <2>2 DEF IInv, SlotInv, Slot, Untouched, StopsNamed
<1> QED BY <1>3, <1>4

LEMMA DrainedKeeps ==
    ASSUME IInv, Drained
    PROVE  (Slot /\ Untouched /\ StopsNamed /\ Motions /\ Covered)'
<1>1. TypeOK /\ Slot /\ Untouched /\ StopsNamed /\ Motions /\ Covered /\ None \notin Requests
  BY VisualJobAssumption DEF IInv, SlotInv
<1>2. activeId = None /\ activeId' = None
  BY <1>1 DEF Drained, TaskRunning, Slot, Idle, TypeOK
<1>3. /\ at' = at /\ engine' = engine /\ cancelledIds' = cancelledIds
      /\ unconfirmed' = unconfirmed
      /\ operation'.kind = "start" =>
            operation.kind = "start" /\ operation'.request = operation.request
      /\ operation'.cancelled \in {None, operation.cancelled}
      /\ operation'.stage \in {"none", "drained"}
      /\ operation'.stage = "drained" => operation'.kind = "start"
      /\ operation'.kind = "none" => operation'.stage = "none"
  BY <1>1 DEF Drained, NoOperation, TypeOK, Operation, Untouched, world
<1>4. ASSUME NEW q \in Requests
      PROVE  /\ jobs'[q].command = jobs[q].command /\ jobs'[q].rejected = jobs[q].rejected
             /\ jobs'[q].retired = jobs[q].retired /\ jobs'[q].speech = jobs[q].speech
             /\ jobs'[q].stopFor = jobs[q].stopFor
             /\ jobs'[q].stopConfirmed = jobs[q].stopConfirmed
             /\ \/ jobs'[q].status = jobs[q].status
                \/ q = operation.cancelled /\ jobs'[q].status = "cancelled"
  <2>1. jobs[q] \in Job /\ jobs'[q] \in {jobs[q], [jobs[q] EXCEPT !.status = "cancelled"]}
        /\ (q # operation.cancelled => jobs'[q] = jobs[q])
    BY <1>1 DEF Drained, TypeOK
  <2> QED BY <2>1 DEF Job
<1>5. Slot' /\ StopsNamed'
  BY <1>1, <1>2, <1>3, <1>4 DEF Slot, StopsNamed
<1>6. Untouched'
  BY <1>1, <1>3, <1>4 DEF Untouched, TypeOK, Operation
<1>7. ASSUME NEW q \in Requests PROVE MotionOf(q)' /\ (Portable => CoveredOf(q)')
  <2>1. MotionOf(q) /\ (Portable => CoveredOf(q))
    BY <1>1 DEF Motions, Covered
  <2>2. MotionOf(q)'
    BY <1>3, <1>4, <2>1 DEF MotionOf
  <2>3. MayStillRun(q, "motion")' <=> MayStillRun(q, "motion")
    BY <1>3 DEF MayStillRun
  <2> QED BY <1>3, <1>4, <2>1, <2>2, <2>3 DEF CoveredOf
<1> QED BY <1>5, <1>6, <1>7 DEF Motions, Covered

LEMMA RestopKeeps ==
    ASSUME IInv, Restop
    PROVE  (Slot /\ Untouched /\ StopsNamed /\ Motions /\ Covered)'
<1>1. TypeOK /\ Slot /\ Untouched /\ None \notin Requests
  BY VisualJobAssumption DEF IInv, SlotInv
<1>2. /\ unconfirmed \in Requests /\ activeId = None /\ activeId' = activeId
      /\ operation.stage = "drained"
      /\ jobs' = [jobs EXCEPT ![unconfirmed] = StopBegun(@)]
      /\ unconfirmed' = UnconfirmedAfter(unconfirmed, jobs[unconfirmed])
      /\ UNCHANGED <<at, world>>
      /\ operation'.stage = "restop" /\ operation'.kind = operation.kind
      /\ operation'.request = operation.request
      /\ operation'.cancelled = operation.cancelled
  BY <1>1 DEF Restop, Slot, TypeOK, Operation
<1>3. /\ \A q \in Requests : jobs'[q].status = jobs[q].status
      /\ unconfirmed' \in {None, unconfirmed}
      /\ StopsNamed' /\ Motions' /\ Covered'
  BY <1>2, RestopBegins
<1> QED BY <1>1, <1>2, <1>3 DEF Slot, Untouched

\* A request without a job may be registered while the slot is empty.
LEMMA RegisterKeeps ==
    ASSUME IInv, NEW r \in Requests, NEW speak \in BOOLEAN, NEW allowMove \in BOOLEAN,
           at[r] = "none", activeId = None, unconfirmed = None,
           Register(r, speak, allowMove), operation' = NoOperation,
           UNCHANGED <<unconfirmed, world>>
    PROVE  (Slot /\ Untouched /\ StopsNamed /\ Motions /\ Covered)'
<1> DEFINE job == [NoJob EXCEPT !.status = "observing", !.speak = speak,
                                !.allowMove = allowMove]
<1>1. TypeOK /\ Slot /\ Untouched /\ StopsNamed /\ Motions /\ Covered /\ None \notin Requests
  BY VisualJobAssumption DEF IInv, SlotInv
<1>2. at[r] = "none" /\ activeId = None /\ unconfirmed = None
  OBVIOUS
<1>3. /\ jobs' = [jobs EXCEPT ![r] = job] /\ at'[r] \in {"check", "observe"}
      /\ \A q \in Requests \ {r} : at'[q] = at[q]
      /\ activeId' = r /\ unconfirmed' = None /\ operation' = NoOperation
      /\ engine' = engine /\ cancelledIds' = cancelledIds
  BY <1>1, <1>2 DEF Register, TypeOK, world
<1>4. /\ job.status = "observing" /\ ~job.command /\ ~job.rejected /\ ~job.retired
      /\ ~job.speech /\ job.stopConfirmed = "unset" /\ job.stopFor = None
  BY DEF NoJob
<1> HIDE DEF job
<1>5. jobs'[r] = job /\ \A q \in Requests \ {r} : jobs'[q] = jobs[q]
  BY <1>1, <1>2, <1>3 DEF TypeOK
<1>6. Slot'
  BY <1>1, <1>2, <1>3 DEF Slot, Idle, NoOperation
<1>7. Untouched' /\ StopsNamed'
  BY <1>1, <1>2, <1>3, <1>4, <1>5 DEF Untouched, StopsNamed, NoOperation
<1>8. engine[r]["motion"] = "none"
  BY <1>1, <1>2 DEF Motions, MotionOf
<1>9. ASSUME NEW q \in Requests PROVE MotionOf(q)' /\ ~(Portable /\ MayStillRun(q, "motion")')
  <2>1. CASE q = r
    <3>1. ~MayStillRun(r, "motion")'
      BY <1>3, <1>8 DEF MayStillRun, Running
    <3>2. MotionOf(r)'
      BY <1>3, <1>4, <1>5, <1>8, VisualJobAssumption DEF MotionOf
    <3> QED BY <2>1, <3>1, <3>2
  <2>2. CASE q # r
    <3>1. MotionOf(q)'
      BY <1>1, <1>3, <1>5, <2>2 DEF MotionOf, Motions
    <3>2. at[q] \in Idle
      BY <1>1, <1>2 DEF Slot
    <3>3. Portable => ~MayStillRun(q, "motion")
      BY <1>1, <1>2, <3>2 DEF Covered, CoveredOf, Idle
    <3>4. MayStillRun(q, "motion")' <=> MayStillRun(q, "motion")
      BY <1>3 DEF MayStillRun
    <3> QED BY <3>1, <3>3, <3>4
  <2> QED BY <2>1, <2>2
<1> QED BY <1>6, <1>7, <1>9 DEF Motions, Covered, CoveredOf

LEMMA AdmitKeeps ==
    ASSUME IInv, Admit
    PROVE  (Slot /\ Untouched /\ StopsNamed /\ Motions /\ Covered)'
<1>1. TypeOK /\ Slot /\ Untouched
  BY DEF IInv, SlotInv
<1>2. PICK r \in Requests : r = operation.request
  BY <1>1 DEF Admit, Untouched
<1>3. at[r] = "none" /\ activeId = None /\ unconfirmed = None
  BY <1>1, <1>2 DEF Admit, Slot, Untouched
<1>4. operation.speak \in BOOLEAN /\ operation.allowMove \in BOOLEAN
  BY <1>1 DEF TypeOK, Operation
<1>5. /\ Register(r, operation.speak, operation.allowMove) /\ operation' = NoOperation
      /\ UNCHANGED <<unconfirmed, world>>
  BY <1>2 DEF Admit
<1> QED BY <1>3, <1>4, <1>5, RegisterKeeps

LEMMA RestopReturnsKeeps ==
    ASSUME IInv, RestopReturns
    PROVE  (Slot /\ Untouched /\ StopsNamed /\ Motions /\ Covered)'
<1>1. TypeOK /\ Slot /\ Untouched /\ StopsNamed /\ Motions /\ Covered /\ None \notin Requests
  BY VisualJobAssumption DEF IInv, SlotInv
<1>2. /\ UNCHANGED <<at, activeId, world>> /\ activeId = None
      /\ unconfirmed' \in {None, unconfirmed}
  BY <1>1 DEF RestopReturns, Slot
<1>3. /\ operation'.kind = "start" =>
            operation.kind = "start" /\ operation'.request = operation.request
      /\ operation'.cancelled \in {None, operation.cancelled}
      /\ operation'.stage \in {"none", "drained"}
      /\ operation'.stage = "drained" => operation'.kind = "start"
      /\ operation'.kind = "none" => operation'.stage = "none"
  BY <1>1 DEF RestopReturns, NoOperation, TypeOK, Operation, Untouched
<1>4. CASE UNCHANGED <<jobs, unconfirmed>>
  <2>1. Motions' /\ Covered'
    BY <1>1, <1>2, <1>4, MotionsStay
  <2> QED BY <1>1, <1>2, <1>3, <1>4, <2>1
          DEF Slot, Untouched, StopsNamed, TypeOK, Operation
<1>5. CASE /\ unconfirmed # None => Confirmable(unconfirmed)
           /\ jobs' = [q \in Requests |-> IF q = unconfirmed
                         THEN [jobs[q] EXCEPT !.stopConfirmed = "yes"] ELSE jobs[q]]
           /\ unconfirmed' = None
  <2>1. ASSUME NEW q \in Requests
        PROVE  /\ jobs'[q].status = jobs[q].status /\ jobs'[q].command = jobs[q].command
               /\ jobs'[q].rejected = jobs[q].rejected
               /\ jobs'[q].retired = jobs[q].retired /\ jobs'[q].speech = jobs[q].speech
               /\ jobs'[q].stopFor = jobs[q].stopFor
               /\ jobs'[q].stopConfirmed = IF q = unconfirmed THEN "yes"
                                           ELSE jobs[q].stopConfirmed
    BY <1>1, <1>5 DEF TypeOK, Job
  <2>2. (Slot /\ StopsNamed)'
    BY <1>1, <1>2, <1>3, <1>5, <2>1 DEF Slot, StopsNamed
  <2>3. Untouched'
    BY <1>1, <1>2, <1>3, <1>5, <2>1 DEF Untouched, TypeOK, Operation
  <2>4. ASSUME NEW q \in Requests PROVE MotionOf(q)' /\ ~(Portable /\ MayStillRun(q, "motion")')
    <3>1. engine' = engine /\ cancelledIds' = cancelledIds /\ at' = at /\ at[q] \in Idle
      BY <1>1, <1>2 DEF world, Slot
    <3>2. MotionOf(q) /\ (Portable => CoveredOf(q))
      BY <1>1 DEF Motions, Covered
    <3>3. MotionOf(q)'
      BY <2>1, <3>1, <3>2 DEF MotionOf, Idle
    <3>4. Portable => ~MayStillRun(q, "motion")
      BY <1>1, <1>5, <3>1, <3>2, ConfirmableOver DEF CoveredOf, Idle
    <3>5. MayStillRun(q, "motion")' <=> MayStillRun(q, "motion")
      BY <3>1 DEF MayStillRun
    <3> QED BY <3>3, <3>4, <3>5
  <2> QED BY <2>2, <2>3, <2>4 DEF Motions, Covered, CoveredOf
<1> QED BY <1>4, <1>5 DEF RestopReturns

\* A motion is posted only by the active job, which waits for its dispatch.
LEMMA PostKeeps ==
    ASSUME IInv, NEW r \in Requests, PostMotion(r)
    PROVE  (Slot /\ Untouched /\ StopsNamed /\ Motions /\ Covered)'
<1>1. TypeOK /\ Slot /\ Untouched /\ StopsNamed /\ Motions /\ Covered
  BY DEF IInv, SlotInv
<1>2. /\ at[r] = "dispatch" /\ engine[r]["motion"] = "none"
      /\ UNCHANGED <<jobs, at, activeId, unconfirmed, operation, cancelledIds>>
      /\ engine'[r]["motion"] = "sent"
      /\ \A q \in Requests \ {r} : engine'[q] = engine[q]
  BY <1>1 DEF PostMotion, TypeOK, Kinds
<1>3. (Slot /\ Untouched /\ StopsNamed)'
  BY <1>1, <1>2 DEF Slot, Untouched, StopsNamed
<1>4. MotionOf(r)' /\ CoveredOf(r)'
  <2>1. MotionOf(r)
    BY <1>1 DEF Motions
  <2> QED BY <1>2, <2>1 DEF MotionOf, CoveredOf, Ended
<1>5. ASSUME NEW q \in Requests \ {r} PROVE MotionOf(q)' /\ (Portable => CoveredOf(q)')
  BY <1>1, <1>2 DEF Motions, Covered, MotionOf, CoveredOf, MayStillRun
<1> QED BY <1>3, <1>4, <1>5 DEF Motions, Covered

LEMMA VisualInvInit == Init => IInv
<1> SUFFICES ASSUME Init PROVE IInv
  OBVIOUS
<1>1. TypeOK /\ None \notin Requests
  BY VisualTypeInit, VisualJobAssumption
<1>2. Slot /\ Untouched /\ StopsNamed
  BY <1>1 DEF Init, Slot, Untouched, StopsNamed, Idle, NoOperation, NoJob
<1>3. Motions /\ Covered
  BY VisualJobAssumption
     DEF Init, Motions, Covered, MotionOf, CoveredOf, MayStillRun, Running, NoJob, Kinds
<1> QED BY <1>1, <1>2, <1>3 DEF IInv, SlotInv

LEMMA VisualInvStep == IInv /\ [Next]_vars => IInv'
<1> SUFFICES ASSUME IInv, [Next]_vars PROVE IInv'
  OBVIOUS
<1>1. TypeOK /\ TypeOK'
  BY VisualTypeStep DEF IInv, SlotInv
<1>2. ASSUME (Slot /\ Untouched /\ StopsNamed /\ Motions /\ Covered)' PROVE IInv'
  BY <1>1, <1>2 DEF IInv, SlotInv
<1>3. ASSUME NEW r \in Requests, Carried(r) PROVE IInv'
  BY <1>1, <1>3, CarriedInv
<1>4. CASE Callers
  BY <1>1, <1>2, <1>4, StartKeeps, CancelKeeps, DrainedKeeps, RestopKeeps, AdmitKeeps,
     RestopReturnsKeeps DEF Callers, Finishing
<1>5. ASSUME NEW r \in Requests, Step(r) PROVE IInv'
  BY <1>3, <1>5, StepCarries
<1>6. ASSUME NEW r \in Requests, ForwardCancel(r) \/ ResourceTrip(r) PROVE IInv'
  <2>1. /\ Interrupted(r) /\ UNCHANGED <<activeId, operation, world>>
        /\ at[r] \notin Idle
    BY <1>6 DEF ForwardCancel, ResourceTrip, InTry, InHandler, Idle
  <2> QED BY <1>3, <2>1, InterruptedCarries
<1>7. ASSUME NEW r \in Requests, PostMotion(r) PROVE IInv'
  BY <1>2, <1>7, PostKeeps
<1>8. ASSUME NEW r \in Requests, StopDelivered(r) PROVE IInv'
  BY <1>1, <1>8, StopSubsides, SubsidesInv
<1>9. ASSUME NEW r \in Requests, NEW k \in Kinds,
             Deliver(r, k) \/ Lose(r, k) \/ EngineEnds(r, k)
      PROVE  IInv'
  BY <1>1, <1>9, EngineSubsides, SubsidesInv
<1>10. CASE UNCHANGED vars
  BY <1>10 DEF vars, IInv, SlotInv, TypeOK, Slot, Untouched, StopsNamed, Motions, Covered,
       MotionOf, CoveredOf, MayStillRun
<1> QED BY <1>4, <1>5, <1>6, <1>7, <1>8, <1>9, <1>10 DEF Next

LEMMA VisualInvariant == Spec => []IInv
<1> QED BY VisualInvInit, VisualInvStep, PTL DEF Spec

-----------------------------------------------------------------------------
(* The properties of the runs, for every instance                          *)

\* The service's fields, the coroutines' locations and the avatar keep their types,
\* for any requests, with or without the portable adapter and the resource monitor.
THEOREM JobTypes == Spec => []TypeOK
<1>1. IInv => TypeOK
  BY DEF IInv, SlotInv
<1> QED BY <1>1, VisualInvariant, PTL

\* However start() and cancel() interleave with jobs that end, fail, are cancelled or
\* trip the budget, one coroutine runs at a time and owns the request slot.
THEOREM OneOwnerAlways == Spec => []OneOwner
<1>1. IInv => OneOwner
  BY VisualJobAssumption DEF IInv, SlotInv, Slot, OneOwner, Idle
<1> QED BY <1>1, VisualInvariant, PTL

\* A job is left in status arrived only after the avatar completed its motion, on the
\* portable and on the direct path.
THEOREM ArrivalsAreReal == Spec => []ArrivalIsReal
<1>1. IInv => ArrivalIsReal
  BY DEF IInv, Motions, MotionOf, ArrivalIsReal
<1> QED BY <1>1, VisualInvariant, PTL

\* Whichever await a cancellation hits and however late a POST arrives, a motion that
\* may move the avatar belongs to the active job or to the unconfirmed stop.
THEOREM MotionsAccountedFor ==
    ASSUME Portable
    PROVE  Spec => []MotionAccountedFor
<1>1. IInv => MotionAccountedFor
  BY DEF IInv, SlotInv, Slot, Idle, Covered, CoveredOf, MotionAccountedFor
<1> QED BY <1>1, VisualInvariant, PTL

\* A job that speaks has nothing left to stop: its motion is over.
THEOREM SpeechAfterMotion ==
    ASSUME Portable
    PROVE  Spec => []SpeechFollowsMotion
<1>1. IInv => SpeechFollowsMotion
  BY DEF IInv, Covered, CoveredOf, SpeechFollowsMotion
<1> QED BY <1>1, VisualInvariant, PTL

\* What a released job records of its outcome stays.
LEMMA OutcomeStays ==
    ASSUME IInv, [Next]_vars, NEW r \in Requests,
           at[r] = "released", jobs[r].status \in Terminal
    PROVE  jobs'[r].status = jobs[r].status /\ jobs'[r].speechStatus = jobs[r].speechStatus
<1>1. TypeOK /\ Untouched /\ jobs[r] \in Job
  BY DEF IInv, SlotInv, TypeOK
<1>2. StopBegun(jobs[r]).status = jobs[r].status
      /\ StopBegun(jobs[r]).speechStatus = jobs[r].speechStatus
  BY <1>1, StopBegunFields
<1>3. CASE jobs'[r] \in {jobs[r], StopBegun(jobs[r]),
                         [jobs[r] EXCEPT !.stopConfirmed = "yes"]}
  BY <1>1, <1>2, <1>3 DEF Job
<1>4. ASSUME NEW q \in Requests, Step(q) \/ ForwardCancel(q) \/ ResourceTrip(q)
      PROVE  jobs'[r] = jobs[r]
  <2>1. CASE Step(q)
    BY <2>1, StepCarries DEF Carried, Moves, Idle
  <2>2. CASE ForwardCancel(q) \/ ResourceTrip(q)
    <3>1. Interrupted(q) /\ q # r
      BY <2>2 DEF ForwardCancel, ResourceTrip, InTry, InHandler
    <3> QED BY <1>1, <3>1, InterruptedFields
  <2> QED BY <1>4, <2>1, <2>2
<1>5. CASE Callers
  <2>1. CASE Admit
    <3>1. operation.request # r
      BY <1>1, <2>1 DEF Untouched, Admit
    <3> QED BY <1>1, <2>1, <3>1 DEF Admit, Register, TypeOK
  <2>2. CASE \E q \in Requests : CancelEnter(q)
    <3>1. jobs'[r] \in {jobs[r], StopBegun(jobs[r])}
      BY <1>1, <2>2 DEF CancelEnter, TypeOK
    <3> QED BY <1>3, <3>1
  <2>3. CASE Restop
    <3>1. jobs'[r] \in {jobs[r], StopBegun(jobs[r])}
      BY <1>1, <2>3 DEF Restop, TypeOK
    <3> QED BY <1>3, <3>1
  <2>4. CASE RestopReturns
    <3>1. jobs'[r] \in {jobs[r], [jobs[r] EXCEPT !.stopConfirmed = "yes"]}
      BY <1>1, <2>4 DEF RestopReturns, TypeOK
    <3> QED BY <1>3, <3>1
  <2>5. CASE Drained
    BY <1>1, <2>5 DEF Drained, TypeOK
  <2>6. CASE \E q \in Requests : \E call \in Calls[q] : StartEnter(q, call)
    BY <2>6 DEF StartEnter
  <2> QED BY <1>5, <2>1, <2>2, <2>3, <2>4, <2>5, <2>6 DEF Callers, Finishing
<1>6. ASSUME NEW q \in Requests,
             \/ PostMotion(q) \/ StopDelivered(q)
             \/ \E k \in Kinds : Deliver(q, k) \/ Lose(q, k) \/ EngineEnds(q, k)
      PROVE  jobs'[r] = jobs[r]
  BY <1>6 DEF PostMotion, StopDelivered, Deliver, Lose, EngineEnds
<1>7. CASE UNCHANGED vars
  BY <1>7 DEF vars
<1> QED BY <1>4, <1>5, <1>6, <1>7 DEF Next

\* A released job keeps its outcome: what start() and cancel() do to it later concerns
\* its stop only.
THEOREM OutcomesAreFinal == Spec => ReleasedIsFinal
<1>1. IInv /\ [Next]_vars =>
        [\A r \in Requests : at[r] = "released" /\ jobs[r].status \in Terminal =>
          jobs'[r].status = jobs[r].status /\ jobs'[r].speechStatus = jobs[r].speechStatus]_vars
  BY OutcomeStays
<1> QED BY <1>1, VisualInvariant, PTL DEF Spec, ReleasedIsFinal

\* A request gets a coroutine, and with it a job, at its admission only, and for good.
LEMMA OnlyAdmitRegisters ==
    ASSUME IInv, [Next]_vars, NEW r \in Requests, ~Admit
    PROVE  at'[r] = "none" <=> at[r] = "none"
<1>1. ASSUME NEW q \in Requests, Step(q) PROVE at'[r] = "none" <=> at[r] = "none"
  BY <1>1, StepCarries DEF Carried, Moves, Idle
<1>2. ASSUME NEW q \in Requests, ForwardCancel(q) \/ ResourceTrip(q)
      PROVE  at'[r] = "none" <=> at[r] = "none"
  <2>1. Interrupted(q) /\ at[q] # "none" /\ TypeOK
    BY <1>2 DEF ForwardCancel, ResourceTrip, InTry, InHandler, IInv, SlotInv
  <2> QED BY <2>1, InterruptedFields
<1>3. ASSUME NEW q \in Requests,
             \/ PostMotion(q) \/ StopDelivered(q)
             \/ \E k \in Kinds : Deliver(q, k) \/ Lose(q, k) \/ EngineEnds(q, k)
      PROVE  at' = at
  BY <1>3 DEF PostMotion, StopDelivered, Deliver, Lose, EngineEnds
<1>4. CASE Callers
  BY <1>4 DEF Callers, Finishing, StartEnter, CancelEnter, Drained, Restop, RestopReturns
<1>5. CASE UNCHANGED vars
  BY <1>5 DEF vars
<1> QED BY <1>1, <1>2, <1>3, <1>4, <1>5 DEF Next

\* A coroutine that is over, or not begun, stays so until its request is admitted.
LEMMA IdleStays ==
    ASSUME IInv, [Next]_vars, NEW r \in Requests, at[r] \in Idle,
           ~(Admit /\ operation.request = r)
    PROVE  at'[r] = at[r]
<1>1. TypeOK
  BY DEF IInv, SlotInv
<1>2. ASSUME NEW q \in Requests, Step(q) PROVE at'[r] = at[r]
  BY <1>2, StepCarries DEF Carried, Moves
<1>3. ASSUME NEW q \in Requests, ForwardCancel(q) \/ ResourceTrip(q) PROVE at'[r] = at[r]
  <2>1. Interrupted(q) /\ q # r
    BY <1>3 DEF ForwardCancel, ResourceTrip, InTry, InHandler, Idle
  <2> QED BY <1>1, <2>1, InterruptedFields
<1>4. ASSUME NEW q \in Requests,
             \/ PostMotion(q) \/ StopDelivered(q)
             \/ \E k \in Kinds : Deliver(q, k) \/ Lose(q, k) \/ EngineEnds(q, k)
      PROVE  at' = at
  BY <1>4 DEF PostMotion, StopDelivered, Deliver, Lose, EngineEnds
<1>5. CASE Admit
  BY <1>1, <1>5 DEF Admit, Register, TypeOK
<1>6. CASE Callers /\ ~Admit
  BY <1>6 DEF Callers, Finishing, StartEnter, CancelEnter, Drained, Restop, RestopReturns
<1>7. CASE UNCHANGED vars
  BY <1>7 DEF vars
<1> QED BY <1>2, <1>3, <1>4, <1>5, <1>6, <1>7 DEF Next

\* A request that was not admitted has no job that anything could change.
LEMMA UntouchedStays ==
    ASSUME IInv, [Next]_vars, NEW r \in Requests, at[r] = "none",
           ~(Admit /\ operation.request = r)
    PROVE  jobs'[r] = jobs[r]
<1>1. TypeOK /\ Slot /\ Untouched /\ None \notin Requests
  BY VisualJobAssumption DEF IInv, SlotInv
<1>2. ASSUME NEW q \in Requests, Step(q) PROVE jobs'[r] = jobs[r]
  BY <1>2, StepCarries DEF Carried, Moves, Idle
<1>3. ASSUME NEW q \in Requests, ForwardCancel(q) \/ ResourceTrip(q) PROVE jobs'[r] = jobs[r]
  <2>1. Interrupted(q) /\ q # r
    BY <1>3 DEF ForwardCancel, ResourceTrip, InTry, InHandler, Idle
  <2> QED BY <1>1, <2>1, InterruptedFields
<1>4. ASSUME NEW q \in Requests,
             \/ PostMotion(q) \/ StopDelivered(q)
             \/ \E k \in Kinds : Deliver(q, k) \/ Lose(q, k) \/ EngineEnds(q, k)
      PROVE  jobs' = jobs
  BY <1>4 DEF PostMotion, StopDelivered, Deliver, Lose, EngineEnds
<1>5. CASE Callers
  <2>1. CASE Admit
    BY <1>1, <2>1 DEF Admit, Register, TypeOK
  <2>2. ASSUME NEW q \in Requests, CancelEnter(q) PROVE jobs'[r] = jobs[r]
    <3>1. activeId = None => q # r
      BY <1>1, <2>2 DEF CancelEnter, Untouched
    <3> QED BY <1>1, <2>2, <3>1 DEF CancelEnter, TypeOK
  <2>3. CASE Restop
    <3>1. unconfirmed # r
      BY <1>1, <2>3 DEF Restop, Untouched
    <3> QED BY <1>1, <2>3, <3>1 DEF Restop, TypeOK
  <2>4. CASE RestopReturns
    <3>1. unconfirmed # r
      BY <1>1 DEF Untouched
    <3> QED BY <1>1, <2>4, <3>1 DEF RestopReturns, TypeOK
  <2>5. CASE Drained
    <3>1. operation.cancelled # r
      BY <1>1 DEF Untouched
    <3> QED BY <1>1, <2>5, <3>1 DEF Drained, TypeOK
  <2>6. CASE \E q \in Requests : \E call \in Calls[q] : StartEnter(q, call)
    BY <2>6 DEF StartEnter
  <2> QED BY <1>5, <2>1, <2>2, <2>3, <2>4, <2>5, <2>6 DEF Callers, Finishing
<1>6. CASE UNCHANGED vars
  BY <1>6 DEF vars
<1> QED BY <1>2, <1>3, <1>4, <1>5, <1>6 DEF Next

\* Nothing is admitted while a motion of an earlier request may still move the avatar.
THEOREM AdmissionsAreQuiet ==
    ASSUME Portable
    PROVE  Spec => AdmissionIsQuiet
<1>1. ASSUME IInv, Next, NEW r \in Requests,
             jobs[r].status = "none", jobs'[r].status # "none"
      PROVE  Admit
  BY <1>1, VisualInvStep, OnlyAdmitRegisters DEF IInv, SlotInv, Untouched
<1>2. ASSUME IInv, Admit
      PROVE  unconfirmed = None /\ \A q \in Requests : ~MayStillRun(q, "motion")
  BY <1>2, VisualJobAssumption DEF Admit, IInv, SlotInv, Slot, Idle, Covered, CoveredOf
<1>3. IInv /\ [Next]_vars =>
        [\A r \in Requests : jobs[r].status = "none" /\ jobs'[r].status # "none" =>
          /\ unconfirmed = None
          /\ \A q \in Requests : ~MayStillRun(q, "motion")]_vars
  BY <1>1, <1>2
<1> QED BY <1>3, VisualInvariant, PTL DEF Spec, AdmissionIsQuiet

-----------------------------------------------------------------------------
(* The service implements OwnedMotion                                      *)

\* The abstract owner of r's motion, as KeepsOwnership maps it.
OwnerOf(r) ==
    IF jobs[r].status = "none" THEN "free"
    ELSE IF r \in {activeId, unconfirmed} THEN "held" ELSE "released"

Owners == [r \in Requests |-> OwnerOf(r)]
Moving == [r \in Requests |-> MayStillRun(r, "motion")]

\* At most one request holds a motion, and no other motion may move the avatar.
LEMMA OneHolder ==
    ASSUME Portable, IInv, NEW r \in Requests
    PROVE  /\ MayStillRun(r, "motion") => r \in {activeId, unconfirmed}
           /\ r \in {activeId, unconfirmed} =>
                 /\ jobs[r].status # "none"
                 /\ \A q \in Requests \ {r} : q \notin {activeId, unconfirmed}
<1>1. Slot /\ Untouched /\ CoveredOf(r) /\ None \notin Requests
  BY VisualJobAssumption DEF IInv, SlotInv, Covered
<1> QED BY <1>1 DEF Slot, Untouched, Idle, CoveredOf

\* Apart from an admission the slot is only given up, or passed to the unconfirmed stop.
LEMMA SlotShrinks ==
    ASSUME IInv, [Next]_vars, ~Admit
    PROVE  {activeId', unconfirmed'} \subseteq {None, activeId, unconfirmed}
<1>1. TypeOK /\ Slot /\ None \notin Requests
  BY VisualJobAssumption DEF IInv, SlotInv
<1>2. ASSUME NEW r \in Requests, Carried(r)
      PROVE  {activeId', unconfirmed'} \subseteq {None, activeId, unconfirmed}
  BY <1>1, <1>2 DEF Carried, Moves, Slot
<1>3. ASSUME NEW r \in Requests, ForwardCancel(r) \/ ResourceTrip(r)
      PROVE  Carried(r)
  BY <1>3, InterruptedCarries DEF ForwardCancel, ResourceTrip, InTry, InHandler, Idle
<1>4. CASE Callers
  BY <1>4 DEF Callers, Finishing, StartEnter, CancelEnter, Drained, Restop, RestopReturns,
       UnconfirmedAfter
<1>5. ASSUME NEW r \in Requests,
             \/ PostMotion(r) \/ StopDelivered(r)
             \/ \E k \in Kinds : Deliver(r, k) \/ Lose(r, k) \/ EngineEnds(r, k)
      PROVE  UNCHANGED <<activeId, unconfirmed>>
  BY <1>5 DEF PostMotion, StopDelivered, Deliver, Lose, EngineEnds
<1>6. CASE UNCHANGED vars
  BY <1>6 DEF vars
<1> QED BY <1>2, <1>3, <1>4, <1>5, <1>6, StepCarries DEF Next

\* Apart from a POST no motion may start that could not start before.
LEMMA OnlyPostsMove ==
    ASSUME IInv, [Next]_vars, NEW r \in Requests, MayStillRun(r, "motion")'
    PROVE  PostMotion(r) \/ MayStillRun(r, "motion")
<1>1. TypeOK
  BY DEF IInv, SlotInv
<1>2. ASSUME NEW q \in Requests, Carried(q) PROVE MayStillRun(r, "motion")
  BY <1>2, KeptRuns DEF Carried, Moves
<1>3. ASSUME NEW q \in Requests, ForwardCancel(q) \/ ResourceTrip(q) PROVE Carried(q)
  BY <1>3, InterruptedCarries DEF ForwardCancel, ResourceTrip, InTry, InHandler, Idle
<1>4. CASE Callers
  <2>1. UNCHANGED world
    BY <1>4 DEF Callers, Finishing, StartEnter, CancelEnter, Drained, Restop, Admit,
         RestopReturns
  <2> QED BY <2>1 DEF world, MayStillRun
<1>5. ASSUME NEW q \in Requests, PostMotion(q), q # r PROVE MayStillRun(r, "motion")
  BY <1>1, <1>5 DEF PostMotion, MayStillRun, TypeOK
<1>6. ASSUME Subsides PROVE MayStillRun(r, "motion")
  BY <1>6 DEF Subsides
<1>7. CASE UNCHANGED vars
  BY <1>7 DEF vars, MayStillRun
<1> QED BY <1>1, <1>2, <1>3, <1>4, <1>5, <1>6, <1>7, StepCarries, EngineSubsides,
           StopSubsides DEF Next

LEMMA OwnedInitially == Init => Owned!OwnedInit
  BY VisualJobAssumption
     DEF Init, NoJob, Owned!OwnedInit, MayStillRun, Running, Kinds

\* Every step of the service is a claim, a dispatch, a release, the end of some motions
\* or nothing at all.
LEMMA OwnedStep ==
    ASSUME Portable, IInv, [Next]_vars
    PROVE  [Owned!OwnedNext]_(Owned!ownedVars)
<1>0. IInv' /\ TypeOK /\ None \notin Requests
  BY VisualInvStep, VisualJobAssumption DEF IInv, SlotInv
<1>1. \A r \in Requests : MayStillRun(r, "motion")' => r \in {activeId', unconfirmed'}
  BY <1>0 DEF IInv, SlotInv, Slot, Idle, Covered, CoveredOf
<1>2. \A r \in Requests : r \in {activeId', unconfirmed'} =>
          \A q \in Requests \ {r} : q \notin {activeId', unconfirmed'}
  BY <1>0 DEF IInv, SlotInv, Slot
<1>3. ASSUME Admit, NEW r \in Requests, r = operation.request
      PROVE  Owned!Claim(r)
  <2>1. /\ UNCHANGED <<unconfirmed, world>> /\ activeId' = r /\ at[r] = "none"
        /\ activeId = None /\ unconfirmed = None
        /\ jobs[r].status = "none" /\ jobs'[r].status # "none"
        /\ \A q \in Requests \ {r} : jobs'[q] = jobs[q]
    BY <1>0, <1>3 DEF Admit, Register, IInv, SlotInv, Slot, Untouched, TypeOK, Idle, NoJob
  <2>2. Owners[r] = "free" /\ Owners' = [Owners EXCEPT ![r] = "held"]
    BY <1>0, <2>1 DEF Owners, OwnerOf
  <2>3. Moving' = Moving
    BY <2>1 DEF Moving, MayStillRun, world
  <2> QED BY <2>2, <2>3 DEF Owned!Claim, Owners, OwnerOf, Moving
<1>4. ASSUME NEW r \in Requests, PostMotion(r)
      PROVE  Owned!Dispatch(r) \/ UNCHANGED <<Owners, Moving>>
  <2>1. /\ UNCHANGED <<jobs, activeId, unconfirmed, cancelledIds>> /\ activeId = r
        /\ engine[r]["motion"] = "none" /\ engine'[r]["motion"] = "sent"
        /\ \A q \in Requests \ {r} : engine'[q] = engine[q]
    BY <1>0, <1>4 DEF PostMotion, IInv, SlotInv, Slot, Idle, TypeOK, Kinds
  <2>2. Owners[r] = "held" /\ Owners' = Owners
    BY <1>0, <2>1 DEF Owners, OwnerOf, IInv, SlotInv, Untouched, Slot, Idle
  <2>3. CASE <<r, "motion">> \notin cancelledIds
    <3>1. Moving' = [Moving EXCEPT ![r] = TRUE]
      BY <2>1, <2>3 DEF Moving, MayStillRun
    <3> QED BY <2>2, <3>1 DEF Owned!Dispatch, Owners, OwnerOf, Moving
  <2>4. CASE <<r, "motion">> \in cancelledIds
    <3>1. Moving' = Moving
      BY <2>1, <2>4 DEF Moving, MayStillRun, Running
    <3> QED BY <2>2, <3>1
  <2> QED BY <2>3, <2>4
<1>5. CASE ~Admit /\ \A r \in Requests : ~PostMotion(r)
  <2>1. \A r \in Requests : jobs'[r].status = "none" <=> jobs[r].status = "none"
    BY <1>0, <1>5, OnlyAdmitRegisters DEF IInv, SlotInv, Untouched
  <2>2. \A r \in Requests : r \in {activeId', unconfirmed'} => r \in {activeId, unconfirmed}
    BY <1>0, <1>5, SlotShrinks
  <2>3. \A r \in Requests : MayStillRun(r, "motion")' => MayStillRun(r, "motion")
    BY <1>5, OnlyPostsMove
  <2>4. CASE \A r \in Requests : r \in {activeId, unconfirmed} => r \in {activeId', unconfirmed'}
    <3> DEFINE ended == {r \in Requests : ~MayStillRun(r, "motion")'}
    <3>1. Owners' = Owners
      BY <2>1, <2>2, <2>4 DEF Owners, OwnerOf
    <3>2. Moving' = [r \in Requests |-> Moving[r] /\ r \notin ended]
      BY <2>3 DEF Moving, MayStillRun
    <3>3. Owned!Cease(ended)
      BY <3>1, <3>2 DEF Owned!Cease, Owners, OwnerOf, Moving
    <3> QED BY <3>3 DEF Owned!OwnedNext
  <2>5. ASSUME NEW r \in Requests,
               r \in {activeId, unconfirmed}, r \notin {activeId', unconfirmed'}
        PROVE  Owned!Release(r)
    <3>1. /\ jobs[r].status # "none"
          /\ \A q \in Requests \ {r} : q \notin {activeId, unconfirmed}
      BY <2>5, OneHolder
    <3>2. Owners[r] = "held" /\ Owners' = [Owners EXCEPT ![r] = "released"]
      BY <2>1, <2>2, <2>5, <3>1 DEF Owners, OwnerOf
    <3>3. ASSUME NEW q \in Requests
          PROVE  /\ ~MayStillRun(q, "motion")'
                 /\ q # r => ~MayStillRun(q, "motion")
      BY <1>1, <2>2, <2>5, <3>1, OneHolder
    <3>4. Moving' = [Moving EXCEPT ![r] = FALSE]
      BY <3>3 DEF Moving, MayStillRun
    <3> QED BY <3>2, <3>4 DEF Owned!Release, Owners, OwnerOf, Moving
  <2> QED BY <2>4, <2>5 DEF Owned!OwnedNext
<1>6. CASE Admit
  <2>1. operation.request \in Requests
    BY <1>0, <1>6 DEF Admit, IInv, SlotInv, Untouched
  <2>2. PICK r \in Requests : r = operation.request
    BY <2>1
  <2> QED BY <1>3, <1>6, <2>2 DEF Owned!OwnedNext
<1>7. ASSUME NEW r \in Requests, PostMotion(r)
      PROVE  [Owned!OwnedNext]_(Owned!ownedVars)
  BY <1>4, <1>7 DEF Owned!OwnedNext, Owned!ownedVars, Owners, OwnerOf, Moving
<1> QED BY <1>5, <1>6, <1>7

\* The service implements OwnedMotion: every motion is claimed by one request before it is
\* dispatched, moves only while that request holds it, and is let go of once, at rest.
THEOREM ImplementsOwnedMotion ==
    ASSUME Portable
    PROVE  Spec => KeepsOwnership
<1>1. IInv /\ [Next]_vars => [Owned!OwnedNext]_(Owned!ownedVars)
  BY OwnedStep
<1> QED BY <1>1, OwnedInitially, VisualInvariant, PTL DEF Spec, KeepsOwnership, Owned!OwnedSpec
=============================================================================
