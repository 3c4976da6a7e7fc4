--------------------------- MODULE AutonomyProofs ---------------------------
(***************************************************************************)
(* Proofs about the supervisor on top of the job service.  The invariant   *)
(* of the service is kept by the supervisor's own admissions too, and with *)
(* it every visual action of the supervisor is counted once, a counted     *)
(* success stands, and human motions go first.                             *)
(*                                                                         *)
(* The second half is about the one timer loop, and the lock where it      *)
(* runs.  WorkerInv says of each process what the properties leave out:    *)
(* that the handle and the lock go together and follow the task; that a    *)
(* cancelled task which is not over has somebody who waits for it, so that *)
(* its end makes a stop() ready; and that in a process that did not race,  *)
(* a stop() which resumes finds nothing alive.  What one callback leaves   *)
(* in the queue is said once, by Ran.                                      *)
(***************************************************************************)
EXTENDS Autonomy, SupervisorWorker, VisualJobProofs, SequenceTheorems

-----------------------------------------------------------------------------
(* The supervisor's account of its requests                                 *)

\* What the supervisor knows of its own request: it is pending from its admission until
\* it is counted, and it is counted when nothing can change its outcome any more.
Account(r) ==
    /\ jobs[r].status = "none" => pending # r /\ collected[r] = 0
    /\ jobs[r].status # "none" => pending = r \/ collected[r] = 1
    /\ collected[r] <= 1
    /\ pending = r => collected[r] = 0
    /\ succeeded[r] =>
          /\ at[r] = "released" /\ jobs[r].status \in Terminal
          /\ jobs[r].status = IF intent[r] = "move" THEN "arrived" ELSE "observed"

\* A tick past its beginning has nothing pending, it reaches an admission with a spatial
\* plan, and start() is never asked for a request of the supervisor.
Routine ==
    /\ tick # "idle" => pending = None
    /\ tick = "admission" => plan \in Spatial
    /\ operation.kind = "start" => operation.request \notin Automatic

Accounts == \A r \in Automatic : Account(r)

AutonomyInv == IInv /\ SupervisorTypeOK /\ Routine /\ Accounts

-----------------------------------------------------------------------------
(* The steps of the supervisor                                             *)

LEMMA AutonomyInvInit == AutonomyInit => AutonomyInv
<1> SUFFICES ASSUME AutonomyInit PROVE AutonomyInv
  OBVIOUS
<1>1. IInv /\ None \notin Automatic
  BY VisualInvInit, VisualJobAssumption, AutonomyAssumption DEF AutonomyInit
<1>2. SupervisorTypeOK
  <2>1. collected \in [Automatic -> 0..2]
    BY DEF AutonomyInit
  <2>2. intent \in [Automatic -> Spatial \cup {None}] /\ succeeded \in [Automatic -> BOOLEAN]
    BY DEF AutonomyInit
  <2> QED BY <2>1, <2>2 DEF AutonomyInit, SupervisorTypeOK
<1>3. Routine
  BY DEF AutonomyInit, Routine, Init, NoOperation
<1>4. ASSUME NEW r \in Automatic PROVE Account(r)
  BY <1>1, AutonomyAssumption DEF AutonomyInit, Account, Init, NoJob
<1> QED BY <1>1, <1>2, <1>3, <1>4 DEF AutonomyInv, Accounts

\* What the supervisor does without touching the service.
Alone ==
    \/ Collect \/ TickBegins \/ ResourcesRead \/ RequestsRead \/ Planned \/ Recheck
    \/ WorkDone \/ StopSupervisor \/ Chat

\* A settled job is released for good, with the status that is counted.
LEMMA SettledIsReleased ==
    ASSUME IInv, NEW r \in Requests, Settled(r)
    PROVE  at[r] = "released" /\ jobs[r].status \in Terminal
  BY DEF Settled, TaskRunning, IInv, SlotInv, Untouched, Terminal

LEMMA CollectKeeps ==
    ASSUME AutonomyInv, Collect
    PROVE  SupervisorTypeOK' /\ Routine' /\ Accounts'
<1>1. /\ SupervisorTypeOK /\ Routine /\ Accounts /\ IInv /\ None \notin Automatic
      /\ Automatic \subseteq Requests
  BY VisualJobAssumption, AutonomyAssumption DEF AutonomyInv
<1>2. PICK r \in Automatic : r = pending /\ Account(r)
  BY <1>1 DEF Collect, SupervisorTypeOK, Accounts
<1>3. at[r] = "released" /\ jobs[r].status \in Terminal
  BY <1>1, <1>2, SettledIsReleased DEF Collect
<1>4. collected' = [collected EXCEPT ![r] = 1] /\ collected[r] = 0
  BY <1>1, <1>2 DEF Collect, Account, SupervisorTypeOK
<1>5. PICK won \in BOOLEAN :
        /\ succeeded' = [succeeded EXCEPT ![r] = won]
        /\ won => jobs[r].status = IF intent[r] = "move" THEN "arrived" ELSE "observed"
  BY <1>1, <1>2 DEF Collect, SupervisorTypeOK
<1>6. /\ pending' = None /\ tick' = tick /\ plan' = plan /\ intent' = intent
      /\ chatting' = chatting /\ jobs' = jobs /\ at' = at /\ operation' = operation
  BY DEF Collect, vars
<1>7. SupervisorTypeOK' /\ Routine'
  BY <1>1, <1>4, <1>5, <1>6 DEF SupervisorTypeOK, Routine
<1>8. ASSUME NEW q \in Automatic PROVE Account(q)'
  <2>1. CASE q = r
    BY <1>1, <1>2, <1>3, <1>4, <1>5, <1>6, <2>1 DEF Account, SupervisorTypeOK, Terminal
  <2>2. CASE q # r
    BY <1>1, <1>2, <1>4, <1>5, <1>6, <2>2 DEF Account, Accounts, SupervisorTypeOK
  <2> QED BY <2>1, <2>2
<1> QED BY <1>7, <1>8 DEF Accounts

LEMMA AloneKeeps ==
    ASSUME AutonomyInv, Alone
    PROVE  AutonomyInv'
<1>1. IInv' /\ UNCHANGED vars
  <2>1. UNCHANGED vars
    BY DEF Alone, Collect, TickBegins, ResourcesRead, RequestsRead, Planned, Recheck,
           WorkDone, StopSupervisor, Chat
  <2> QED BY <2>1, VisualInvStep DEF AutonomyInv
<1>2. CASE Collect
  BY <1>1, <1>2, CollectKeeps DEF AutonomyInv
<1>3. CASE Alone /\ ~Collect
  <2>1. SupervisorTypeOK' /\ Routine'
    BY <1>1, <1>3
       DEF Alone, TickBegins, ResourcesRead, RequestsRead, Planned, Recheck, WorkDone,
           StopSupervisor, Chat, TickTo, AutonomyInv, SupervisorTypeOK, Routine, Awaits,
           vars, Spatial, Actions
  <2>2. UNCHANGED <<pending, intent, collected, succeeded>>
    BY <1>3
       DEF Alone, TickBegins, ResourcesRead, RequestsRead, Planned, Recheck, WorkDone,
           StopSupervisor, Chat
  <2>3. Accounts'
    BY <1>1, <2>2 DEF AutonomyInv, Accounts, Account, vars
  <2> QED BY <1>1, <2>1, <2>3 DEF AutonomyInv
<1> QED BY <1>2, <1>3

\* The supervisor's own request is admitted like a human one.
LEMMA AdmissionRegisters ==
    ASSUME AutonomyInv, Admission, jobs' # jobs \/ pending' # pending
    PROVE  \E r \in Automatic :
              /\ plan \in Spatial /\ jobs[r] = NoJob /\ at[r] = "none"
              /\ activeId = None /\ unconfirmed = None /\ operation = NoOperation
              /\ ~TaskRunning /\ ~chatting
              /\ Register(r, FALSE, plan = "move")
              /\ pending' = r /\ intent' = [intent EXCEPT ![r] = plan]
              /\ tick' = "idle" /\ plan' = None
              /\ UNCHANGED <<forwarded, unconfirmed, operation, blocked, world,
                             collected, succeeded, chatting>>
<1>1. /\ ~chatting /\ ~Busy /\ tick = "admission" /\ tick' = "idle" /\ plan' = None
      /\ UNCHANGED <<forwarded, unconfirmed, operation, blocked, world,
                     collected, succeeded, chatting>>
      /\ \E r \in Automatic :
            /\ jobs[r] = NoJob
            /\ Register(r, FALSE, plan = "move")
            /\ pending' = r
            /\ intent' = [intent EXCEPT ![r] = plan]
  BY DEF Admission, vars, TickTo
<1>2. \A r \in Automatic : jobs[r] = NoJob => at[r] = "none"
  BY AutonomyAssumption DEF AutonomyInv, IInv, SlotInv, Untouched, NoJob
<1> QED BY <1>1, <1>2 DEF Busy, AutonomyInv, Routine

LEMMA AdmissionKeeps ==
    ASSUME AutonomyInv, Admission
    PROVE  AutonomyInv'
<1>1. /\ SupervisorTypeOK /\ Routine /\ Accounts /\ IInv /\ TypeOK
      /\ None \notin Automatic /\ Automatic \subseteq Requests
  BY VisualJobAssumption, AutonomyAssumption DEF AutonomyInv, IInv, SlotInv
<1>2. CASE UNCHANGED <<pending, intent, vars>>
  <2>1. IInv' /\ UNCHANGED vars
    BY <1>1, <1>2, VisualInvStep
  <2>2. SupervisorTypeOK' /\ Routine' /\ Accounts'
    BY <1>1, <1>2
       DEF Admission, TickTo, SupervisorTypeOK, Routine, Accounts, Account, vars
  <2> QED BY <2>1, <2>2 DEF AutonomyInv
<1>3. CASE jobs' # jobs \/ pending' # pending
  <2>1. PICK r \in Automatic :
          /\ plan \in Spatial /\ jobs[r] = NoJob /\ at[r] = "none"
          /\ activeId = None /\ unconfirmed = None /\ operation = NoOperation
          /\ Register(r, FALSE, plan = "move")
          /\ pending' = r /\ intent' = [intent EXCEPT ![r] = plan]
          /\ tick' = "idle" /\ plan' = None
          /\ UNCHANGED <<forwarded, unconfirmed, operation, blocked, world,
                         collected, succeeded, chatting>>
    BY <1>3, AdmissionRegisters
  <2>2. (Slot /\ Untouched /\ StopsNamed /\ Motions /\ Covered)'
    BY <1>1, <2>1, RegisterKeeps
  <2>3. TypeOK'
    <3>1. \A move \in BOOLEAN :
            [NoJob EXCEPT !.status = "observing", !.speak = FALSE, !.allowMove = move] \in Job
      BY DEF NoJob, Job
    <3> QED BY <1>1, <2>1, <3>1 DEF Register, TypeOK, world, Locations, Outside, InTry
  <2>4. SupervisorTypeOK' /\ Routine'
    BY <1>1, <2>1 DEF SupervisorTypeOK, Routine, NoOperation
  <2>5. ASSUME NEW q \in Automatic PROVE Account(q)'
    <3>1. CASE q = r
      <4>1. jobs'[q].status = "observing" /\ collected[q] = 0 /\ ~succeeded[q]
        BY <1>1, <2>1, <3>1 DEF Register, TypeOK, NoJob, Accounts, Account
      <4> QED BY <2>1, <3>1, <4>1 DEF Account
    <3>2. CASE q # r
      <4>1. jobs'[q] = jobs[q] /\ at'[q] = at[q] /\ intent'[q] = intent[q] /\ pending # q
        BY <1>1, <2>1, <3>2, <1>3 DEF Register, TypeOK, SupervisorTypeOK, Admission, Routine
      <4> QED BY <1>1, <2>1, <3>2, <4>1 DEF Account, Accounts
    <3> QED BY <3>1, <3>2
  <2> QED BY <2>2, <2>3, <2>4, <2>5 DEF AutonomyInv, IInv, SlotInv, Accounts
<1>4. pending = None
  BY <1>1 DEF Admission, Routine
<1> QED BY <1>1, <1>2, <1>3, <1>4 DEF Admission

-----------------------------------------------------------------------------
(* The steps of the service, while the supervisor awaits                   *)

\* Only start() begins an operation for a request, and only for one that has calls.
LEMMA StartsAreHuman ==
    ASSUME AutonomyInv, Next
    PROVE  operation'.kind = "start" => operation'.request \notin Automatic
<1>1. IInv /\ TypeOK /\ Routine
  BY DEF AutonomyInv, IInv, SlotInv
<1>2. ASSUME NEW q \in Requests, Step(q) \/ ForwardCancel(q) \/ ResourceTrip(q)
      PROVE  operation' = operation
  BY <1>1, <1>2, StepCarries DEF Carried, Moves, ForwardCancel, ResourceTrip
<1>3. ASSUME NEW q \in Requests,
             \/ PostMotion(q) \/ StopDelivered(q)
             \/ \E k \in Kinds : Deliver(q, k) \/ Lose(q, k) \/ EngineEnds(q, k)
      PROVE  operation' = operation
  BY <1>3 DEF PostMotion, StopDelivered, Deliver, Lose, EngineEnds
<1>4. ASSUME NEW q \in Requests, NEW call \in Calls[q], StartEnter(q, call)
      PROVE  operation'.request \notin Automatic
  BY <1>4, AutonomyAssumption DEF StartEnter
<1>5. CASE Finishing \/ \E q \in Requests : CancelEnter(q)
  <2>1. CASE \E q \in Requests : CancelEnter(q)
    BY <2>1 DEF CancelEnter, NoOperation
  <2>2. CASE Finishing
    <3>1. \/ operation' = NoOperation
          \/ \E stage \in {"drained", "restop"} :
                operation' = [operation EXCEPT !.stage = stage]
      BY <2>2 DEF Finishing, Drained, Restop, Admit, RestopReturns
    <3> QED BY <1>1, <3>1 DEF NoOperation, TypeOK, Operation, Routine
  <2> QED BY <1>5, <2>1, <2>2
<1> QED BY <1>1, <1>2, <1>3, <1>4, <1>5 DEF Next, Callers, Routine

\* Nothing the service does takes back, or gives out, what the supervisor accounts for.
LEMMA ServiceKeepsAccount ==
    ASSUME AutonomyInv, Next, UNCHANGED supervisor, NEW r \in Automatic
    PROVE  Account(r)'
<1>1. /\ r \in Requests /\ IInv /\ IInv' /\ Untouched /\ Untouched' /\ Account(r) /\ Routine
  BY AutonomyAssumption, VisualInvStep DEF AutonomyInv, IInv, SlotInv, Accounts
<1>2. ~(Admit /\ operation.request = r)
  BY <1>1 DEF Admit, Untouched, Routine
<1>3. jobs'[r].status = "none" <=> jobs[r].status = "none"
  <2>1. CASE ~Admit
    BY <1>1, <2>1, OnlyAdmitRegisters DEF Untouched
  <2>2. CASE Admit
    BY <1>1, <1>2, <2>2 DEF Admit, Register, IInv, SlotInv, TypeOK
  <2> QED BY <2>1, <2>2
<1>4. at[r] = "released" /\ jobs[r].status \in Terminal =>
        at'[r] = "released" /\ jobs'[r].status = jobs[r].status
  BY <1>1, <1>2, OutcomeStays, IdleStays DEF Idle
<1> QED BY <1>1, <1>3, <1>4 DEF Account, supervisor

LEMMA ServiceKeeps ==
    ASSUME AutonomyInv, Next, UNCHANGED supervisor
    PROVE  AutonomyInv'
<1>1. IInv'
  BY VisualInvStep DEF AutonomyInv
<1>2. SupervisorTypeOK'
  BY DEF AutonomyInv, SupervisorTypeOK, supervisor
<1>3. Routine'
  BY StartsAreHuman DEF AutonomyInv, Routine, supervisor
<1>4. Accounts'
  BY ServiceKeepsAccount DEF Accounts
<1> QED BY <1>1, <1>2, <1>3, <1>4 DEF AutonomyInv

LEMMA AutonomyInvStep == AutonomyInv /\ [AutonomyNext]_allVars => AutonomyInv'
<1> SUFFICES ASSUME AutonomyInv, [AutonomyNext]_allVars PROVE AutonomyInv'
  OBVIOUS
<1>1. CASE UNCHANGED allVars
  <2>1. IInv' /\ UNCHANGED vars /\ UNCHANGED supervisor
    BY <1>1, VisualInvStep DEF AutonomyInv, allVars
  <2> QED BY <2>1 DEF AutonomyInv, SupervisorTypeOK, Routine, Accounts, Account, vars,
                      supervisor
<1>2. CASE Next /\ UNCHANGED supervisor
  BY <1>2, ServiceKeeps
<1>3. CASE TickStep \/ StopSupervisor \/ Chat
  BY <1>3, AloneKeeps, AdmissionKeeps DEF TickStep, Alone
<1> QED BY <1>1, <1>2, <1>3 DEF AutonomyNext

LEMMA AutonomyInvariant == AutonomySpec => []AutonomyInv
<1> QED BY AutonomyInvInit, AutonomyInvStep, PTL DEF AutonomySpec

-----------------------------------------------------------------------------
(* The properties of the run, for every instance                           *)

\* The supervisor's fields keep their types at every await, and a plan that is executed
\* names a known action.
THEOREM SupervisorTypes == AutonomySpec => []SupervisorTypeOK
<1>1. AutonomyInv => SupervisorTypeOK
  BY DEF AutonomyInv
<1> QED BY <1>1, AutonomyInvariant, PTL

\* However ticks, stop() and human requests interleave, a visual action that was admitted
\* is pending or counted, and is counted once.
THEOREM ActionsCountedOnce == AutonomySpec => []CountedOnce
<1>1. AutonomyInv => CountedOnce
  BY DEF AutonomyInv, Accounts, Account, CountedOnce
<1> QED BY <1>1, AutonomyInvariant, PTL

\* The job keeps the status its success was counted for, whatever start(), cancel() and
\* the resource monitor do afterwards.
THEOREM SuccessesStand == AutonomySpec => []CountedSuccessStands
<1>1. AutonomyInv => CountedSuccessStands
  BY DEF AutonomyInv, Accounts, Account, CountedSuccessStands
<1> QED BY <1>1, AutonomyInvariant, PTL

\* With an empty slot and no stop to confirm no motion can move the avatar.
LEMMA NotBusyIsStill ==
    ASSUME Portable, IInv, ~Busy
    PROVE  (\A r \in Requests : ~MayStillRun(r, "motion")) /\ operation = NoOperation
<1>1. activeId = None /\ unconfirmed = None /\ operation = NoOperation
  BY DEF Busy
<1>2. ASSUME NEW r \in Requests PROVE ~MayStillRun(r, "motion")
  BY <1>1, <1>2, VisualJobAssumption DEF IInv, SlotInv, Slot, Idle, Covered, CoveredOf
<1> QED BY <1>1, <1>2

\* Only the supervisor's own admission gives one of its requests a job.
LEMMA AutomaticJobs ==
    ASSUME AutonomyInv, [AutonomyNext]_allVars, NEW r \in Automatic,
           jobs[r] = NoJob, jobs'[r] # NoJob
    PROVE  Admission /\ jobs' # jobs
<1>1. /\ r \in Requests /\ IInv /\ Untouched /\ Routine /\ at[r] = "none"
  BY AutonomyAssumption DEF AutonomyInv, IInv, SlotInv, Untouched, NoJob
<1>2. ~(Next /\ UNCHANGED supervisor)
  <2>1. ~(Admit /\ operation.request = r)
    BY <1>1 DEF Admit, Untouched, Routine
  <2> QED BY <1>1, <2>1, UntouchedStays
<1>3. ~Alone
  BY DEF Alone, Collect, TickBegins, ResourcesRead, RequestsRead, Planned, Recheck,
         WorkDone, StopSupervisor, Chat, vars
<1> QED BY <1>2, <1>3 DEF AutonomyNext, TickStep, Alone, allVars, vars

\* A body command is posted, and a visual job of the supervisor is admitted, only while
\* nothing a human asked for moves the avatar or waits to be admitted.
THEOREM HumansGoFirst ==
    ASSUME Portable
    PROVE  AutonomySpec => HumansFirst
<1>1. ASSUME AutonomyInv, [AutonomyNext]_allVars,
             tick' = "working", plan' = "body", tick # "working"
      PROVE  ~Busy /\ ~chatting
  <2>1. "body" # None
    BY AutonomyAssumption DEF Actions
  <2>2. Recheck
    BY <1>1, <2>1 DEF AutonomyNext, TickStep, Collect, TickBegins, ResourcesRead,
       RequestsRead, Planned, Admission, WorkDone, StopSupervisor, Chat, TickTo, allVars,
       supervisor
  <2> QED BY <1>1, <2>2 DEF Recheck, TickTo
<1>2. ASSUME AutonomyInv, [AutonomyNext]_allVars,
             NEW r \in Automatic, jobs[r] = NoJob, jobs'[r] # NoJob
      PROVE  ~Busy /\ ~chatting
  BY <1>2, AutomaticJobs, AdmissionRegisters DEF Busy
<1>3. AutonomyInv /\ [AutonomyNext]_allVars =>
        [(tick' = "working" /\ plan' = "body" /\ tick # "working")
          \/ (\E r \in Automatic : jobs[r] = NoJob /\ jobs'[r] # NoJob) =>
       /\ \A r \in Requests : ~MayStillRun(r, "motion")
       /\ operation = NoOperation /\ ~chatting]_allVars
  BY <1>1, <1>2, NotBusyIsStill DEF AutonomyInv
<1> QED BY <1>3, AutonomyInvariant, PTL DEF AutonomySpec, HumansFirst

-----------------------------------------------------------------------------
(* SupervisorWorker: one loop, and the lock where it runs                   *)

Live == {"created", "looping"}

\* A process has the handle of the lock while it holds it, from start() until its task is
\* forgotten or its loop ends.
LockFollows(p) == (handle[p] <=> flock = p) /\ (flock = p => task[p] # 0)

\* The task that self._task holds, and every task that was cancelled, was created.
TasksBegan(p) ==
    /\ task[p] # 0 => workers[p][task[p]] # "none"
    /\ \A id \in doomed[p] : workers[p][id] # "none"

\* Somebody waits for a task that was cancelled and is not done yet.
DoomedAwaited(p) ==
    \A id \in Ids : id \in doomed[p] /\ workers[p][id] \in Live => awaiting[p][id] > 0

\* In a process that did not race, a task that may loop is the one that self._task holds.
LiveIsHeld(p) ==
    p \notin raced =>
        \A id \in Ids : workers[p][id] \in Live => task[p] = id /\ flock = p

\* There, a stop() that will resume finds no task: what it forgets is over.
ResumesAlone(p) ==
    p \notin raced /\ IsReady(p, <<"resume", 0>>) =>
        \A id \in Ids : workers[p][id] \notin Live

\* LockIsUsed, of one process.
LockHasUse(p) ==
    flock = p => \/ \E id \in Ids : workers[p][id] = "looping" \/ IsReady(p, <<"step", id>>)
                 \/ IsReady(p, <<"resume", 0>>)

WorkerInvOf(p) ==
    /\ LockFollows(p) /\ TasksBegan(p) /\ DoomedAwaited(p) /\ LiveIsHeld(p)
    /\ ResumesAlone(p) /\ LockHasUse(p)

WorkerInv == WorkerTypeOK /\ \A p \in Processes : WorkerInvOf(p)
\* A queue after its head was run: the rest of it and what became ready, nothing else.
Served(queue, more, next) ==
    /\ next \in Seq(Callbacks)
    /\ \A i \in DOMAIN queue : queue[i] # Head(queue) => \E j \in DOMAIN next : next[j] = queue[i]
    /\ \A i \in DOMAIN more : \E j \in DOMAIN next : next[j] = more[i]
    /\ \A j \in DOMAIN next :
          (\E i \in DOMAIN queue : queue[i] = next[j]) \/ (\E i \in DOMAIN more : more[i] = next[j])

LEMMA QueueServed ==
    ASSUME NEW queue \in Seq(Callbacks), queue # <<>>, NEW more \in Seq(Callbacks)
    PROVE  Served(queue, more, Tail(queue) \o more)
<1> DEFINE next == Tail(queue) \o more
<1>1. /\ Tail(queue) \in Seq(Callbacks) /\ Len(Tail(queue)) = Len(queue) - 1 /\ Head(queue) = queue[1]
      /\ \A j \in 1..(Len(queue) - 1) : Tail(queue)[j] = queue[j + 1]
      /\ Len(queue) \in Nat /\ Len(queue) > 0 /\ DOMAIN queue = 1..Len(queue)
      /\ Len(more) \in Nat /\ DOMAIN more = 1..Len(more)
  OBVIOUS
<1>2. /\ next \in Seq(Callbacks) /\ DOMAIN next = 1..(Len(queue) - 1 + Len(more))
      /\ \A j \in 1..(Len(queue) - 1) : next[j] = queue[j + 1]
      /\ \A j \in Len(queue)..(Len(queue) - 1 + Len(more)) : next[j] = more[j - (Len(queue) - 1)]
  BY <1>1
<1> HIDE DEF next
<1>3. ASSUME NEW i \in DOMAIN queue, queue[i] # Head(queue)
      PROVE  \E j \in DOMAIN next : next[j] = queue[i]
  <2>1. i - 1 \in 1..(Len(queue) - 1) /\ (i - 1) + 1 = i
    BY <1>1, <1>3
  <2>2. next[i - 1] = queue[i] /\ i - 1 \in DOMAIN next
    BY <1>1, <1>2, <2>1
  <2> QED BY <2>2
<1>4. ASSUME NEW i \in DOMAIN more PROVE \E j \in DOMAIN next : next[j] = more[i]
  <2> DEFINE j == i + (Len(queue) - 1)
  <2>1. j \in Len(queue)..(Len(queue) - 1 + Len(more)) /\ j - (Len(queue) - 1) = i /\ j \in DOMAIN next
    BY <1>1, <1>2
  <2> QED BY <1>2, <2>1
<1>5. ASSUME NEW j \in DOMAIN next
      PROVE  (\E i \in DOMAIN queue : queue[i] = next[j]) \/ (\E i \in DOMAIN more : more[i] = next[j])
  <2>1. CASE j \in 1..(Len(queue) - 1)
    <3>1. j + 1 \in DOMAIN queue /\ queue[j + 1] = next[j]
      BY <1>1, <1>2, <2>1
    <3> QED BY <3>1
  <2>2. CASE j \in Len(queue)..(Len(queue) - 1 + Len(more))
    <3>1. j - (Len(queue) - 1) \in DOMAIN more /\ more[j - (Len(queue) - 1)] = next[j]
      BY <1>1, <1>2, <2>2
    <3> QED BY <3>1
  <2> QED BY <1>1, <1>2, <2>1, <2>2
<1> QED BY <1>2, <1>3, <1>4, <1>5 DEF Served, next

\* One callback c ran and made more ready: what is ready now.
IsNow(p, callback) == \E i \in DOMAIN ready'[p] : ready'[p][i] = callback

Ran(p, c, more) ==
    /\ ready' \in [Processes -> Seq(Callbacks)]
    /\ \A q \in Processes \ {p} : ready'[q] = ready[q]
    /\ \A i \in DOMAIN ready[p] : ready[p][i] # c => IsNow(p, ready[p][i])
    /\ \A i \in DOMAIN more : IsNow(p, more[i])
    /\ \A j \in DOMAIN ready'[p] :
          IsReady(p, ready'[p][j]) \/ \E i \in DOMAIN more : more[i] = ready'[p][j]

LEMMA QueueRan ==
    ASSUME WorkerTypeOK, NEW p \in Processes, NEW c, Now(p, c),
           NEW more \in Seq(Callbacks), Queue(p, more)
    PROVE  Ran(p, c, more) /\ IsReady(p, c)
<1>1. /\ ready[p] \in Seq(Callbacks) /\ ready[p] # <<>> /\ Head(ready[p]) = c
      /\ ready' = [ready EXCEPT ![p] = Tail(ready[p]) \o more]
      /\ ready \in [Processes -> Seq(Callbacks)]
  BY DEF WorkerTypeOK, Now, Queue
<1>2. ready'[p] = Tail(ready[p]) \o more /\ \A q \in Processes \ {p} : ready'[q] = ready[q]
  BY <1>1
<1>3. 1 \in DOMAIN ready[p] /\ ready[p][1] = c
  BY <1>1
<1>4. Served(ready[p], more, ready'[p])
  BY <1>1, <1>2, QueueServed
<1>5. ready' \in [Processes -> Seq(Callbacks)]
  BY <1>1, <1>2, <1>4 DEF Served
<1> QED BY <1>1, <1>2, <1>3, <1>4, <1>5 DEF Ran, IsReady, IsNow, Served

LEMMA RanReady ==
    ASSUME NEW p \in Processes, NEW c, NEW more, Ran(p, c, more), NEW d
    PROVE  /\ d # c /\ IsReady(p, d) => IsNow(p, d)
           /\ IsNow(p, d) => IsReady(p, d) \/ \E i \in DOMAIN more : more[i] = d
           /\ \A i \in DOMAIN more : IsNow(p, more[i])
  BY DEF Ran, IsReady, IsNow

\* A process touches what is its own only, and the lock only when it is free or its own.
OnlyHere(p) ==
    \A q \in Processes \ {p} :
        /\ ready'[q] = ready[q] /\ workers'[q] = workers[q] /\ doomed'[q] = doomed[q]
        /\ awaiting'[q] = awaiting[q] /\ task'[q] = task[q] /\ handle'[q] = handle[q]
        /\ flock' = q <=> flock = q
        /\ q \in raced' <=> q \in raced

LEMMA OthersKeep ==
    ASSUME WorkerInv, NEW p \in Processes, OnlyHere(p), WorkerTypeOK', WorkerInvOf(p)'
    PROVE  WorkerInv'
<1>1. ASSUME NEW q \in Processes \ {p} PROVE WorkerInvOf(q)'
  <2>1. WorkerInvOf(q)
    BY DEF WorkerInv
  <2> QED BY <2>1 DEF WorkerInvOf, OnlyHere, LockFollows, TasksBegan, DoomedAwaited, LiveIsHeld,
             ResumesAlone, LockHasUse, IsReady
<1> QED BY <1>1 DEF WorkerInv

LEMMA WorkerInvInit == WorkerInit => WorkerInv
<1> SUFFICES ASSUME WorkerInit PROVE WorkerInv
  OBVIOUS
<1>1. WorkerTypeOK
  BY WorkerAssumption DEF WorkerInit, WorkerTypeOK, States
<1>2. ASSUME NEW p \in Processes PROVE WorkerInvOf(p)
  BY WorkerAssumption
     DEF WorkerInit, WorkerInvOf, LockFollows, TasksBegan, DoomedAwaited, LiveIsHeld, ResumesAlone,
         LockHasUse, Live
<1> QED BY <1>1, <1>2 DEF WorkerInv

-----------------------------------------------------------------------------
(* The callbacks of a loop                                                 *)

LEMMA CallKeeps ==
    ASSUME WorkerInv, NEW p \in Processes, NEW kind \in {"start", "stop"}, Call(p, kind)
    PROVE  WorkerInv'
<1>1. WorkerTypeOK /\ WorkerInvOf(p)
  BY DEF WorkerInv
<1>2. <<kind, 0>> \in Callbacks
  BY DEF Callbacks
<1>3. /\ ready'[p] = Append(ready[p], <<kind, 0>>) /\ ready[p] \in Seq(Callbacks)
      /\ ready' \in [Processes -> Seq(Callbacks)]
  BY <1>1, <1>2 DEF Call, WorkerTypeOK
<1>4. /\ \A i \in DOMAIN ready[p] : i \in DOMAIN ready'[p] /\ ready'[p][i] = ready[p][i]
      /\ \A i \in DOMAIN ready'[p] : i \in DOMAIN ready[p] \/ ready'[p][i] = <<kind, 0>>
  BY <1>3
<1>5. \A d : d # <<kind, 0>> => (IsReady(p, d) <=> IsNow(p, d))
  BY <1>4 DEF IsReady, IsNow
<1>6. /\ IsReady(p, <<"resume", 0>>) <=> IsNow(p, <<"resume", 0>>)
      /\ \A id \in Ids : IsReady(p, <<"step", id>>) <=> IsNow(p, <<"step", id>>)
  <2>1. <<"resume", 0>> # <<kind, 0>> /\ \A id \in Ids : <<"step", id>> # <<kind, 0>>
    OBVIOUS
  <2> QED BY <1>5, <2>1
<1>7. WorkerInvOf(p)'
  BY <1>1, <1>6 DEF Call, WorkerInvOf, LockFollows, TasksBegan, DoomedAwaited, LiveIsHeld, ResumesAlone,
     LockHasUse, IsReady, IsNow
<1>8. WorkerTypeOK' /\ OnlyHere(p)
  BY <1>1, <1>3 DEF Call, WorkerTypeOK, OnlyHere
<1> QED BY <1>7, <1>8, OthersKeep

\* The resumptions and the steps that were ready stay so, or are what just ran.
LEMMA RanKeeps ==
    ASSUME NEW p \in Processes, NEW c, NEW more, Ran(p, c, more)
    PROVE  /\ c # <<"resume", 0>> /\ IsReady(p, <<"resume", 0>>) => IsNow(p, <<"resume", 0>>)
           /\ IsNow(p, <<"resume", 0>>) =>
                 \/ IsReady(p, <<"resume", 0>>)
                 \/ \E i \in DOMAIN more : more[i] = <<"resume", 0>>
           /\ \A id \in Ids : c # <<"step", id>> /\ IsReady(p, <<"step", id>>) =>
                                 IsNow(p, <<"step", id>>)
           /\ \A i \in DOMAIN more : IsNow(p, more[i])
  BY RanReady

LEMMA StartRefusedKeeps ==
    ASSUME WorkerInv, NEW p \in Processes, StartRefused(p)
    PROVE  WorkerInv'
<1>1. WorkerTypeOK /\ WorkerInvOf(p)
  BY DEF WorkerInv
<1>2. Ran(p, <<"start", 0>>, <<>>)
  <2>1. <<>> \in Seq(Callbacks)
    OBVIOUS
  <2> QED BY <1>1, <2>1, QueueRan DEF StartRefused
<1>3. /\ IsNow(p, <<"resume", 0>>) <=> IsReady(p, <<"resume", 0>>)
      /\ \A id \in Ids : IsReady(p, <<"step", id>>) => IsNow(p, <<"step", id>>)
  BY <1>2, RanKeeps
<1>5. WorkerInvOf(p)'
  BY <1>1, <1>3 DEF StartRefused, WorkerInvOf, LockFollows, TasksBegan, DoomedAwaited,
     LiveIsHeld, ResumesAlone, LockHasUse, IsReady, IsNow
<1>4. WorkerTypeOK' /\ OnlyHere(p)
  BY <1>1, <1>2 DEF StartRefused, Ran, WorkerTypeOK, OnlyHere
<1> QED BY <1>4, <1>5, OthersKeep

\* start() with its process lock: the task it creates is the only one that may loop,
\* unless a stop() is about to resume.
LEMMA LoopStartKeeps ==
    ASSUME WorkerInv, NEW p \in Processes, Start(p)
    PROVE  WorkerInv'
<1>1. WorkerTypeOK /\ WorkerInvOf(p) /\ \A q \in Processes : WorkerInvOf(q)
  BY DEF WorkerInv
<1>2. PICK new \in Ids :
        /\ workers[p][new] = "none"
        /\ workers' = [workers EXCEPT ![p][new] = "created"]
        /\ task' = [task EXCEPT ![p] = new] /\ event' = [event EXCEPT ![p] = new]
        /\ Queue(p, <<<<"step", new>>>>)
  BY DEF Start
<1>3. <<<<"step", new>>>> \in Seq(Callbacks)
  BY DEF Callbacks
<1>4. Ran(p, <<"start", 0>>, <<<<"step", new>>>>)
  BY <1>1, <1>2, <1>3, QueueRan DEF Start
<1>5. IsNow(p, <<"step", new>>)
  <2>1. 1 \in DOMAIN <<<<"step", new>>>> /\ <<<<"step", new>>>>[1] = <<"step", new>>
    OBVIOUS
  <2> QED BY <1>4, <2>1, RanKeeps
<1>6. IsNow(p, <<"resume", 0>>) => IsReady(p, <<"resume", 0>>)
  <2>1. \A i \in DOMAIN <<<<"step", new>>>> : <<<<"step", new>>>>[i] # <<"resume", 0>>
    OBVIOUS
  <2> QED BY <1>4, <2>1, RanKeeps
<1>7. /\ ~TaskRuns(p) /\ (flock = p \/ flock = Nobody)
      /\ handle' = [handle EXCEPT ![p] = TRUE] /\ flock' = p
      /\ raced' = IF IsReady(p, <<"resume", 0>>) THEN raced \cup {p} ELSE raced
      /\ UNCHANGED <<doomed, awaiting>>
  BY <1>1 DEF Start, WorkerInvOf, LockFollows
<1>8. p \notin raced => \A id \in Ids : workers[p][id] \notin Live
  BY <1>1, <1>7 DEF WorkerInvOf, LiveIsHeld, TaskRuns, Live, Ids, WorkerTypeOK
<1>9. \A id \in Ids : workers'[p][id] = IF id = new THEN "created" ELSE workers[p][id]
  BY <1>1, <1>2 DEF WorkerTypeOK
<1>10. WorkerTypeOK' /\ OnlyHere(p)
  <2>1. new \in 0..MaxWorkers /\ raced' \in SUBSET Processes
    BY <1>1, <1>7, WorkerAssumption DEF Ids, WorkerTypeOK
  <2>2. WorkerTypeOK'
    BY <1>1, <1>2, <1>4, <1>7, <2>1 DEF Ran, WorkerTypeOK, States
  <2>3. OnlyHere(p)
    BY <1>1, <1>2, <1>4, <1>7, WorkerAssumption DEF Ran, WorkerTypeOK, OnlyHere
  <2> QED BY <2>2, <2>3
<1>11. LockFollows(p)' /\ LockHasUse(p)'
  BY <1>1, <1>2, <1>5, <1>7 DEF LockFollows, LockHasUse, WorkerTypeOK, Ids, IsReady, IsNow
<1>12. LiveIsHeld(p)' /\ ResumesAlone(p)'
  BY <1>1, <1>2, <1>6, <1>7, <1>8, <1>9
     DEF LiveIsHeld, ResumesAlone, WorkerTypeOK, IsReady, IsNow
<1>13. DoomedAwaited(p)' /\ TasksBegan(p)'
  BY <1>1, <1>2, <1>7, <1>9 DEF DoomedAwaited, TasksBegan, WorkerInvOf, WorkerTypeOK
<1> QED BY <1>10, <1>11, <1>12, <1>13, OthersKeep DEF WorkerInvOf

\* What stop() forgets at its end.
LEMMA Forgotten ==
    ASSUME WorkerInv, NEW p \in Processes, Forget(p)
    PROVE  /\ task' = [task EXCEPT ![p] = 0] /\ event' = [event EXCEPT ![p] = 0]
           /\ handle' = [handle EXCEPT ![p] = FALSE]
           /\ flock' # p /\ flock' \in Processes \cup {Nobody}
           /\ \A q \in Processes \ {p} : flock' = q <=> flock = q
<1>1. WorkerTypeOK /\ WorkerInvOf(p)
  BY DEF WorkerInv
<1> QED BY <1>1, WorkerAssumption
        DEF Forget, ReleaseLock, WorkerInvOf, LockFollows, WorkerTypeOK

LEMMA StopKeeps ==
    ASSUME WorkerInv, NEW p \in Processes, Stop(p)
    PROVE  WorkerInv'
<1>1. WorkerTypeOK /\ WorkerInvOf(p)
  BY DEF WorkerInv
<1>2. CASE TaskRuns(p)
  <2> DEFINE id == task[p]
             more == IF IsReady(p, <<"step", id>>) THEN <<>> ELSE <<<<"step", id>>>>
  <2>1. id \in Ids /\ workers[p][id] \in Live
    <3>1. id \in 0..MaxWorkers /\ id # 0
      BY <1>1, <1>2 DEF TaskRuns, WorkerTypeOK
    <3>2. id \in Ids
      BY <3>1, WorkerAssumption DEF Ids
    <3>3. workers[p][id] \in States
      BY <1>1, <3>2 DEF WorkerTypeOK
    <3> QED BY <1>1, <1>2, <3>1, <3>2, <3>3 DEF TaskRuns, WorkerInvOf, TasksBegan, States, Live
  <2>2. /\ doomed' = [doomed EXCEPT ![p] = doomed[p] \cup {id}]
        /\ awaiting' = [awaiting EXCEPT ![p][id] = awaiting[p][id] + 1]
        /\ Now(p, <<"stop", 0>>) /\ Queue(p, more)
        /\ UNCHANGED <<task, event, handle, flock, workers, raced>>
    BY <1>1, <1>2 DEF Stop, WorkerTypeOK
  <2>3. more \in Seq(Callbacks) /\ \A i \in DOMAIN more : more[i] # <<"resume", 0>>
    <3>1. <<>> \in Seq(Callbacks) /\ <<<<"step", id>>>> \in Seq(Callbacks)
      BY <2>1 DEF Callbacks
    <3> QED BY <3>1
  <2> HIDE DEF more
  <2>4. Ran(p, <<"stop", 0>>, more)
    BY <1>1, <2>2, <2>3, QueueRan
  <2>5. /\ IsNow(p, <<"resume", 0>>) <=> IsReady(p, <<"resume", 0>>)
        /\ \A j \in Ids : IsReady(p, <<"step", j>>) => IsNow(p, <<"step", j>>)
    BY <2>3, <2>4, RanKeeps
  <2>6. /\ doomed'[p] = doomed[p] \cup {id}
        /\ \A j \in Ids : awaiting'[p][j] = IF j = id THEN awaiting[p][id] + 1 ELSE awaiting[p][j]
        /\ awaiting[p][id] \in Nat
    BY <1>1, <2>1, <2>2 DEF WorkerTypeOK
  <2>7. DoomedAwaited(p)' /\ TasksBegan(p)'
    BY <1>1, <2>1, <2>2, <2>6 DEF WorkerInvOf, DoomedAwaited, TasksBegan, Live
  <2>8. LockFollows(p)' /\ LiveIsHeld(p)' /\ ResumesAlone(p)' /\ LockHasUse(p)'
    BY <1>1, <2>2, <2>5
       DEF WorkerInvOf, LockFollows, LiveIsHeld, ResumesAlone, LockHasUse, IsReady, IsNow
  <2> HIDE DEF id
  <2>9. WorkerTypeOK'
    <3>1. /\ doomed' \in [Processes -> SUBSET Ids]
          /\ awaiting' \in [Processes -> [Ids -> Nat]]
      BY <1>1, <2>1, <2>2, <2>6 DEF WorkerTypeOK
    <3> QED BY <1>1, <2>2, <2>4, <3>1 DEF Ran, WorkerTypeOK
  <2>10. OnlyHere(p)
    BY <1>1, <2>2, <2>4 DEF Ran, WorkerTypeOK, OnlyHere
  <2> QED BY <2>7, <2>8, <2>9, <2>10, OthersKeep DEF WorkerInvOf
<1>3. CASE ~TaskRuns(p)
  <2>1. /\ Forget(p) /\ Now(p, <<"stop", 0>>) /\ Queue(p, <<>>)
        /\ UNCHANGED <<doomed, awaiting, workers, raced>>
    BY <1>3 DEF Stop
  <2>2. Ran(p, <<"stop", 0>>, <<>>)
    <3>1. <<>> \in Seq(Callbacks)
      OBVIOUS
    <3> QED BY <1>1, <2>1, <3>1, QueueRan
  <2>3. p \notin raced => \A id \in Ids : workers[p][id] \notin Live
    BY <1>1, <1>3 DEF WorkerInvOf, LiveIsHeld, TaskRuns, Live, Ids, WorkerTypeOK
  <2>4. WorkerInvOf(p)'
    BY <1>1, <2>1, <2>3, Forgotten
       DEF WorkerInvOf, LockFollows, TasksBegan, DoomedAwaited, LiveIsHeld, ResumesAlone,
           LockHasUse, WorkerTypeOK
  <2>5. 0 \in 0..MaxWorkers
    BY WorkerAssumption
  <2>6. WorkerTypeOK'
    BY <1>1, <2>1, <2>2, <2>5, Forgotten DEF Ran, WorkerTypeOK
  <2>7. OnlyHere(p)
    BY <1>1, <2>1, <2>2, Forgotten DEF Ran, WorkerTypeOK, OnlyHere
  <2> QED BY <2>4, <2>6, <2>7, OthersKeep
<1> QED BY <1>2, <1>3

LEMMA StopResumesKeeps ==
    ASSUME WorkerInv, NEW p \in Processes, StopResumes(p)
    PROVE  WorkerInv'
<1>1. WorkerTypeOK /\ WorkerInvOf(p)
  BY DEF WorkerInv
<1>2. /\ Forget(p) /\ Now(p, <<"resume", 0>>) /\ Queue(p, <<>>)
      /\ UNCHANGED <<doomed, awaiting, workers, raced>>
  BY DEF StopResumes
<1>3. Ran(p, <<"resume", 0>>, <<>>) /\ IsReady(p, <<"resume", 0>>)
  <2>1. <<>> \in Seq(Callbacks)
    OBVIOUS
  <2> QED BY <1>1, <1>2, <2>1, QueueRan
<1>4. p \notin raced => \A id \in Ids : workers[p][id] \notin Live
  BY <1>1, <1>3 DEF WorkerInvOf, ResumesAlone
<1>5. WorkerInvOf(p)'
  BY <1>1, <1>2, <1>4, Forgotten
     DEF WorkerInvOf, LockFollows, TasksBegan, DoomedAwaited, LiveIsHeld, ResumesAlone,
         LockHasUse, WorkerTypeOK
<1>6. 0 \in 0..MaxWorkers
  BY WorkerAssumption
<1>7. WorkerTypeOK'
  BY <1>1, <1>2, <1>3, <1>6, Forgotten DEF Ran, WorkerTypeOK
<1>8. OnlyHere(p)
  BY <1>1, <1>2, <1>3, Forgotten DEF Ran, WorkerTypeOK, OnlyHere
<1> QED BY <1>5, <1>7, <1>8, OthersKeep


\* The end of task id: no task of an orderly process may loop any more, and each stop()
\* that waited for it is ready to resume.
LEMMA DoneKeeps ==
    ASSUME WorkerInv, NEW p \in Processes, NEW id \in Ids,
           Now(p, <<"step", id>>), workers[p][id] \in Live, Done(p, id),
           UNCHANGED <<doomed, task, event, raced>>
    PROVE  /\ WorkerTypeOK' <=> /\ handle' \in [Processes -> BOOLEAN]
                                /\ flock' \in Processes \cup {Nobody}
           /\ ready' \in [Processes -> Seq(Callbacks)]
           /\ \A q \in Processes \ {p} : /\ ready'[q] = ready[q] /\ workers'[q] = workers[q]
                                         /\ awaiting'[q] = awaiting[q]
           /\ TasksBegan(p)' /\ DoomedAwaited(p)' /\ LiveIsHeld(p)' /\ ResumesAlone(p)'
           /\ awaiting[p][id] > 0 => IsNow(p, <<"resume", 0>>)
           /\ IsReady(p, <<"resume", 0>>) => IsNow(p, <<"resume", 0>>)
           /\ \A j \in Ids \ {id} : /\ workers'[p][j] = workers[p][j]
                                    /\ IsReady(p, <<"step", j>>) => IsNow(p, <<"step", j>>)
<1> DEFINE more == [i \in 1..awaiting[p][id] |-> <<"resume", 0>>]
<1>1. WorkerTypeOK /\ WorkerInvOf(p)
  BY DEF WorkerInv
<1>2. awaiting[p][id] \in Nat /\ <<"resume", 0>> \in Callbacks
  BY <1>1 DEF WorkerTypeOK, Callbacks
<1>3. more \in Seq(Callbacks)
  <2>1. more \in [1..awaiting[p][id] -> Callbacks]
    BY <1>2
  <2> QED BY <1>2, <2>1, SeqDef
<1>4. /\ Queue(p, more)
      /\ workers' = [workers EXCEPT ![p][id] = "done"]
      /\ awaiting' = [awaiting EXCEPT ![p][id] = 0]
  BY DEF Done
<1>5. awaiting[p][id] > 0 => 1 \in DOMAIN more /\ more[1] = <<"resume", 0>>
  BY <1>2
<1> HIDE DEF more
<1>6. Ran(p, <<"step", id>>, more)
  BY <1>1, <1>3, <1>4, QueueRan
<1>7. /\ awaiting[p][id] > 0 => IsNow(p, <<"resume", 0>>)
      /\ IsReady(p, <<"resume", 0>>) => IsNow(p, <<"resume", 0>>)
      /\ \A j \in Ids \ {id} : IsReady(p, <<"step", j>>) => IsNow(p, <<"step", j>>)
  <2>1. <<"step", id>> # <<"resume", 0>> /\ \A j \in Ids \ {id} : <<"step", id>> # <<"step", j>>
    OBVIOUS
  <2> QED BY <1>5, <1>6, <2>1, RanKeeps
<1>8. /\ workers'[p][id] = "done" /\ \A j \in Ids \ {id} : workers'[p][j] = workers[p][j]
      /\ awaiting'[p][id] = 0 /\ \A j \in Ids \ {id} : awaiting'[p][j] = awaiting[p][j]
      /\ \A q \in Processes \ {p} : workers'[q] = workers[q] /\ awaiting'[q] = awaiting[q]
      /\ workers' \in [Processes -> [Ids -> States]] /\ awaiting' \in [Processes -> [Ids -> Nat]]
  BY <1>1, <1>4 DEF WorkerTypeOK, States
<1>9. p \notin raced => \A j \in Ids : workers'[p][j] \notin Live
  BY <1>1, <1>8 DEF WorkerInvOf, LiveIsHeld, Live
<1>10. LiveIsHeld(p)' /\ ResumesAlone(p)'
  BY <1>9 DEF LiveIsHeld, ResumesAlone
<1>11. DoomedAwaited(p)'
  BY <1>1, <1>8 DEF WorkerInvOf, DoomedAwaited, Live
<1>12. TasksBegan(p)'
  <2>1. /\ task'[p] # 0 => workers[p][task[p]] # "none"
        /\ \A j \in doomed'[p] : workers[p][j] # "none"
    BY <1>1 DEF WorkerInvOf, TasksBegan
  <2>2. \A j : workers[p][j] # "none" => workers'[p][j] # "none"
    BY <1>1, <1>4 DEF WorkerTypeOK
  <2> QED BY <2>1, <2>2 DEF TasksBegan
<1>13. WorkerTypeOK' <=> handle' \in [Processes -> BOOLEAN] /\ flock' \in Processes \cup {Nobody}
  BY <1>1, <1>6, <1>8 DEF WorkerTypeOK, Ran
<1> QED BY <1>6, <1>7, <1>8, <1>10, <1>11, <1>12, <1>13 DEF Ran

LEMMA WorkerBeginsKeeps ==
    ASSUME WorkerInv, NEW p \in Processes, NEW id \in Ids, WorkerBegins(p, id)
    PROVE  WorkerInv'
<1>1. WorkerTypeOK /\ WorkerInvOf(p)
  BY DEF WorkerInv
<1>2. /\ Now(p, <<"step", id>>) /\ workers[p][id] = "created" /\ workers[p][id] \in Live
      /\ UNCHANGED <<doomed, task, event, handle, flock, raced>>
  BY DEF WorkerBegins, Live
<1>3. CASE id \in doomed[p] \/ event[p] = 0
  <2>1. Done(p, id)
    BY <1>3 DEF WorkerBegins
  <2>2. flock = p => IsNow(p, <<"resume", 0>>)
    <3>1. flock = p => awaiting[p][id] > 0
      BY <1>1, <1>2, <1>3 DEF WorkerInvOf, LockFollows, DoomedAwaited, WorkerTypeOK
    <3> QED BY <1>2, <2>1, <3>1, DoneKeeps
  <2>3. LockHasUse(p)'
    BY <1>2, <2>2 DEF LockHasUse, IsReady, IsNow
  <2>4. LockFollows(p)'
    BY <1>1, <1>2 DEF WorkerInvOf, LockFollows
  <2>5. WorkerTypeOK' /\ OnlyHere(p)
    BY <1>1, <1>2, <2>1, DoneKeeps DEF WorkerTypeOK, OnlyHere
  <2>6. TasksBegan(p)' /\ DoomedAwaited(p)' /\ LiveIsHeld(p)' /\ ResumesAlone(p)'
    BY <1>2, <2>1, DoneKeeps
  <2> QED BY <2>3, <2>4, <2>5, <2>6, OthersKeep DEF WorkerInvOf
<1>4. CASE ~(id \in doomed[p] \/ event[p] = 0)
  <2>1. /\ workers' = [workers EXCEPT ![p][id] = "looping"]
        /\ Queue(p, <<>>) /\ UNCHANGED awaiting
    BY <1>4 DEF WorkerBegins
  <2>2. Ran(p, <<"step", id>>, <<>>)
    <3>1. <<>> \in Seq(Callbacks)
      OBVIOUS
    <3> QED BY <1>1, <1>2, <2>1, <3>1, QueueRan
  <2>3. IsNow(p, <<"resume", 0>>) => IsReady(p, <<"resume", 0>>)
    BY <2>2, RanKeeps
  <2>4. /\ workers'[p][id] = "looping" /\ \A j \in Ids \ {id} : workers'[p][j] = workers[p][j]
        /\ workers' \in [Processes -> [Ids -> States]]
        /\ \A q \in Processes \ {p} : workers'[q] = workers[q]
    BY <1>1, <2>1 DEF WorkerTypeOK, States
  <2>5. \A j \in Ids : workers'[p][j] \in Live <=> workers[p][j] \in Live
    BY <1>2, <2>4 DEF Live
  <2>6. LockHasUse(p)' /\ LockFollows(p)'
    BY <1>1, <1>2, <2>4 DEF LockHasUse, WorkerInvOf, LockFollows
  <2>7. DoomedAwaited(p)' /\ LiveIsHeld(p)' /\ ResumesAlone(p)'
    BY <1>1, <1>2, <2>1, <2>3, <2>5
       DEF WorkerInvOf, DoomedAwaited, LiveIsHeld, ResumesAlone, IsReady, IsNow
  <2>8. TasksBegan(p)'
    <3>1. \A j : workers[p][j] # "none" => workers'[p][j] # "none"
      BY <1>1, <2>1 DEF WorkerTypeOK
    <3> QED BY <1>1, <1>2, <3>1 DEF WorkerInvOf, TasksBegan
  <2>9. WorkerTypeOK' /\ OnlyHere(p)
    BY <1>1, <1>2, <2>1, <2>2, <2>4 DEF WorkerTypeOK, OnlyHere, Ran
  <2> QED BY <2>6, <2>7, <2>8, <2>9, OthersKeep DEF WorkerInvOf
<1> QED BY <1>3, <1>4

LEMMA WorkerEndsKeeps ==
    ASSUME WorkerInv, NEW p \in Processes, NEW id \in Ids, WorkerEnds(p, id)
    PROVE  WorkerInv'
<1>1. WorkerTypeOK /\ WorkerInvOf(p)
  BY DEF WorkerInv
<1>2. /\ Now(p, <<"step", id>>) /\ workers[p][id] \in Live /\ Done(p, id)
      /\ UNCHANGED <<doomed, task, event, raced>>
  BY DEF WorkerEnds, Live
<1>3. /\ handle' = [handle EXCEPT ![p] = FALSE]
      /\ flock' # p /\ flock' \in Processes \cup {Nobody}
      /\ \A q \in Processes \ {p} : flock' = q <=> flock = q
  BY <1>1, WorkerAssumption
     DEF WorkerEnds, ReleaseLock, WorkerInvOf, LockFollows, WorkerTypeOK
<1>4. LockFollows(p)' /\ LockHasUse(p)'
  BY <1>1, <1>3 DEF LockFollows, LockHasUse, WorkerTypeOK
<1>5. TasksBegan(p)' /\ DoomedAwaited(p)' /\ LiveIsHeld(p)' /\ ResumesAlone(p)'
  BY <1>2, DoneKeeps
<1>6. handle' \in [Processes -> BOOLEAN] /\ \A q \in Processes \ {p} : handle'[q] = handle[q]
  BY <1>1, <1>3 DEF WorkerTypeOK
<1>7. WorkerTypeOK' /\ OnlyHere(p)
  BY <1>2, <1>3, <1>6, DoneKeeps DEF OnlyHere
<1> QED BY <1>4, <1>5, <1>7, OthersKeep DEF WorkerInvOf

LEMMA CrashKeeps ==
    ASSUME WorkerInv, NEW p \in Processes, Crash(p)
    PROVE  WorkerInv'
<1>1. WorkerTypeOK
  BY DEF WorkerInv
<1>2. /\ ready'[p] = <<>> /\ workers'[p] = [id \in Ids |-> "none"] /\ doomed'[p] = {}
      /\ task'[p] = 0 /\ handle'[p] = FALSE /\ flock' # p
  BY <1>1, WorkerAssumption DEF Crash, Fresh, WorkerTypeOK
<1>3. WorkerInvOf(p)'
  BY <1>2 DEF WorkerInvOf, LockFollows, TasksBegan, DoomedAwaited, LiveIsHeld, ResumesAlone,
              LockHasUse, Live
<1>4. 0 \in 0..MaxWorkers
  BY WorkerAssumption
<1>5. WorkerTypeOK'
  BY <1>1, <1>4 DEF Crash, Fresh, WorkerTypeOK, States
<1>6. OnlyHere(p)
  BY <1>1, WorkerAssumption DEF Crash, Fresh, WorkerTypeOK, OnlyHere
<1> QED BY <1>3, <1>5, <1>6, OthersKeep

LEMMA WorkerInvStep == WorkerInv /\ [WorkerNext]_workerVars => WorkerInv'
<1> SUFFICES ASSUME WorkerInv, [WorkerNext]_workerVars PROVE WorkerInv'
  OBVIOUS
<1>1. CASE WorkerNext
  <2>1. PICK p \in Processes :
          \/ \E kind \in {"start", "stop"} : Call(p, kind)
          \/ StartRefused(p) \/ Start(p) \/ Stop(p) \/ StopResumes(p) \/ Crash(p)
          \/ \E id \in Ids : WorkerBegins(p, id) \/ WorkerEnds(p, id)
    BY <1>1 DEF WorkerNext
  <2> QED BY <2>1, CallKeeps, StartRefusedKeeps, LoopStartKeeps, StopKeeps, StopResumesKeeps,
             CrashKeeps, WorkerBeginsKeeps, WorkerEndsKeeps
<1>2. CASE UNCHANGED workerVars
  BY <1>2 DEF workerVars, WorkerInv, WorkerTypeOK, WorkerInvOf, LockFollows, TasksBegan,
              DoomedAwaited, LiveIsHeld, ResumesAlone, LockHasUse, IsReady
<1> QED BY <1>1, <1>2

LEMMA WorkerInvSuffices == WorkerInv => LoopsAreOwned
<1> SUFFICES ASSUME WorkerInv PROVE LoopsAreOwned
  OBVIOUS
<1>1. WorkerTypeOK /\ \A p \in Processes : WorkerInvOf(p)
  BY DEF WorkerInv
<1>2. LoopIsOwned
  BY <1>1 DEF LoopIsOwned, WorkerInvOf, LiveIsHeld, LockFollows, Live
<1>3. OneLoopUnlessRaced
  BY <1>2 DEF OneLoopUnlessRaced, LoopIsOwned
<1>4. LockIsUsed
  BY <1>1 DEF LockIsUsed, WorkerInvOf, LockFollows, LockHasUse
<1> QED BY <1>1, <1>2, <1>3, <1>4 DEF LoopsAreOwned

\* For any number of processes, of calls and of tasks: while no start() was served between
\* the end of a task and the stop() that waited for it, one timer loop runs at a time, it
\* is the one that the next stop() would cancel, and the lock is where it runs; and the
\* lock is never left behind (start, stop and _worker of autonomy_supervisor.py).
THEOREM LoopsAlwaysOwned == WorkerSpec => []LoopsAreOwned
<1>1. WorkerInit => WorkerInv
  BY WorkerInvInit
<1>2. WorkerInv /\ [WorkerNext]_workerVars => WorkerInv'
  BY WorkerInvStep
<1>3. WorkerInv => LoopsAreOwned
  BY WorkerInvSuffices
<1> QED BY <1>1, <1>2, <1>3, PTL DEF WorkerSpec
=============================================================================
