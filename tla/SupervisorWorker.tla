-------------------------- MODULE SupervisorWorker --------------------------
(***************************************************************************)
(* start(), stop() and _worker() of lumina_next/autonomy_supervisor.py:    *)
(* who runs the timer loop, and who holds the process lock.                *)
(*                                                                         *)
(* Several processes share the lock file.  Inside one process an asyncio   *)
(* loop runs whatever is ready in the order in which it became ready, up   *)
(* to its next await: HTTP calls of start() and stop(), the steps of the   *)
(* worker tasks they create, and the stop() calls that resume when a task  *)
(* is done.                                                                *)
(***************************************************************************)
EXTENDS Naturals, Sequences, FiniteSets

CONSTANTS
    Processes,
    MaxWorkers,   \* bound: worker tasks that a process may create
    MaxReady      \* bound: HTTP calls are accepted while the queue is shorter

Nobody == "nobody"

ASSUME WorkerAssumption ==
    Nobody \notin Processes /\ MaxWorkers \in Nat /\ MaxReady \in Nat

VARIABLES
    ready,     \* the callbacks each loop will run, in order
    workers,    \* state of each worker task
    doomed,    \* the tasks whose cancellation was requested
    awaiting,  \* the tasks that a stop() call waits for, one entry per call
    task,      \* self._task, 0 for None
    event,     \* the task self._stop_event was made for, 0 for None
    handle,    \* self._lock_handle is not None
    flock,     \* the process that holds the lock file
    raced      \* history: processes whose start() came between a task's end and the
               \* stop() that waited for it

workerVars == <<ready, workers, doomed, awaiting, task, event, handle, flock, raced>>

Ids     == 1..MaxWorkers
States  == {"none", "created", "looping", "done"}
\* A call of the HTTP API, a step of task id, or stop() resuming after a task.
Callbacks == {<<"start", 0>>, <<"stop", 0>>, <<"resume", 0>>} \cup {<<"step", id>> : id \in Ids}

Fresh(p) ==
    /\ ready'    = [ready    EXCEPT ![p] = <<>>]
    /\ workers'   = [workers   EXCEPT ![p] = [id \in Ids |-> "none"]]
    /\ doomed'   = [doomed   EXCEPT ![p] = {}]
    /\ awaiting' = [awaiting EXCEPT ![p] = [id \in Ids |-> 0]]
    /\ task'     = [task     EXCEPT ![p] = 0]
    /\ event'    = [event    EXCEPT ![p] = 0]
    /\ handle'   = [handle   EXCEPT ![p] = FALSE]

WorkerInit ==
    /\ ready    = [p \in Processes |-> <<>>]
    /\ workers   = [p \in Processes |-> [id \in Ids |-> "none"]]
    /\ doomed   = [p \in Processes |-> {}]
    /\ awaiting = [p \in Processes |-> [id \in Ids |-> 0]]
    /\ task     = [p \in Processes |-> 0]
    /\ event    = [p \in Processes |-> 0]
    /\ handle   = [p \in Processes |-> FALSE]
    /\ flock    = Nobody
    /\ raced    = {}

TaskRuns(p) == task[p] # 0 /\ workers[p][task[p]] # "done"

\* _release_process_lock
ReleaseLock(p) ==
    /\ handle' = [handle EXCEPT ![p] = FALSE]
    /\ flock' = IF handle[p] /\ flock = p THEN Nobody ELSE flock

Now(p, callback)     == ready[p] # <<>> /\ Head(ready[p]) = callback
IsReady(p, callback) == \E i \in DOMAIN ready[p] : ready[p][i] = callback
Queue(p, more)       == ready' = [ready EXCEPT ![p] = Tail(@) \o more]

-----------------------------------------------------------------------------
Unborn(p)  == {id \in Ids : workers[p][id] = "none"}
Starts(p)  == {i \in DOMAIN ready[p] : ready[p][i] = <<"start", 0>>}

\* An HTTP call arrives (MaxWorkers bounds the starts).
Call(p, kind) ==
    /\ Len(ready[p]) < MaxReady
    /\ kind = "start" => Cardinality(Starts(p)) < Cardinality(Unborn(p))
    /\ ready' = [ready EXCEPT ![p] = Append(@, <<kind, 0>>)]
    /\ UNCHANGED <<workers, doomed, awaiting, task, event, handle, flock, raced>>

\* start(): a running task stays; otherwise the process lock is needed for a new one.
StartRefused(p) ==
    /\ Now(p, <<"start", 0>>)
    /\ TaskRuns(p) \/ (~handle[p] /\ flock # Nobody)
    /\ Queue(p, <<>>)
    /\ UNCHANGED <<workers, doomed, awaiting, task, event, handle, flock, raced>>

Start(p) ==
    /\ Now(p, <<"start", 0>>)
    /\ ~TaskRuns(p) /\ (handle[p] \/ flock = Nobody)
    /\ \E id \in Ids :
          /\ workers[p][id] = "none" /\ \A lower \in 1..(id - 1) : workers[p][lower] # "none"
          /\ workers' = [workers EXCEPT ![p][id] = "created"]
          /\ task' = [task EXCEPT ![p] = id]
          /\ event' = [event EXCEPT ![p] = id]
          /\ Queue(p, <<<<"step", id>>>>)
    /\ handle' = [handle EXCEPT ![p] = TRUE]
    /\ flock' = p
    /\ raced' = IF IsReady(p, <<"resume", 0>>) THEN raced \cup {p} ELSE raced
    /\ UNCHANGED <<doomed, awaiting>>

\* Mutant of Forget: the lock stays behind.
ForgetKeepingLock(p) ==
    /\ task' = [task EXCEPT ![p] = 0]
    /\ event' = [event EXCEPT ![p] = 0]
    /\ UNCHANGED <<handle, flock>>

\* The end of stop(): forget the task and its event, release the lock.
Forget(p) ==
    /\ task' = [task EXCEPT ![p] = 0]
    /\ event' = [event EXCEPT ![p] = 0]
    /\ ReleaseLock(p)

\* stop(): cancel a running task and wait for it, else finish at once.
Stop(p) ==
    /\ Now(p, <<"stop", 0>>)
    /\ IF TaskRuns(p)
       THEN LET id == task[p]
            IN /\ doomed' = [doomed EXCEPT ![p] = @ \cup {id}]
               /\ awaiting' = [awaiting EXCEPT ![p][id] = @ + 1]
               /\ Queue(p, IF IsReady(p, <<"step", id>>)
                           THEN <<>> ELSE <<<<"step", id>>>>)
               /\ UNCHANGED <<task, event, handle, flock>>
       ELSE /\ Queue(p, <<>>)
            /\ Forget(p)
            /\ UNCHANGED <<doomed, awaiting>>
    /\ UNCHANGED <<workers, raced>>

\* A stop() that waited resumes: whatever start() did meanwhile is undone.
StopResumes(p) ==
    /\ Now(p, <<"resume", 0>>)
    /\ Queue(p, <<>>)
    /\ Forget(p)
    /\ UNCHANGED <<workers, doomed, awaiting, raced>>

\* Task id is done: the stop() calls that wait for it become ready.
Done(p, id) ==
    /\ workers' = [workers EXCEPT ![p][id] = "done"]
    /\ Queue(p, [i \in 1..awaiting[p][id] |-> <<"resume", 0>>])
    /\ awaiting' = [awaiting EXCEPT ![p][id] = 0]

\* The first step of _worker: without a stop event it leaves before its try block, and
\* a cancelled task does not even begin.
WorkerBegins(p, id) ==
    /\ Now(p, <<"step", id>>) /\ workers[p][id] = "created"
    /\ IF id \in doomed[p] \/ event[p] = 0
       THEN Done(p, id)
       ELSE /\ workers' = [workers EXCEPT ![p][id] = "looping"]
            /\ Queue(p, <<>>)
            /\ UNCHANGED awaiting
    /\ UNCHANGED <<doomed, task, event, handle, flock, raced>>

\* The cancellation reaches the loop, which releases the lock on its way out.
WorkerEnds(p, id) ==
    /\ Now(p, <<"step", id>>) /\ workers[p][id] = "looping"
    /\ Done(p, id)
    /\ ReleaseLock(p)
    /\ UNCHANGED <<doomed, task, event, raced>>

\* The process dies, the system drops its lock, and it is started again.
Crash(p) ==
    /\ Fresh(p)
    /\ raced' = raced \ {p}
    /\ flock' = IF flock = p THEN Nobody ELSE flock

WorkerNext ==
    \E p \in Processes :
       \/ \E kind \in {"start", "stop"} : Call(p, kind)
       \/ StartRefused(p) \/ Start(p) \/ Stop(p) \/ StopResumes(p) \/ Crash(p)
       \/ \E id \in Ids : WorkerBegins(p, id) \/ WorkerEnds(p, id)

WorkerSpec == WorkerInit /\ [][WorkerNext]_workerVars

\* The loop of process p runs its ready callbacks.
RunLoop(p) ==
    \/ StartRefused(p) \/ Start(p) \/ Stop(p) \/ StopResumes(p)
    \/ \E id \in Ids : WorkerBegins(p, id) \/ WorkerEnds(p, id)

FairWorkerSpec == WorkerSpec /\ \A p \in Processes : WF_workerVars(RunLoop(p))

-----------------------------------------------------------------------------
\* Types; the stop event is the one made for the task that self._task holds.
WorkerTypeOK ==
    /\ ready \in [Processes -> Seq(Callbacks)]
    /\ workers \in [Processes -> [Ids -> States]]
    /\ doomed \in [Processes -> SUBSET Ids]
    /\ awaiting \in [Processes -> [Ids -> Nat]]
    /\ task \in [Processes -> 0..MaxWorkers] /\ event = task
    /\ handle \in [Processes -> BOOLEAN]
    /\ flock \in Processes \cup {Nobody}
    /\ raced \in SUBSET Processes

\* Unless a start() was served between the end of a task and the stop() that waited for
\* it, one timer loop runs at a time, over all processes and through their crashes.
OneLoopUnlessRaced ==
    \A p, q \in Processes \ raced, i, j \in Ids :
        workers[p][i] = "looping" /\ workers[q][j] = "looping" => p = q /\ i = j

\* Again unless that happened, a loop that runs is the one that the next stop() would
\* cancel, and its process holds the lock: no call and no crash elsewhere takes either
\* away from it.
LoopIsOwned ==
    \A p \in Processes \ raced, id \in Ids :
        workers[p][id] = "looping" => task[p] = id /\ handle[p] /\ flock = p

\* AutonomySupervisor is "the single owner of Lumina's proactive life cycle": a process
\* never runs two timer loops, which would plan and act beside each other.
OneLoop ==
    \A p \in Processes, i, j \in Ids :
        workers[p][i] = "looping" /\ workers[p][j] = "looping" => i = j

\* The lock is never left behind (it would keep every other process from starting): a
\* process that holds it has a task that runs or will run, or a stop() that will
\* release it.
LockIsUsed ==
    \A p \in Processes : flock = p =>
        /\ handle[p]
        /\ \/ \E id \in Ids : workers[p][id] = "looping" \/ IsReady(p, <<"step", id>>)
           \/ IsReady(p, <<"resume", 0>>)

\* A stop() that waits for its task is answered, whatever calls arrive meanwhile: the
\* application's shutdown waits for it.
StopIsAnswered ==
    \A p \in Processes, id \in Ids : awaiting[p][id] > 0 ~> awaiting[p][id] = 0

\* Supervisors: no two timer loops, the loop is the one that stop() would cancel, and the
\* lock follows it.
LoopsAreOwned == WorkerTypeOK /\ OneLoopUnlessRaced /\ LoopIsOwned /\ LockIsUsed
=============================================================================
