---------------------------- MODULE ModelBroker ----------------------------
(***************************************************************************)
(* lumina_next/model_broker.py with circuit_breaker.py and the runtime and *)
(* kernel of preintegration_runtime.py: one language model and one vision  *)
(* model take turns in memory.                                             *)
(*                                                                         *)
(* The actors are the chat worker, the scene requests (analyze_scene:      *)
(* use_model, then unload) and close().  They share two asyncio locks.  An *)
(* actor runs without interruption from one await to the next, so its      *)
(* locations are its awaits.  The runtime lock is free whenever the        *)
(* lifecycle lock is and no chat runs, hence only a switch ever waits for  *)
(* it; every other holder takes both in one step.                          *)
(*                                                                         *)
(* Deadlines carry no numbers: a wait with a timeout may end at any        *)
(* moment.  What the lifecycle scripts do outside the process is external. *)
(***************************************************************************)
EXTENDS Naturals, Sequences, Absent

CONSTANTS
    Chats,         \* chat requests
    Scenes,        \* scene requests
    Worker, Closer, \* the chat worker, the caller of close()
    QueueCapacity, \* chat_queue_capacity
    FailureThreshold, MaxCrashLoops \* of the circuit breaker

ASSUME ModelBrokerAssumption ==
    /\ QueueCapacity \in Nat \ {0}
    /\ FailureThreshold \in Nat \ {0} /\ MaxCrashLoops \in Nat \ {0}
    /\ Worker # Closer /\ Worker \notin Scenes /\ Closer \notin Scenes
    /\ None \notin Scenes \cup Chats \cup {Worker, Closer, "llm", "vlm"}

VARIABLES
    actorAt,         \* the await where each actor is
    lifecycle,  \* the holder of _lifecycle_lock
    runtime,    \* the holder of _runtime_lock
    state,      \* _state
    active,     \* _active_kind
    inFlight,   \* _in_flight_requests
    admission,  \* "open", "draining" or "closed"
    queue,      \* _queue
    current,    \* the chat the worker took from it
    chat,       \* the future of each chat
    outcome,    \* what the runtime's chat call ended with
    circuit,    \* the breaker's state
    failures,   \* its consecutive_failures, capped at the threshold
    crashLoops, \* its crash_loops
    loaded,     \* loaded_kind of the runtime
    servers,    \* the model servers that run
    leftover,   \* scripts nobody waits for any more
    stray       \* history: a script failed, or was abandoned

locks   == <<lifecycle, runtime>>
requests == <<queue, current, chat, outcome, admission>>
breaker == <<circuit, failures, crashLoops>>
processes == <<loaded, servers, leftover, stray>>
brokerVars == <<actorAt, locks, state, active, inFlight, requests, breaker, processes>>

ModelKinds  == {"llm", "vlm"}
Actors == Scenes \cup {Worker, Closer}
Target(a) == IF a = Worker THEN "llm" ELSE "vlm"
Ready(k)  == IF k = "llm" THEN "llm_ready" ELSE "vlm_ready"

BrokerInit ==
    /\ actorAt = [a \in Actors |-> "idle"]
    /\ lifecycle = None /\ runtime = None
    /\ state = "idle" /\ active = None /\ inFlight = 0
    /\ admission = "open" /\ queue = <<>> /\ current = None
    /\ chat = [c \in Chats |-> "new"] /\ outcome = None
    /\ circuit = "closed" /\ failures = 0 /\ crashLoops = 0
    /\ loaded = None /\ servers = {} /\ leftover = {} /\ stray = FALSE

Go(a, location) == actorAt' = [actorAt EXCEPT ![a] = location]

-----------------------------------------------------------------------------
(* The circuit breaker                                                     *)

RecordFailure ==
    LET opens == failures + 1 >= FailureThreshold
    IN  /\ failures' = IF opens THEN FailureThreshold ELSE failures + 1
        /\ circuit' = IF opens \/ circuit = "half_open" THEN "open" ELSE circuit
        /\ crashLoops' = IF opens /\ crashLoops < MaxCrashLoops THEN crashLoops + 1 ELSE crashLoops

RecordSuccess ==
    /\ failures' = 0
    /\ circuit' = IF circuit = "half_open" THEN "closed" ELSE circuit
    /\ crashLoops' = IF circuit = "half_open" THEN 0 ELSE crashLoops

\* allow_attempt: an open breaker lets an attempt through, half open, once its backoff is
\* over, which may be the case at any moment.
MayAttempt == crashLoops < MaxCrashLoops
Attempt ==
    /\ MayAttempt
    /\ circuit' = IF circuit = "open" THEN "half_open" ELSE circuit
    /\ UNCHANGED <<failures, crashLoops>>
Refused == (~MayAttempt \/ circuit = "open") /\ UNCHANGED breaker

-----------------------------------------------------------------------------
(* Chat requests and the worker's ends                                     *)

\* The worker's future is settled unless its caller has left.
Settle(result) ==
    /\ chat' = [chat EXCEPT ![current] = IF @ = "pending" THEN result ELSE @]
    /\ current' = None /\ outcome' = None
    /\ UNCHANGED <<queue, admission>>

\* The end of an actor's attempt that raised: the worker fails its chat, a scene request
\* goes on to the unload() of its finally clause.
Raised(a) ==
    IF a = Worker THEN Go(a, "idle") /\ Settle("failed")
    ELSE Go(a, "unload") /\ UNCHANGED requests

\* Whether the worker's except clauses put the broker into FAULT: all but BrokerFaultError.
FaultOf(a, other) == IF a = Worker THEN "fault" ELSE other

\* chat(): admitted, refused when the queue is full or the broker is draining.
ChatArrives(c) ==
    /\ chat[c] = "new"
    /\ IF admission = "open" /\ Len(queue) < QueueCapacity
       THEN queue' = Append(queue, c) /\ chat' = [chat EXCEPT ![c] = "pending"]
       ELSE UNCHANGED queue /\ chat' = [chat EXCEPT ![c] = "refused"]
    /\ UNCHANGED <<current, outcome, admission, actorAt, locks, state, active, inFlight, breaker,
                   processes>>

\* The caller's own deadline cancels the future; the queue keeps the request.
ChatExpires(c) ==
    /\ chat[c] = "pending"
    /\ chat' = [chat EXCEPT ![c] = "expired"]
    /\ UNCHANGED <<queue, current, outcome, admission, actorAt, locks, state, active, inFlight,
                   breaker, processes>>

\* _chat_worker takes the next request and skips one nobody waits for.
WorkerTakes ==
    /\ actorAt[Worker] = "idle" /\ queue # <<>>
    /\ queue' = Tail(queue)
    /\ IF chat[Head(queue)] = "pending"
       THEN current' = Head(queue) /\ Go(Worker, "call")
       ELSE UNCHANGED <<current, actorAt>>
    /\ UNCHANGED <<chat, outcome, admission, locks, state, active, inFlight, breaker, processes>>

-----------------------------------------------------------------------------
(* activate()                                                              *)

SceneArrives(a) ==
    /\ a \in Scenes /\ actorAt[a] = "idle"
    /\ IF admission = "open" THEN Go(a, "call") ELSE Go(a, "unload")
    /\ UNCHANGED <<locks, state, active, inFlight, requests, breaker, processes>>

\* What activate() checks before it waits for the lifecycle lock: whether the broker is
\* open, then the breaker.  A chat that was admitted before drain() fails here, too.
ActivateCalled(a) ==
    /\ actorAt[a] = "call"
    /\ \/ /\ admission = "open" /\ Attempt
          /\ Go(a, "activate")
          /\ UNCHANGED <<state, requests>>
       \/ /\ admission = "open" /\ Refused
          /\ state' = FaultOf(a, state) /\ Raised(a)
       \/ /\ admission # "open"
          /\ state' = FaultOf(a, state) /\ UNCHANGED breaker
          /\ IF a = Worker THEN Go(a, "idle") /\ Settle("shut_out") ELSE Raised(a)
    /\ UNCHANGED <<locks, active, inFlight, processes>>

ActivateLocks(a) ==
    /\ actorAt[a] = "activate" /\ lifecycle = None
    /\ IF active = Target(a) /\ state = Ready(Target(a))
       THEN Go(a, "activated") /\ UNCHANGED <<lifecycle, state>>
       ELSE /\ lifecycle' = a /\ Go(a, "switch")
            /\ state' = IF a = Worker THEN (IF active = "vlm" THEN "restoring_llm" ELSE "llm_loading")
                        ELSE "vlm_loading"
    /\ UNCHANGED <<runtime, active, inFlight, requests, breaker, processes>>

SwitchBegins(a) ==
    /\ actorAt[a] = "switch" /\ runtime = None
    /\ runtime' = a
    /\ Go(a, IF active = None THEN "starting" ELSE "stopping")
    /\ UNCHANGED <<lifecycle, state, active, inFlight, requests, breaker, processes>>

\* Both locks are released as the exception leaves activate().
SwitchFails(a) ==
    /\ lifecycle' = None /\ runtime' = None
    /\ state' = "fault"
    /\ RecordFailure /\ Raised(a)
    /\ UNCHANGED inFlight

\* The stop script ends: a script that failed may have stopped its server or not.
SwitchStops(a) ==
    /\ actorAt[a] = "stopping"
    /\ \/ /\ servers' = servers \ {active}
          /\ loaded' = IF loaded = active THEN None ELSE loaded
          /\ active' = None
          /\ Go(a, "starting")
          /\ UNCHANGED <<locks, state, inFlight, requests, breaker, leftover, stray>>
       \/ /\ servers' \in {servers, servers \ {active}}
          /\ stray' = TRUE
          /\ SwitchFails(a)
          /\ UNCHANGED <<active, loaded, leftover>>

Started(a) ==
    /\ active' = Target(a) /\ state' = Ready(Target(a))
    /\ lifecycle' = None /\ runtime' = None
    /\ RecordSuccess
    /\ Go(a, "activated")

\* The runtime's start(): refused under memory pressure, or beside another loaded model;
\* otherwise the script runs, and a script that failed may have left its server running.
SwitchStarts(a) ==
    /\ actorAt[a] = "starting"
    /\ \/ /\ loaded \in {None, Target(a)}
          /\ loaded' = Target(a)
          /\ servers' = IF loaded = Target(a) THEN servers ELSE servers \cup {Target(a)}
          /\ Started(a)
          /\ UNCHANGED <<leftover, stray, inFlight, requests>>
       \/ /\ servers' \in {servers, servers \cup {Target(a)}}
          /\ stray' = (stray \/ servers' # servers)
          /\ SwitchFails(a)
          /\ UNCHANGED <<active, loaded, leftover>>

\* The deadline of the whole activation.  Waiting for a lock, the attempt just ends, and
\* the loading state stays; inside the runtime's call, its script is left to itself.
ActivationTimesOut(a) ==
    /\ \/ /\ actorAt[a] \in {"call", "activate"}
          /\ state' = FaultOf(a, state)
          /\ UNCHANGED <<locks, breaker, leftover, stray>>
       \/ /\ actorAt[a] = "switch" /\ lifecycle' = None
          /\ state' = FaultOf(a, state)
          /\ UNCHANGED <<runtime, breaker, leftover, stray>>
       \/ /\ actorAt[a] \in {"stopping", "starting"}
          /\ lifecycle' = None /\ runtime' = None
          /\ state' = "fault" /\ RecordFailure
          /\ leftover' = leftover \cup {IF actorAt[a] = "starting" THEN <<"start", Target(a)>>
                                        ELSE <<"stop", active>>}
          /\ stray' = TRUE
    /\ Raised(a)
    /\ UNCHANGED <<active, inFlight, loaded, servers>>

\* An abandoned script ends, with or without the effect it was started for.
LeftoverEnds ==
    \E script \in leftover :
       /\ leftover' = leftover \ {script}
       /\ servers' \in {servers, IF script[1] = "start" THEN servers \cup {script[2]}
                                 ELSE servers \ {script[2]}}
       /\ UNCHANGED <<actorAt, locks, state, active, inFlight, requests, breaker, loaded, stray>>

-----------------------------------------------------------------------------
(* Using the model that was activated                                      *)

\* Between activate() and the use of the model another actor may have switched it: the
\* attempt is repeated.  The worker gives the lifecycle lock back before it chats.
Recheck(a) ==
    /\ actorAt[a] = "activated" /\ lifecycle = None
    /\ \/ /\ active = Target(a) /\ state = Ready(Target(a))
          /\ runtime' = a
          /\ IF a = Worker
             THEN /\ inFlight' = inFlight + 1 /\ state' = "busy"
                  /\ Go(a, "chat") /\ UNCHANGED lifecycle
             ELSE lifecycle' = a /\ Go(a, "view") /\ UNCHANGED <<inFlight, state>>
          /\ UNCHANGED requests
       \/ /\ ~(active = Target(a) /\ state = Ready(Target(a)))
          /\ Go(a, "call")
          /\ UNCHANGED <<locks, inFlight, state, requests>>
       \/ \* the deadline has passed
          /\ state' = FaultOf(a, state) /\ Raised(a)
          /\ UNCHANGED <<locks, inFlight>>
    /\ UNCHANGED <<active, breaker, processes>>

\* The runtime's chat call ends; the answer waits for the lifecycle lock, inside the
\* runtime lock.
ChatEnds ==
    /\ actorAt[Worker] = "chat"
    /\ outcome' \in {"answer", "no_text", "error"}
    /\ Go(Worker, "return")
    /\ UNCHANGED <<queue, current, chat, admission, locks, state, active, inFlight, breaker,
                   processes>>

ChatReturns ==
    /\ actorAt[Worker] = "return" /\ lifecycle = None
    /\ runtime' = None /\ inFlight' = inFlight - 1
    /\ state' = CASE outcome = "error"  -> "fault"
                  [] active = "llm"     -> "llm_ready"
                  [] OTHER              -> state
    /\ Go(Worker, IF outcome = "cancelled" THEN "ended" ELSE "idle")
    /\ Settle(IF outcome = "answer" THEN "answered" ELSE "failed")
    /\ UNCHANGED <<lifecycle, active, breaker, processes>>

\* The scene request's operation ends, or exceeds its deadline.
ViewEnds(a) ==
    /\ actorAt[a] = "view"
    /\ lifecycle' = None /\ runtime' = None
    /\ state' \in {state, "fault"}
    /\ Go(a, "unload")
    /\ UNCHANGED <<active, inFlight, requests, breaker, processes>>

-----------------------------------------------------------------------------
(* unload() and close()                                                    *)

AfterUnload(a) == Go(a, IF a = Closer THEN "closing" ELSE "done")

\* _deactivate takes the lock: nothing to stop, an inference in flight, or the stop begins.
UnloadLocks(a) ==
    /\ actorAt[a] = "unload"
    /\ \/ /\ a \in Scenes /\ admission = "closed"
          /\ AfterUnload(a) /\ UNCHANGED <<locks, state>>
       \/ /\ lifecycle = None /\ active = None
          /\ state' = "idle"
          /\ AfterUnload(a) /\ UNCHANGED locks
       \/ /\ lifecycle = None /\ active # None /\ inFlight > 0
          /\ AfterUnload(a) /\ UNCHANGED <<locks, state>>
       \/ /\ lifecycle = None /\ active # None /\ inFlight = 0
          /\ lifecycle' = a /\ runtime' = a
          /\ state' = "unloading" /\ Go(a, "unloading")
    /\ UNCHANGED <<active, inFlight, requests, breaker, processes>>

UnloadEnds(a) ==
    /\ actorAt[a] = "unloading"
    /\ lifecycle' = None /\ runtime' = None
    /\ AfterUnload(a)
    /\ \/ /\ servers' = servers \ {active}
          /\ loaded' = IF loaded = active THEN None ELSE loaded
          /\ active' = None /\ state' = "idle"
          /\ UNCHANGED <<breaker, leftover, stray>>
       \/ \* the script failed
          /\ servers' \in {servers, servers \ {active}} /\ stray' = TRUE
          /\ state' = "fault" /\ RecordFailure
          /\ UNCHANGED <<active, loaded, leftover>>
       \/ \* it exceeded its deadline; close() cancels the call before it can record that
          /\ leftover' = leftover \cup {<<"stop", active>>} /\ stray' = TRUE
          /\ IF a = Closer THEN UNCHANGED <<state, breaker>>
             ELSE state' = "fault" /\ RecordFailure
          /\ UNCHANGED <<active, loaded, servers>>
    /\ UNCHANGED <<inFlight, requests>>

CloseBegins ==
    /\ actorAt[Closer] = "idle"
    /\ admission' = "draining"
    /\ Go(Closer, "draining")
    /\ UNCHANGED <<queue, current, chat, outcome, locks, state, active, inFlight, breaker,
                   processes>>

\* drain() ends when every admitted chat is done, or with a fault at its deadline.
DrainEnds ==
    /\ actorAt[Closer] = "draining"
    /\ \/ queue = <<>> /\ current = None /\ UNCHANGED state
       \/ state' = "fault"
    /\ Go(Closer, "unload")
    /\ UNCHANGED <<locks, active, inFlight, requests, breaker, processes>>

\* The deadline of close() while its unload waits for the lifecycle lock.
CloseTimesOut ==
    /\ actorAt[Closer] = "unload" /\ lifecycle # None
    /\ Go(Closer, "closing")
    /\ UNCHANGED <<locks, state, active, inFlight, requests, breaker, processes>>

\* The finally clause: closed, and the worker is cancelled wherever it waits.
CloseEnds ==
    /\ actorAt[Closer] = "closing"
    /\ admission' = "closed"
    /\ actorAt' = [actorAt EXCEPT ![Closer] = "done",
                        ![Worker] = IF @ = "chat" THEN "return" ELSE "ended"]
    /\ IF actorAt[Worker] = "chat"
       THEN /\ outcome' = "cancelled"
            /\ UNCHANGED <<current, chat, locks, state, breaker, leftover, stray>>
       ELSE /\ current' = None /\ outcome' = None
            /\ chat' = IF current = None THEN chat
                       ELSE [chat EXCEPT ![current] = IF @ = "pending" THEN "failed" ELSE @]
            /\ lifecycle' = IF lifecycle = Worker THEN None ELSE lifecycle
            /\ runtime' = IF runtime = Worker THEN None ELSE runtime
            /\ IF actorAt[Worker] \in {"stopping", "starting"}
               THEN /\ state' = "fault" /\ RecordFailure /\ stray' = TRUE
                    /\ leftover' = leftover \cup {IF actorAt[Worker] = "starting" THEN <<"start", "llm">>
                                                  ELSE <<"stop", active>>}
               ELSE UNCHANGED <<state, breaker, leftover, stray>>
    /\ UNCHANGED <<queue, active, inFlight, loaded, servers>>

-----------------------------------------------------------------------------

User(a) ==
    \/ ActivateCalled(a)
    \/ ActivateLocks(a)
    \/ SwitchBegins(a)
    \/ SwitchStops(a)
    \/ SwitchStarts(a)
    \/ ActivationTimesOut(a)
    \/ Recheck(a)

BrokerNext ==
    \/ \E c \in Chats : ChatArrives(c) \/ ChatExpires(c)
    \/ WorkerTakes
    \/ \E a \in Scenes : SceneArrives(a) \/ ViewEnds(a)
    \/ \E a \in Scenes \cup {Worker} : User(a)
    \/ ChatEnds \/ ChatReturns
    \/ \E a \in Scenes \cup {Closer} : UnloadLocks(a) \/ UnloadEnds(a)
    \/ LeftoverEnds
    \/ CloseBegins \/ DrainEnds \/ CloseTimesOut \/ CloseEnds

BrokerSpec == BrokerInit /\ [][BrokerNext]_brokerVars

\* Every wait of an activation, of the runtime and of close() has a deadline, and a lock
\* that is given back wakes a waiter.  The deadline of a request also bounds its retries:
\* once it has passed, the next activation times out, however many succeeded before
\* (strong fairness).  Nothing obliges a client to come or to give up.
BrokerSteps(a) ==
    \/ User(a) /\ a # Closer
    \/ a \in Scenes /\ ViewEnds(a)
    \/ a = Worker /\ (WorkerTakes \/ ChatEnds \/ ChatReturns)
    \/ a # Worker /\ (UnloadLocks(a) \/ UnloadEnds(a))
    \/ a = Closer /\ (DrainEnds \/ CloseTimesOut \/ CloseEnds)

BrokerFairness ==
    /\ \A a \in Actors : WF_brokerVars(BrokerSteps(a))
    /\ \A a \in Scenes \cup {Worker} : SF_brokerVars(ActivationTimesOut(a))

FairBrokerSpec == BrokerSpec /\ BrokerFairness

-----------------------------------------------------------------------------
(* Properties                                                              *)

Waits == {"idle", "call", "activate", "switch", "stopping", "starting", "activated"}

\* The locations of each actor, and the ranges of the broker's, the breaker's and the
\* runtime's fields; the queue never exceeds its capacity.
BrokerTypeOK ==
    /\ actorAt \in [Actors -> Waits \cup {"chat", "return", "ended", "view", "unload", "unloading",
                                     "done", "draining", "closing"}]
    /\ actorAt[Worker] \in Waits \cup {"chat", "return", "ended"}
    /\ actorAt[Closer] \in {"idle", "draining", "unload", "unloading", "closing", "done"}
    /\ \A a \in Scenes : actorAt[a] \in Waits \cup {"view", "unload", "unloading", "done"}
    /\ lifecycle \in Actors \cup {None} /\ runtime \in Actors \cup {None}
    /\ state \in {"idle", "llm_loading", "vlm_loading", "restoring_llm", "llm_ready",
                  "vlm_ready", "busy", "unloading", "fault"}
    /\ active \in ModelKinds \cup {None} /\ inFlight \in 0..1
    /\ admission \in {"open", "draining", "closed"}
    /\ queue \in Seq(Chats) /\ Len(queue) <= QueueCapacity
    /\ current \in Chats \cup {None}
    /\ chat \in [Chats -> {"new", "pending", "answered", "failed", "shut_out", "expired", "refused"}]
    /\ outcome \in {None, "answer", "no_text", "error", "cancelled"}
    /\ circuit \in {"closed", "open", "half_open"}
    /\ failures \in 0..FailureThreshold /\ crashLoops \in 0..MaxCrashLoops
    /\ loaded \in ModelKinds \cup {None} /\ servers \subseteq ModelKinds
    /\ leftover \subseteq {"start", "stop"} \X ModelKinds /\ stray \in BOOLEAN

Switching(a) == actorAt[a] \in {"stopping", "starting", "unloading"}

\* "Every runtime call is serialized so a stop can never race a load or chat operation"
\* (model_broker.py:5-6): a chat runs on the loaded language model, a scene request on the
\* loaded vision model, and nobody starts or stops a model meanwhile.
UseIsExclusive ==
    /\ actorAt[Worker] = "chat" =>
          active = "llm" /\ loaded = "llm" /\ \A a \in Actors : ~Switching(a) /\ actorAt[a] # "view"
    /\ \A v \in Scenes : actorAt[v] = "view" =>
          active = "vlm" /\ loaded = "vlm" /\ \A a \in Actors : ~Switching(a)

\* unload() relies on _in_flight_requests to leave a chat alone: until the broker is closed
\* the counter is one exactly while the chat, or its return, holds the runtime lock.
InFlightAccounted ==
    /\ admission # "closed" => (inFlight = 1 <=> actorAt[Worker] \in {"chat", "return"})
    /\ actorAt[Worker] \in {"chat", "return"} <=> runtime = Worker /\ ~Switching(Worker)

\* What status() reports: a ready or busy state belongs to the active and loaded model.
\* _set_fault overwrites it from outside the locks, never the other way round.
ReadyIsLoaded ==
    /\ state \in {"llm_ready", "busy"} => active = "llm" /\ loaded = "llm"
    /\ state = "vlm_ready" => active = "vlm" /\ loaded = "vlm"

\* As long as no script has failed or was abandoned, the servers that run are the one model
\* the runtime knows, and the broker knows it, too.
ServersAreKnown ==
    ~stray => servers = {loaded} \ {None} /\ loaded = active

BrokerRests ==
    /\ lifecycle = None /\ runtime = None
    /\ admission = "closed" \/ \A c \in Chats : chat[c] # "pending"

\* A switch that waits for the runtime lock while the chat that holds it waits for the
\* lifecycle lock is broken by the deadline of the switch, and a chat outlives the switches
\* around it: again and again both locks are free and every admitted chat is settled (by
\* the worker: nothing obliges its caller to give up), unless the broker was closed.
BrokerComesToRest == []<>BrokerRests
=============================================================================
