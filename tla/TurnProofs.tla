------------------------------ MODULE TurnProofs ------------------------------
(***************************************************************************)
(* Proofs about the turns of the companion and what they use: the model    *)
(* broker, the resident conversation, what a turn is told and what is kept *)
(* of it, and the two gateways of speech; for any number of callers, any   *)
(* limits, requests and answers of the models.                             *)
(*                                                                         *)
(* ModelBroker: the properties speak of what a caller sees.  What makes    *)
(* them true is said by the conjuncts of BrokerInv, one idea each; one     *)
(* lemma per action shows that the action keeps all of them, in the same   *)
(* order, with the types in the five parts of TypesSplit.                  *)
(*                                                                         *)
(* LiteRTSession: SessionInv says when the history of the sidecar is the   *)
(* one that is displayed.  PrivateTurns: ChatInv says whose turn every     *)
(* text that is kept is of.  SpeechGateways: HearingInv and SpeakingInv    *)
(* say what the thread that holds a lock finds.                            *)
(***************************************************************************)
EXTENDS ModelBroker, LiteRTSession, SpeechGateways, PrivateTurns,
        SequenceTheorems, FiniteSetTheorems, WellFoundedInduction, TLAPS

-----------------------------------------------------------------------------
(* ModelBroker: what the properties leave out                              *)

Switches == {"stopping", "starting", "unloading"}

\* A lock is with the actor whose location says so, and with nobody else.
LocksFollow ==
    \A a \in Actors :
        /\ lifecycle = a <=> actorAt[a] \in Switches \cup {"switch", "view"}
        /\ runtime = a   <=> actorAt[a] \in Switches \cup {"view", "chat", "return"}

\* A chat that runs or returns is the one in flight, and the counter knows no other until
\* the worker is cancelled at the end of close().
ChatIsCounted ==
    /\ actorAt[Worker] \in {"chat", "return"} => inFlight = 1
    /\ inFlight = 1 /\ admission # "closed" => actorAt[Worker] \in {"chat", "return"}
    /\ admission = "closed" =>
          /\ actorAt[Closer] = "done" /\ actorAt[Worker] \in {"return", "ended"}
          /\ actorAt[Worker] = "return" => outcome = "cancelled"

\* The broker and the runtime agree on the loaded model, and it is the one that is used.
ModelIsAgreed ==
    /\ loaded = active
    /\ actorAt[Worker] \in {"chat", "return"} => active = "llm"
    /\ \A a \in Actors :
          /\ actorAt[a] = "view" => active = "vlm"
          /\ actorAt[a] = "starting" => active = None
          /\ actorAt[a] \in {"stopping", "unloading"} => active # None

\* While somebody switches, nothing is reported ready.
StateIsHonest ==
    /\ ReadyIsLoaded
    /\ \A a \in Actors : actorAt[a] \in Switches \cup {"switch"} =>
                            state \notin {"llm_ready", "vlm_ready", "busy"}

\* A script that nobody waits for, or that failed, is remembered.
StrayIsKnown == ~stray => servers = {active} \ {None} /\ leftover = {}

BrokerInv ==
    BrokerTypeOK /\ LocksFollow /\ ChatIsCounted /\ ModelIsAgreed /\ StateIsHonest /\ StrayIsKnown

\* BrokerTypeOK in two: where the actors are, and the fields.
Located ==
    /\ actorAt \in [Actors -> Waits \cup {"chat", "return", "ended", "view", "unload", "unloading",
                                     "done", "draining", "closing"}]
    /\ actorAt[Worker] \in Waits \cup {"chat", "return", "ended"}
    /\ actorAt[Closer] \in {"idle", "draining", "unload", "unloading", "closing", "done"}
    /\ \A a \in Scenes : actorAt[a] \in Waits \cup {"view", "unload", "unloading", "done"}

HoldersOK ==
    /\ lifecycle \in Actors \cup {None} /\ runtime \in Actors \cup {None}
    /\ state \in {"idle", "llm_loading", "vlm_loading", "restoring_llm", "llm_ready",
                  "vlm_ready", "busy", "unloading", "fault"}
    /\ active \in ModelKinds \cup {None} /\ inFlight \in 0..1
    /\ admission \in {"open", "draining", "closed"}

RequestsOK ==
    /\ queue \in Seq(Chats) /\ Len(queue) <= QueueCapacity
    /\ current \in Chats \cup {None}
    /\ chat \in [Chats -> {"new", "pending", "answered", "failed", "shut_out", "expired", "refused"}]
    /\ outcome \in {None, "answer", "no_text", "error", "cancelled"}

BreakerOK ==
    /\ circuit \in {"closed", "open", "half_open"}
    /\ failures \in 0..FailureThreshold /\ crashLoops \in 0..MaxCrashLoops

ProcessesOK ==
    /\ loaded \in ModelKinds \cup {None} /\ servers \subseteq ModelKinds
    /\ leftover \subseteq {"start", "stop"} \X ModelKinds /\ stray \in BOOLEAN

USE ModelBrokerAssumption

LEMMA TypesSplit == BrokerTypeOK <=> Located /\ HoldersOK /\ RequestsOK /\ BreakerOK /\ ProcessesOK
  BY DEF BrokerTypeOK, Located, HoldersOK, RequestsOK, BreakerOK, ProcessesOK

LEMMA BrokerInvInit == BrokerInit => BrokerInv
<1> SUFFICES ASSUME BrokerInit PROVE BrokerInv
  OBVIOUS
<1>1. Located
  BY DEF BrokerInit, Located, Actors, Waits
<1>2. HoldersOK
  BY DEF BrokerInit, HoldersOK
<1>3. RequestsOK
  BY DEF BrokerInit, RequestsOK
<1>4. BreakerOK
  BY DEF BrokerInit, BreakerOK
<1>5. ProcessesOK
  BY DEF BrokerInit, ProcessesOK
<1> QED BY <1>1, <1>2, <1>3, <1>4, <1>5, TypesSplit
   DEF BrokerInit, BrokerInv, LocksFollow, ChatIsCounted, ModelIsAgreed, StateIsHonest,
       StrayIsKnown, ReadyIsLoaded, Actors, Switches

\* A lifecycle script is one of those that may be left over.
LEMMA Scripts ==
    \A k \in ModelKinds : <<"start", k>> \in {"start", "stop"} \X ModelKinds
                          /\ <<"stop", k>> \in {"start", "stop"} \X ModelKinds
  OBVIOUS

\* circuit_breaker.py keeps its counters within their limits.
LEMMA BreakerMoves ==
    ASSUME BreakerOK, RecordFailure \/ RecordSuccess \/ Attempt \/ Refused
    PROVE  BreakerOK'
  BY DEF BreakerOK, RecordFailure, RecordSuccess, Attempt, Refused, breaker

\* A chat that is settled gets one of the answers there are.
LEMMA ChatIsSettled ==
    ASSUME RequestsOK, NEW result \in {"answered", "failed", "shut_out"}, Settle(result)
    PROVE  RequestsOK'
<1>1. chat' \in [Chats -> {"new", "pending", "answered", "failed", "shut_out", "expired", "refused"}]
  BY DEF RequestsOK, Settle
<1> QED BY <1>1 DEF RequestsOK, Settle

\* An error settles the worker's chat and nobody else's.
LEMMA RaisedTypes ==
    ASSUME RequestsOK, NEW a, Raised(a)
    PROVE  RequestsOK'
<1>1. CASE a = Worker
  BY <1>1, ChatIsSettled DEF Raised
<1>2. CASE a # Worker
  BY <1>2 DEF Raised, requests, RequestsOK
<1> QED BY <1>1, <1>2

-----------------------------------------------------------------------------
(* Every action keeps the invariant                                        *)

LEMMA ChatArrivesKeeps ==
    ASSUME BrokerInv, NEW c \in Chats, ChatArrives(c)
    PROVE  BrokerInv'
<1>1. Located /\ HoldersOK /\ RequestsOK /\ BreakerOK /\ ProcessesOK
  BY TypesSplit DEF BrokerInv
<1>2. Located'
  BY <1>1 DEF ChatArrives, Located, requests
<1>3. HoldersOK'
  BY <1>1 DEF ChatArrives, HoldersOK, Go, locks, requests
<1>4. RequestsOK'
  BY <1>1 DEF ChatArrives, RequestsOK, requests
<1>5. BreakerOK'
  BY <1>1 DEF ChatArrives, BreakerOK, requests, breaker
<1>6. ProcessesOK'
  BY <1>1 DEF ChatArrives, ProcessesOK, requests, processes
<1>7. LocksFollow'
  BY <1>1 DEF ChatArrives, LocksFollow, BrokerInv, Go, locks, requests
<1>8. ChatIsCounted'
  BY <1>1 DEF ChatArrives, ChatIsCounted, BrokerInv, requests
<1>9. ModelIsAgreed'
  BY <1>1 DEF ChatArrives, ModelIsAgreed, BrokerInv, requests, processes
<1>10. StateIsHonest'
  BY <1>1 DEF ChatArrives, StateIsHonest, BrokerInv, ReadyIsLoaded, requests, processes
<1>11. StrayIsKnown'
  BY <1>1 DEF ChatArrives, StrayIsKnown, BrokerInv, requests, processes
<1>12. BrokerTypeOK'
  BY <1>2, <1>3, <1>4, <1>5, <1>6
     DEF BrokerTypeOK, Located, HoldersOK, RequestsOK, BreakerOK, ProcessesOK
<1> QED BY <1>7, <1>8, <1>9, <1>10, <1>11, <1>12 DEF BrokerInv

LEMMA ChatExpiresKeeps ==
    ASSUME BrokerInv, NEW c \in Chats, ChatExpires(c)
    PROVE  BrokerInv'
<1>1. Located /\ HoldersOK /\ RequestsOK /\ BreakerOK /\ ProcessesOK
  BY TypesSplit DEF BrokerInv
<1>2. Located'
  BY <1>1 DEF ChatExpires, Located, requests
<1>3. HoldersOK'
  BY <1>1 DEF ChatExpires, HoldersOK, Go, locks, requests
<1>4. RequestsOK'
  BY <1>1 DEF ChatExpires, RequestsOK, requests
<1>5. BreakerOK'
  BY <1>1 DEF ChatExpires, BreakerOK, requests, breaker
<1>6. ProcessesOK'
  BY <1>1 DEF ChatExpires, ProcessesOK, requests, processes
<1>7. LocksFollow'
  BY <1>1 DEF ChatExpires, LocksFollow, BrokerInv, Go, locks, requests
<1>8. ChatIsCounted'
  BY <1>1 DEF ChatExpires, ChatIsCounted, BrokerInv, requests
<1>9. ModelIsAgreed'
  BY <1>1 DEF ChatExpires, ModelIsAgreed, BrokerInv, requests, processes
<1>10. StateIsHonest'
  BY <1>1 DEF ChatExpires, StateIsHonest, BrokerInv, ReadyIsLoaded, requests, processes
<1>11. StrayIsKnown'
  BY <1>1 DEF ChatExpires, StrayIsKnown, BrokerInv, requests, processes
<1>12. BrokerTypeOK'
  BY <1>2, <1>3, <1>4, <1>5, <1>6
     DEF BrokerTypeOK, Located, HoldersOK, RequestsOK, BreakerOK, ProcessesOK
<1> QED BY <1>7, <1>8, <1>9, <1>10, <1>11, <1>12 DEF BrokerInv

LEMMA WorkerTakesKeeps ==
    ASSUME BrokerInv, WorkerTakes
    PROVE  BrokerInv'
<1>1. Located /\ HoldersOK /\ RequestsOK /\ BreakerOK /\ ProcessesOK
  BY TypesSplit DEF BrokerInv
<1>2. Located'
  BY <1>1 DEF WorkerTakes, Located, Actors, Waits, Go, requests
<1>3. HoldersOK'
  BY <1>1 DEF WorkerTakes, HoldersOK, locks, requests
<1>4. RequestsOK'
  BY <1>1 DEF WorkerTakes, RequestsOK, requests
<1>5. BreakerOK'
  BY <1>1 DEF WorkerTakes, BreakerOK, requests, breaker
<1>6. ProcessesOK'
  BY <1>1 DEF WorkerTakes, ProcessesOK, requests, processes
<1>7. LocksFollow'
  BY <1>1 DEF WorkerTakes, LocksFollow, Located, BrokerInv, Switches, Go, locks, requests
<1>8. ChatIsCounted'
  BY <1>1 DEF WorkerTakes, ChatIsCounted, Located, BrokerInv, Go, requests
<1>9. ModelIsAgreed'
  BY <1>1 DEF WorkerTakes, ModelIsAgreed, Located, BrokerInv, Go, requests, processes
<1>10. StateIsHonest'
  BY <1>1
     DEF WorkerTakes, StateIsHonest, Located, BrokerInv, ReadyIsLoaded, Switches, Go, requests,
         processes
<1>11. StrayIsKnown'
  BY <1>1 DEF WorkerTakes, StrayIsKnown, BrokerInv, requests, processes
<1>12. BrokerTypeOK'
  BY <1>2, <1>3, <1>4, <1>5, <1>6
     DEF BrokerTypeOK, Located, HoldersOK, RequestsOK, BreakerOK, ProcessesOK
<1> QED BY <1>7, <1>8, <1>9, <1>10, <1>11, <1>12 DEF BrokerInv

LEMMA SceneArrivesKeeps ==
    ASSUME BrokerInv, NEW a \in Scenes, SceneArrives(a)
    PROVE  BrokerInv'
<1>1. Located /\ HoldersOK /\ RequestsOK /\ BreakerOK /\ ProcessesOK
  BY TypesSplit DEF BrokerInv
<1>2. Located'
  BY <1>1 DEF SceneArrives, Located, Actors, Waits, Go
<1>3. HoldersOK'
  BY <1>1 DEF SceneArrives, HoldersOK, locks, requests
<1>4. RequestsOK'
  BY <1>1 DEF SceneArrives, RequestsOK, requests
<1>5. BreakerOK'
  BY <1>1 DEF SceneArrives, BreakerOK, breaker
<1>6. ProcessesOK'
  BY <1>1 DEF SceneArrives, ProcessesOK, processes
<1>7. LocksFollow'
  BY <1>1 DEF SceneArrives, LocksFollow, Located, BrokerInv, Switches, Go, locks
<1>8. ChatIsCounted'
  BY <1>1 DEF SceneArrives, ChatIsCounted, Located, BrokerInv, Actors, Go, requests
<1>9. ModelIsAgreed'
  BY <1>1 DEF SceneArrives, ModelIsAgreed, Located, BrokerInv, Actors, Go, processes
<1>10. StateIsHonest'
  BY <1>1
     DEF SceneArrives, StateIsHonest, Located, BrokerInv, ReadyIsLoaded, Switches, Go, processes
<1>11. StrayIsKnown'
  BY <1>1 DEF SceneArrives, StrayIsKnown, BrokerInv, processes
<1>12. BrokerTypeOK'
  BY <1>2, <1>3, <1>4, <1>5, <1>6
     DEF BrokerTypeOK, Located, HoldersOK, RequestsOK, BreakerOK, ProcessesOK
<1> QED BY <1>7, <1>8, <1>9, <1>10, <1>11, <1>12 DEF BrokerInv

LEMMA ViewEndsKeeps ==
    ASSUME BrokerInv, NEW a \in Scenes, ViewEnds(a)
    PROVE  BrokerInv'
<1>1. Located /\ HoldersOK /\ RequestsOK /\ BreakerOK /\ ProcessesOK
  BY TypesSplit DEF BrokerInv
<1>2. Located'
  BY <1>1 DEF ViewEnds, Located, Actors, Go
<1>3. HoldersOK'
  BY <1>1 DEF ViewEnds, HoldersOK, locks, requests
<1>4. RequestsOK'
  BY <1>1 DEF ViewEnds, RequestsOK, locks, requests
<1>5. BreakerOK'
  BY <1>1 DEF ViewEnds, BreakerOK, breaker
<1>6. ProcessesOK'
  BY <1>1 DEF ViewEnds, ProcessesOK, processes
<1>7. LocksFollow'
  BY <1>1
     DEF ViewEnds, LocksFollow, Located, HoldersOK, BrokerInv, Actors, Switches, Go, locks,
         requests, breaker, processes
<1>8. ChatIsCounted'
  BY <1>1 DEF ViewEnds, ChatIsCounted, BrokerInv, Go, locks, requests
<1>9. ModelIsAgreed'
  BY <1>1 DEF ViewEnds, ModelIsAgreed, BrokerInv, Go, processes
<1>10. StateIsHonest'
  BY <1>1 DEF ViewEnds, StateIsHonest, BrokerInv, ReadyIsLoaded, Switches, Go, processes
<1>11. StrayIsKnown'
  BY <1>1 DEF ViewEnds, StrayIsKnown, BrokerInv, processes
<1>12. BrokerTypeOK'
  BY <1>2, <1>3, <1>4, <1>5, <1>6
     DEF BrokerTypeOK, Located, HoldersOK, RequestsOK, BreakerOK, ProcessesOK
<1> QED BY <1>7, <1>8, <1>9, <1>10, <1>11, <1>12 DEF BrokerInv

LEMMA ActivateCalledKeeps ==
    ASSUME BrokerInv, NEW a \in Scenes \cup {Worker}, ActivateCalled(a)
    PROVE  BrokerInv'
<1>1. Located /\ HoldersOK /\ RequestsOK /\ BreakerOK /\ ProcessesOK
  BY TypesSplit DEF BrokerInv
<1>2. Located'
  BY <1>1 DEF ActivateCalled, Located, Raised, Actors, Waits, Go
<1>3. HoldersOK'
  BY <1>1 DEF ActivateCalled, HoldersOK, Raised, Settle, FaultOf, locks, requests
<1>4. RequestsOK'
  BY <1>1, RaisedTypes, ChatIsSettled DEF ActivateCalled, RequestsOK, requests
<1>5. BreakerOK'
  BY <1>1, BreakerMoves DEF ActivateCalled, BreakerOK, breaker
<1>6. ProcessesOK'
  BY <1>1 DEF ActivateCalled, ProcessesOK, processes
<1>7. LocksFollow'
  BY <1>1 DEF ActivateCalled, LocksFollow, Raised, Located, BrokerInv, Switches, Go, locks
<1>8. ChatIsCounted'
  BY <1>1
     DEF ActivateCalled, ChatIsCounted, Raised, Settle, Located, BrokerInv, Actors, Go, requests
<1>9. ModelIsAgreed'
  BY <1>1 DEF ActivateCalled, ModelIsAgreed, Raised, Located, BrokerInv, Actors, Go, processes
<1>10. StateIsHonest'
  BY <1>1
     DEF ActivateCalled, StateIsHonest, Raised, FaultOf, Located, BrokerInv, ReadyIsLoaded,
         Switches, Go, processes
<1>11. StrayIsKnown'
  BY <1>1 DEF ActivateCalled, StrayIsKnown, BrokerInv, processes
<1>12. BrokerTypeOK'
  BY <1>2, <1>3, <1>4, <1>5, <1>6
     DEF BrokerTypeOK, Located, HoldersOK, RequestsOK, BreakerOK, ProcessesOK
<1> QED BY <1>7, <1>8, <1>9, <1>10, <1>11, <1>12 DEF BrokerInv

LEMMA ActivateLocksKeeps ==
    ASSUME BrokerInv, NEW a \in Scenes \cup {Worker}, ActivateLocks(a)
    PROVE  BrokerInv'
<1>1. Located /\ HoldersOK /\ RequestsOK /\ BreakerOK /\ ProcessesOK
  BY TypesSplit DEF BrokerInv
<1>2. Located'
  BY <1>1 DEF ActivateLocks, Located, Actors, Waits, Go
<1>3. HoldersOK'
  BY <1>1 DEF ActivateLocks, HoldersOK, Actors, locks, requests
<1>4. RequestsOK'
  BY <1>1 DEF ActivateLocks, RequestsOK, locks, requests
<1>5. BreakerOK'
  BY <1>1 DEF ActivateLocks, BreakerOK, breaker
<1>6. ProcessesOK'
  BY <1>1 DEF ActivateLocks, ProcessesOK, processes
<1>7. LocksFollow'
  BY <1>1 DEF ActivateLocks, LocksFollow, Located, BrokerInv, Actors, Switches, Go
<1>8. ChatIsCounted'
  BY <1>1 DEF ActivateLocks, ChatIsCounted, Located, BrokerInv, Actors, Go, locks, requests
<1>9. ModelIsAgreed'
  BY <1>1 DEF ActivateLocks, ModelIsAgreed, Located, BrokerInv, Actors, Go, processes
<1>10. StateIsHonest'
  BY <1>1
     DEF ActivateLocks, StateIsHonest, Located, BrokerInv, ReadyIsLoaded, Switches, Go,
         processes
<1>11. StrayIsKnown'
  BY <1>1 DEF ActivateLocks, StrayIsKnown, BrokerInv, processes
<1>12. BrokerTypeOK'
  BY <1>2, <1>3, <1>4, <1>5, <1>6
     DEF BrokerTypeOK, Located, HoldersOK, RequestsOK, BreakerOK, ProcessesOK
<1> QED BY <1>7, <1>8, <1>9, <1>10, <1>11, <1>12 DEF BrokerInv

LEMMA SwitchBeginsKeeps ==
    ASSUME BrokerInv, NEW a \in Scenes \cup {Worker}, SwitchBegins(a)
    PROVE  BrokerInv'
<1>1. Located /\ HoldersOK /\ RequestsOK /\ BreakerOK /\ ProcessesOK
  BY TypesSplit DEF BrokerInv
<1>2. Located'
  BY <1>1 DEF SwitchBegins, Located, Actors, Waits, Go
<1>3. HoldersOK'
  BY <1>1 DEF SwitchBegins, HoldersOK, Actors, locks, requests
<1>4. RequestsOK'
  BY <1>1 DEF SwitchBegins, RequestsOK, locks, requests
<1>5. BreakerOK'
  BY <1>1 DEF SwitchBegins, BreakerOK, breaker
<1>6. ProcessesOK'
  BY <1>1 DEF SwitchBegins, ProcessesOK, processes
<1>7. LocksFollow'
  BY <1>1 DEF SwitchBegins, LocksFollow, Located, BrokerInv, Actors, Switches, Go
<1>8. ChatIsCounted'
  BY <1>1 DEF SwitchBegins, ChatIsCounted, BrokerInv, Go, locks, requests
<1>9. ModelIsAgreed'
  BY <1>1 DEF SwitchBegins, ModelIsAgreed, BrokerInv, Go, processes
<1>10. StateIsHonest'
  BY <1>1 DEF SwitchBegins, StateIsHonest, BrokerInv, ReadyIsLoaded, Actors
<1>11. StrayIsKnown'
  BY <1>1 DEF SwitchBegins, StrayIsKnown, BrokerInv, processes
<1>12. BrokerTypeOK'
  BY <1>2, <1>3, <1>4, <1>5, <1>6
     DEF BrokerTypeOK, Located, HoldersOK, RequestsOK, BreakerOK, ProcessesOK
<1> QED BY <1>7, <1>8, <1>9, <1>10, <1>11, <1>12 DEF BrokerInv

LEMMA SwitchStopsKeeps ==
    ASSUME BrokerInv, NEW a \in Scenes \cup {Worker}, SwitchStops(a)
    PROVE  BrokerInv'
<1>1. Located /\ HoldersOK /\ RequestsOK /\ BreakerOK /\ ProcessesOK
  BY TypesSplit DEF BrokerInv
<1>2. Located'
  BY <1>1 DEF SwitchStops, Located, SwitchFails, Raised, Actors, Waits, Go
<1>3. HoldersOK'
  BY <1>1 DEF SwitchStops, HoldersOK, SwitchFails, Raised, Settle, locks, requests
<1>4. RequestsOK'
  BY <1>1, RaisedTypes DEF SwitchStops, RequestsOK, SwitchFails, requests
<1>5. BreakerOK'
  BY <1>1, BreakerMoves DEF SwitchStops, BreakerOK, SwitchFails, breaker
<1>6. ProcessesOK'
  BY <1>1 DEF SwitchStops, ProcessesOK
<1>7. LocksFollow'
  BY <1>1
     DEF SwitchStops, LocksFollow, SwitchFails, Raised, Located, BrokerInv, Actors, Switches,
         Go, locks
<1>8. ChatIsCounted'
  BY <1>1
     DEF SwitchStops, ChatIsCounted, SwitchFails, Raised, Settle, Located, BrokerInv, Actors,
         Go, requests
<1>9. ModelIsAgreed'
  BY <1>1
     DEF SwitchStops, ModelIsAgreed, SwitchFails, Raised, Located, BrokerInv, LocksFollow,
         Actors, Switches, Go
<1>10. StateIsHonest'
  BY <1>1 DEF SwitchStops, StateIsHonest, SwitchFails, BrokerInv, ReadyIsLoaded, Actors, Switches
<1>11. StrayIsKnown'
  BY <1>1 DEF SwitchStops, StrayIsKnown, BrokerInv
<1>12. BrokerTypeOK'
  BY <1>2, <1>3, <1>4, <1>5, <1>6
     DEF BrokerTypeOK, Located, HoldersOK, RequestsOK, BreakerOK, ProcessesOK
<1> QED BY <1>7, <1>8, <1>9, <1>10, <1>11, <1>12 DEF BrokerInv

LEMMA SwitchStartsKeeps ==
    ASSUME BrokerInv, NEW a \in Scenes \cup {Worker}, SwitchStarts(a)
    PROVE  BrokerInv'
<1>1. Located /\ HoldersOK /\ RequestsOK /\ BreakerOK /\ ProcessesOK
  BY TypesSplit DEF BrokerInv
<1>2. Located'
  BY <1>1 DEF SwitchStarts, Located, SwitchFails, Started, Raised, Actors, Waits, Go
<1>3. HoldersOK'
  BY <1>1
     DEF SwitchStarts, HoldersOK, SwitchFails, Started, Raised, Settle, Target, Ready,
         ModelKinds, locks, requests
<1>4. RequestsOK'
  BY <1>1, RaisedTypes DEF SwitchStarts, RequestsOK, SwitchFails, locks, requests
<1>5. BreakerOK'
  BY <1>1, BreakerMoves DEF SwitchStarts, BreakerOK, SwitchFails, Started
<1>6. ProcessesOK'
  BY <1>1 DEF SwitchStarts, ProcessesOK, Target, ModelKinds
<1>7. LocksFollow'
  BY <1>1
     DEF SwitchStarts, LocksFollow, SwitchFails, Started, Raised, Located, BrokerInv, Actors,
         Switches, Go
<1>8. ChatIsCounted'
  BY <1>1
     DEF SwitchStarts, ChatIsCounted, SwitchFails, Started, Raised, Settle, Located, BrokerInv,
         Actors, Go, locks, requests
<1>9. ModelIsAgreed'
  BY <1>1
     DEF SwitchStarts, ModelIsAgreed, SwitchFails, Started, Raised, Located, BrokerInv,
         LocksFollow, Actors, Switches, Go
<1>10. StateIsHonest'
  BY <1>1
     DEF SwitchStarts, StateIsHonest, SwitchFails, Started, Target, Ready, Located, BrokerInv,
         LocksFollow, ReadyIsLoaded, Actors, Switches, Go
<1>11. StrayIsKnown'
  BY <1>1 DEF SwitchStarts, StrayIsKnown, Started, BrokerInv, ModelIsAgreed, locks, requests
<1>12. BrokerTypeOK'
  BY <1>2, <1>3, <1>4, <1>5, <1>6
     DEF BrokerTypeOK, Located, HoldersOK, RequestsOK, BreakerOK, ProcessesOK
<1> QED BY <1>7, <1>8, <1>9, <1>10, <1>11, <1>12 DEF BrokerInv

LEMMA ActivationTimesOutKeeps ==
    ASSUME BrokerInv, NEW a \in Scenes \cup {Worker}, ActivationTimesOut(a)
    PROVE  BrokerInv'
<1>1. Located /\ HoldersOK /\ RequestsOK /\ BreakerOK /\ ProcessesOK
  BY TypesSplit DEF BrokerInv
<1>2. Located'
  BY <1>1 DEF ActivationTimesOut, Located, Raised, Actors, Waits, Go
<1>3. HoldersOK'
  BY <1>1 DEF ActivationTimesOut, HoldersOK, Raised, Settle, FaultOf, locks, requests
<1>4. RequestsOK'
  BY <1>1, RaisedTypes DEF ActivationTimesOut, RequestsOK, requests
<1>5. BreakerOK'
  BY <1>1, BreakerMoves DEF ActivationTimesOut, BreakerOK, requests, breaker
<1>6. ProcessesOK'
  <2>1. /\ loaded' = loaded /\ servers' = servers /\ stray' \in BOOLEAN
        /\ \/ leftover' = leftover
           \/ leftover' = leftover \cup {<<"start", Target(a)>>}
           \/ active # None /\ leftover' = leftover \cup {<<"stop", active>>}
    BY <1>1 DEF ActivationTimesOut, BrokerInv, ModelIsAgreed, Actors, ProcessesOK
  <2> QED BY <1>1, <2>1, Scripts DEF ProcessesOK, HoldersOK, Target, ModelKinds
<1>7. LocksFollow'
  BY <1>1
     DEF ActivationTimesOut, LocksFollow, Raised, Located, BrokerInv, Actors, Switches, Go,
         locks
<1>8. ChatIsCounted'
  BY <1>1
     DEF ActivationTimesOut, ChatIsCounted, Raised, Settle, Located, BrokerInv, Actors, Go,
         requests
<1>9. ModelIsAgreed'
  BY <1>1 DEF ActivationTimesOut, ModelIsAgreed, Raised, Located, BrokerInv, Actors, Go
<1>10. StateIsHonest'
  BY <1>1
     DEF ActivationTimesOut, StateIsHonest, Raised, FaultOf, Located, BrokerInv, ReadyIsLoaded,
         Switches, Go
<1>11. StrayIsKnown'
  BY <1>1 DEF ActivationTimesOut, StrayIsKnown, BrokerInv
<1>12. BrokerTypeOK'
  BY <1>2, <1>3, <1>4, <1>5, <1>6
     DEF BrokerTypeOK, Located, HoldersOK, RequestsOK, BreakerOK, ProcessesOK
<1> QED BY <1>7, <1>8, <1>9, <1>10, <1>11, <1>12 DEF BrokerInv

LEMMA RecheckKeeps ==
    ASSUME BrokerInv, NEW a \in Scenes \cup {Worker}, Recheck(a)
    PROVE  BrokerInv'
<1>1. Located /\ HoldersOK /\ RequestsOK /\ BreakerOK /\ ProcessesOK
  BY TypesSplit DEF BrokerInv
<1>2. Located'
  BY <1>1 DEF Recheck, Located, Raised, Actors, Waits, Go
<1>3. HoldersOK'
  BY <1>1
     DEF Recheck, HoldersOK, Raised, Settle, FaultOf, Actors, locks, requests, BrokerInv,
         ChatIsCounted
<1>4. RequestsOK'
  BY <1>1, RaisedTypes DEF Recheck, RequestsOK, requests
<1>5. BreakerOK'
  BY <1>1 DEF Recheck, BreakerOK, breaker
<1>6. ProcessesOK'
  BY <1>1 DEF Recheck, ProcessesOK, processes
<1>7. LocksFollow'
  <2>1. lifecycle = None /\ active = Target(a) /\ actorAt[a] = "activated" => runtime = None
    BY <1>1 DEF Target, Located, Waits, HoldersOK, BrokerInv, LocksFollow, ModelIsAgreed, Actors
  <2> QED BY <1>1, <2>1
     DEF Recheck, Raised, Located, BrokerInv, LocksFollow, Actors, Switches, Go, locks
<1>8. ChatIsCounted'
  BY <1>1
     DEF Recheck, ChatIsCounted, Raised, Settle, Located, HoldersOK, BrokerInv, Actors, Go,
         requests
<1>9. ModelIsAgreed'
  BY <1>1 DEF Recheck, ModelIsAgreed, Raised, Target, Located, BrokerInv, Actors, Go, processes
<1>10. StateIsHonest'
  BY <1>1
     DEF Recheck, StateIsHonest, Raised, FaultOf, Target, Ready, Located, BrokerInv,
         ReadyIsLoaded, Switches, Go, processes
<1>11. StrayIsKnown'
  BY <1>1 DEF Recheck, StrayIsKnown, BrokerInv, processes
<1>12. BrokerTypeOK'
  BY <1>2, <1>3, <1>4, <1>5, <1>6
     DEF BrokerTypeOK, Located, HoldersOK, RequestsOK, BreakerOK, ProcessesOK
<1> QED BY <1>7, <1>8, <1>9, <1>10, <1>11, <1>12 DEF BrokerInv

LEMMA ChatEndsKeeps ==
    ASSUME BrokerInv, ChatEnds
    PROVE  BrokerInv'
<1>1. Located /\ HoldersOK /\ RequestsOK /\ BreakerOK /\ ProcessesOK
  BY TypesSplit DEF BrokerInv
<1>2. Located'
  BY <1>1 DEF ChatEnds, Located, Actors, Go, requests
<1>3. HoldersOK'
  BY <1>1 DEF ChatEnds, HoldersOK, locks, requests
<1>4. RequestsOK'
  BY <1>1 DEF ChatEnds, RequestsOK, requests
<1>5. BreakerOK'
  BY <1>1 DEF ChatEnds, BreakerOK, requests, breaker
<1>6. ProcessesOK'
  BY <1>1 DEF ChatEnds, ProcessesOK, requests, processes
<1>7. LocksFollow'
  BY <1>1 DEF ChatEnds, LocksFollow, BrokerInv, Switches, Go, locks, requests
<1>8. ChatIsCounted'
  BY <1>1 DEF ChatEnds, ChatIsCounted, BrokerInv, Go, requests
<1>9. ModelIsAgreed'
  BY <1>1 DEF ChatEnds, ModelIsAgreed, BrokerInv, Go, requests, processes
<1>10. StateIsHonest'
  BY <1>1 DEF ChatEnds, StateIsHonest, BrokerInv, ReadyIsLoaded, Switches, Go, requests, processes
<1>11. StrayIsKnown'
  BY <1>1 DEF ChatEnds, StrayIsKnown, BrokerInv, requests, processes
<1>12. BrokerTypeOK'
  BY <1>2, <1>3, <1>4, <1>5, <1>6
     DEF BrokerTypeOK, Located, HoldersOK, RequestsOK, BreakerOK, ProcessesOK
<1> QED BY <1>7, <1>8, <1>9, <1>10, <1>11, <1>12 DEF BrokerInv

LEMMA ChatReturnsKeeps ==
    ASSUME BrokerInv, ChatReturns
    PROVE  BrokerInv'
<1>1. Located /\ HoldersOK /\ RequestsOK /\ BreakerOK /\ ProcessesOK
  BY TypesSplit DEF BrokerInv
<1>2. Located'
  BY <1>1 DEF ChatReturns, Located, Actors, Waits, Go, locks, requests
<1>3. HoldersOK'
  BY <1>1 DEF ChatReturns, HoldersOK, Settle, BrokerInv, ChatIsCounted
<1>4. RequestsOK'
  BY <1>1, ChatIsSettled DEF ChatReturns, RequestsOK, locks, requests
<1>5. BreakerOK'
  BY <1>1 DEF ChatReturns, BreakerOK, locks, requests, breaker
<1>6. ProcessesOK'
  BY <1>1 DEF ChatReturns, ProcessesOK, locks, requests, processes
<1>7. LocksFollow'
  BY <1>1 DEF ChatReturns, LocksFollow, Located, BrokerInv, Actors, Switches, Go, locks, requests
<1>8. ChatIsCounted'
  BY <1>1 DEF ChatReturns, ChatIsCounted, Settle, Located, BrokerInv, Actors, Go, locks, requests
<1>9. ModelIsAgreed'
  BY <1>1 DEF ChatReturns, ModelIsAgreed, BrokerInv, Go, locks, requests, processes
<1>10. StateIsHonest'
  BY <1>1
     DEF ChatReturns, StateIsHonest, BrokerInv, LocksFollow, ModelIsAgreed, ReadyIsLoaded,
         Actors, Switches, Go, locks, requests, processes
<1>11. StrayIsKnown'
  BY <1>1 DEF ChatReturns, StrayIsKnown, BrokerInv, locks, requests, processes
<1>12. BrokerTypeOK'
  BY <1>2, <1>3, <1>4, <1>5, <1>6
     DEF BrokerTypeOK, Located, HoldersOK, RequestsOK, BreakerOK, ProcessesOK
<1> QED BY <1>7, <1>8, <1>9, <1>10, <1>11, <1>12 DEF BrokerInv

LEMMA UnloadLocksKeeps ==
    ASSUME BrokerInv, NEW a \in Scenes \cup {Closer}, UnloadLocks(a)
    PROVE  BrokerInv'
<1>1. Located /\ HoldersOK /\ RequestsOK /\ BreakerOK /\ ProcessesOK
  BY TypesSplit DEF BrokerInv
<1>2. Located'
  BY <1>1 DEF UnloadLocks, Located, AfterUnload, Actors, Go
<1>3. HoldersOK'
  BY <1>1 DEF UnloadLocks, HoldersOK, Actors, locks, requests
<1>4. RequestsOK'
  BY <1>1 DEF UnloadLocks, RequestsOK, requests
<1>5. BreakerOK'
  BY <1>1 DEF UnloadLocks, BreakerOK, breaker
<1>6. ProcessesOK'
  BY <1>1 DEF UnloadLocks, ProcessesOK, processes
<1>7. LocksFollow'
  <2>1. lifecycle = None /\ inFlight = 0 => runtime = None
    BY <1>1 DEF Located, Waits, HoldersOK, BrokerInv, LocksFollow, ChatIsCounted, Actors
  <2> QED BY <1>1, <2>1
     DEF UnloadLocks, AfterUnload, Located, BrokerInv, LocksFollow, Actors, Switches, Go, locks
<1>8. ChatIsCounted'
  BY <1>1 DEF UnloadLocks, ChatIsCounted, AfterUnload, Located, BrokerInv, Actors, Go, requests
<1>9. ModelIsAgreed'
  BY <1>1 DEF UnloadLocks, ModelIsAgreed, AfterUnload, Located, BrokerInv, Actors, Go, processes
<1>10. StateIsHonest'
  BY <1>1
     DEF UnloadLocks, StateIsHonest, AfterUnload, Located, BrokerInv, ReadyIsLoaded, Switches,
         Go, processes
<1>11. StrayIsKnown'
  BY <1>1 DEF UnloadLocks, StrayIsKnown, BrokerInv, processes
<1>12. BrokerTypeOK'
  BY <1>2, <1>3, <1>4, <1>5, <1>6
     DEF BrokerTypeOK, Located, HoldersOK, RequestsOK, BreakerOK, ProcessesOK
<1> QED BY <1>7, <1>8, <1>9, <1>10, <1>11, <1>12 DEF BrokerInv

LEMMA UnloadEndsKeeps ==
    ASSUME BrokerInv, NEW a \in Scenes \cup {Closer}, UnloadEnds(a)
    PROVE  BrokerInv'
<1>1. Located /\ HoldersOK /\ RequestsOK /\ BreakerOK /\ ProcessesOK
  BY TypesSplit DEF BrokerInv
<1>2. Located'
  BY <1>1 DEF UnloadEnds, Located, AfterUnload, Actors, Go
<1>3. HoldersOK'
  BY <1>1 DEF UnloadEnds, HoldersOK, locks, requests
<1>4. RequestsOK'
  BY <1>1 DEF UnloadEnds, RequestsOK, locks, requests
<1>5. BreakerOK'
  BY <1>1, BreakerMoves DEF UnloadEnds, BreakerOK, breaker
<1>6. ProcessesOK'
  <2>1. /\ loaded' \in {None, loaded} /\ servers' \subseteq servers /\ stray' \in BOOLEAN
        /\ \/ leftover' = leftover
           \/ active # None /\ leftover' = leftover \cup {<<"stop", active>>}
    BY <1>1 DEF UnloadEnds, BrokerInv, ModelIsAgreed, Actors, ProcessesOK
  <2> QED BY <1>1, <2>1, Scripts DEF ProcessesOK, HoldersOK
<1>7. LocksFollow'
  BY <1>1 DEF UnloadEnds, LocksFollow, AfterUnload, Located, BrokerInv, Actors, Switches, Go
<1>8. ChatIsCounted'
  BY <1>1 DEF UnloadEnds, ChatIsCounted, AfterUnload, BrokerInv, Go, locks, requests
<1>9. ModelIsAgreed'
  BY <1>1
     DEF UnloadEnds, ModelIsAgreed, AfterUnload, Located, BrokerInv, LocksFollow, Actors,
         Switches, Go
<1>10. StateIsHonest'
  BY <1>1 DEF UnloadEnds, StateIsHonest, BrokerInv, ReadyIsLoaded, Actors, Switches
<1>11. StrayIsKnown'
  BY <1>1 DEF UnloadEnds, StrayIsKnown, BrokerInv
<1>12. BrokerTypeOK'
  BY <1>2, <1>3, <1>4, <1>5, <1>6
     DEF BrokerTypeOK, Located, HoldersOK, RequestsOK, BreakerOK, ProcessesOK
<1> QED BY <1>7, <1>8, <1>9, <1>10, <1>11, <1>12 DEF BrokerInv

LEMMA LeftoverEndsKeeps ==
    ASSUME BrokerInv, LeftoverEnds
    PROVE  BrokerInv'
<1>1. Located /\ HoldersOK /\ RequestsOK /\ BreakerOK /\ ProcessesOK
  BY TypesSplit DEF BrokerInv
<1>2. Located'
  BY <1>1 DEF LeftoverEnds, Located
<1>3. HoldersOK'
  BY <1>1 DEF LeftoverEnds, HoldersOK, Go, locks, requests
<1>4. RequestsOK'
  BY <1>1 DEF LeftoverEnds, RequestsOK, requests
<1>5. BreakerOK'
  BY <1>1 DEF LeftoverEnds, BreakerOK, breaker
<1>6. ProcessesOK'
  BY <1>1 DEF LeftoverEnds, ProcessesOK
<1>7. LocksFollow'
  BY <1>1 DEF LeftoverEnds, LocksFollow, BrokerInv, locks
<1>8. ChatIsCounted'
  BY <1>1 DEF LeftoverEnds, ChatIsCounted, BrokerInv, requests
<1>9. ModelIsAgreed'
  BY <1>1 DEF LeftoverEnds, ModelIsAgreed, BrokerInv
<1>10. StateIsHonest'
  BY <1>1 DEF LeftoverEnds, StateIsHonest, BrokerInv, ReadyIsLoaded
<1>11. StrayIsKnown'
  BY <1>1 DEF LeftoverEnds, StrayIsKnown, BrokerInv
<1>12. BrokerTypeOK'
  BY <1>2, <1>3, <1>4, <1>5, <1>6
     DEF BrokerTypeOK, Located, HoldersOK, RequestsOK, BreakerOK, ProcessesOK
<1> QED BY <1>7, <1>8, <1>9, <1>10, <1>11, <1>12 DEF BrokerInv

LEMMA CloseBeginsKeeps ==
    ASSUME BrokerInv, CloseBegins
    PROVE  BrokerInv'
<1>1. Located /\ HoldersOK /\ RequestsOK /\ BreakerOK /\ ProcessesOK
  BY TypesSplit DEF BrokerInv
<1>2. Located'
  BY <1>1 DEF CloseBegins, Located, Actors, Go, requests
<1>3. HoldersOK'
  BY <1>1 DEF CloseBegins, HoldersOK, locks, requests
<1>4. RequestsOK'
  BY <1>1 DEF CloseBegins, RequestsOK, requests
<1>5. BreakerOK'
  BY <1>1 DEF CloseBegins, BreakerOK, requests, breaker
<1>6. ProcessesOK'
  BY <1>1 DEF CloseBegins, ProcessesOK, requests, processes
<1>7. LocksFollow'
  BY <1>1 DEF CloseBegins, LocksFollow, BrokerInv, Switches, Go, locks, requests
<1>8. ChatIsCounted'
  BY <1>1 DEF CloseBegins, ChatIsCounted, BrokerInv, Go, requests
<1>9. ModelIsAgreed'
  BY <1>1 DEF CloseBegins, ModelIsAgreed, BrokerInv, Go, requests, processes
<1>10. StateIsHonest'
  BY <1>1
     DEF CloseBegins, StateIsHonest, BrokerInv, ReadyIsLoaded, Switches, Go, requests, processes
<1>11. StrayIsKnown'
  BY <1>1 DEF CloseBegins, StrayIsKnown, BrokerInv, requests, processes
<1>12. BrokerTypeOK'
  BY <1>2, <1>3, <1>4, <1>5, <1>6
     DEF BrokerTypeOK, Located, HoldersOK, RequestsOK, BreakerOK, ProcessesOK
<1> QED BY <1>7, <1>8, <1>9, <1>10, <1>11, <1>12 DEF BrokerInv

LEMMA DrainEndsKeeps ==
    ASSUME BrokerInv, DrainEnds
    PROVE  BrokerInv'
<1>1. Located /\ HoldersOK /\ RequestsOK /\ BreakerOK /\ ProcessesOK
  BY TypesSplit DEF BrokerInv
<1>2. Located'
  BY <1>1 DEF DrainEnds, Located, Actors, Go
<1>3. HoldersOK'
  BY <1>1 DEF DrainEnds, HoldersOK, locks, requests
<1>4. RequestsOK'
  BY <1>1 DEF DrainEnds, RequestsOK, requests
<1>5. BreakerOK'
  BY <1>1 DEF DrainEnds, BreakerOK, breaker
<1>6. ProcessesOK'
  BY <1>1 DEF DrainEnds, ProcessesOK, processes
<1>7. LocksFollow'
  BY <1>1 DEF DrainEnds, LocksFollow, BrokerInv, Switches, Go, locks
<1>8. ChatIsCounted'
  BY <1>1 DEF DrainEnds, ChatIsCounted, BrokerInv, Go, requests
<1>9. ModelIsAgreed'
  BY <1>1 DEF DrainEnds, ModelIsAgreed, BrokerInv, Go, processes
<1>10. StateIsHonest'
  BY <1>1 DEF DrainEnds, StateIsHonest, BrokerInv, ReadyIsLoaded, Switches, Go, processes
<1>11. StrayIsKnown'
  BY <1>1 DEF DrainEnds, StrayIsKnown, BrokerInv, processes
<1>12. BrokerTypeOK'
  BY <1>2, <1>3, <1>4, <1>5, <1>6
     DEF BrokerTypeOK, Located, HoldersOK, RequestsOK, BreakerOK, ProcessesOK
<1> QED BY <1>7, <1>8, <1>9, <1>10, <1>11, <1>12 DEF BrokerInv

LEMMA CloseTimesOutKeeps ==
    ASSUME BrokerInv, CloseTimesOut
    PROVE  BrokerInv'
<1>1. Located /\ HoldersOK /\ RequestsOK /\ BreakerOK /\ ProcessesOK
  BY TypesSplit DEF BrokerInv
<1>2. Located'
  BY <1>1 DEF CloseTimesOut, Located, Actors, Go
<1>3. HoldersOK'
  BY <1>1 DEF CloseTimesOut, HoldersOK, locks, requests
<1>4. RequestsOK'
  BY <1>1 DEF CloseTimesOut, RequestsOK, requests
<1>5. BreakerOK'
  BY <1>1 DEF CloseTimesOut, BreakerOK, breaker
<1>6. ProcessesOK'
  BY <1>1 DEF CloseTimesOut, ProcessesOK, processes
<1>7. LocksFollow'
  BY <1>1 DEF CloseTimesOut, LocksFollow, BrokerInv, Switches, Go, locks
<1>8. ChatIsCounted'
  BY <1>1 DEF CloseTimesOut, ChatIsCounted, BrokerInv, Go, requests
<1>9. ModelIsAgreed'
  BY <1>1 DEF CloseTimesOut, ModelIsAgreed, BrokerInv, Go, processes
<1>10. StateIsHonest'
  BY <1>1 DEF CloseTimesOut, StateIsHonest, BrokerInv, ReadyIsLoaded, Switches, Go, processes
<1>11. StrayIsKnown'
  BY <1>1 DEF CloseTimesOut, StrayIsKnown, BrokerInv, processes
<1>12. BrokerTypeOK'
  BY <1>2, <1>3, <1>4, <1>5, <1>6
     DEF BrokerTypeOK, Located, HoldersOK, RequestsOK, BreakerOK, ProcessesOK
<1> QED BY <1>7, <1>8, <1>9, <1>10, <1>11, <1>12 DEF BrokerInv

LEMMA CloseEndsKeeps ==
    ASSUME BrokerInv, CloseEnds
    PROVE  BrokerInv'
<1>1. Located /\ HoldersOK /\ RequestsOK /\ BreakerOK /\ ProcessesOK
  BY TypesSplit DEF BrokerInv
<1>2. Located'
  BY <1>1 DEF CloseEnds, Located, Actors, requests
<1>3. HoldersOK'
  BY <1>1 DEF CloseEnds, HoldersOK, Go, locks, requests
<1>4. RequestsOK'
  BY <1>1 DEF CloseEnds, RequestsOK, requests
<1>5. BreakerOK'
  BY <1>1, BreakerMoves DEF CloseEnds, BreakerOK, requests, breaker
<1>6. ProcessesOK'
  <2>1. /\ loaded' = loaded /\ servers' = servers /\ stray' \in BOOLEAN
        /\ \/ leftover' = leftover
           \/ leftover' = leftover \cup {<<"start", "llm">>}
           \/ active # None /\ leftover' = leftover \cup {<<"stop", active>>}
    BY <1>1 DEF CloseEnds, BrokerInv, ModelIsAgreed, Actors, ProcessesOK
  <2> QED BY <1>1, <2>1, Scripts DEF ProcessesOK, HoldersOK, ModelKinds
<1>7. LocksFollow'
  BY <1>1 DEF CloseEnds, LocksFollow, Located, BrokerInv, Actors, Switches, Go, locks, requests
<1>8. ChatIsCounted'
  BY <1>1 DEF CloseEnds, ChatIsCounted, Located, BrokerInv, Actors, requests
<1>9. ModelIsAgreed'
  BY <1>1 DEF CloseEnds, ModelIsAgreed, Located, BrokerInv, Actors, requests
<1>10. StateIsHonest'
  BY <1>1 DEF CloseEnds, StateIsHonest, Located, BrokerInv, ReadyIsLoaded, Switches, requests
<1>11. StrayIsKnown'
  BY <1>1 DEF CloseEnds, StrayIsKnown, BrokerInv, requests
<1>12. BrokerTypeOK'
  BY <1>2, <1>3, <1>4, <1>5, <1>6
     DEF BrokerTypeOK, Located, HoldersOK, RequestsOK, BreakerOK, ProcessesOK
<1> QED BY <1>7, <1>8, <1>9, <1>10, <1>11, <1>12 DEF BrokerInv

LEMMA BrokerInvStep == BrokerInv /\ [BrokerNext]_brokerVars => BrokerInv'
<1> SUFFICES ASSUME BrokerInv, [BrokerNext]_brokerVars PROVE BrokerInv'
  OBVIOUS
<1>1. CASE BrokerNext
  BY <1>1, ChatArrivesKeeps, ChatExpiresKeeps, WorkerTakesKeeps, SceneArrivesKeeps, ViewEndsKeeps,
     ActivateCalledKeeps, ActivateLocksKeeps, SwitchBeginsKeeps, SwitchStopsKeeps,
     SwitchStartsKeeps, ActivationTimesOutKeeps, RecheckKeeps, ChatEndsKeeps, ChatReturnsKeeps,
     UnloadLocksKeeps, UnloadEndsKeeps, LeftoverEndsKeeps, CloseBeginsKeeps, DrainEndsKeeps,
     CloseTimesOutKeeps, CloseEndsKeeps
     DEF BrokerNext, User
<1>2. CASE UNCHANGED brokerVars
  BY <1>2
     DEF brokerVars, locks, requests, breaker, processes, BrokerInv, BrokerTypeOK, LocksFollow,
     ChatIsCounted, ModelIsAgreed, StateIsHonest, ReadyIsLoaded, StrayIsKnown
<1> QED BY <1>1, <1>2

LEMMA BrokerInvariant == BrokerSpec => []BrokerInv
<1> QED BY BrokerInvInit, BrokerInvStep, PTL DEF BrokerSpec

-----------------------------------------------------------------------------
(* What follows from it                                                    *)

LEMMA BrokerInvSuffices ==
    BrokerInv => /\ BrokerTypeOK /\ UseIsExclusive /\ InFlightAccounted
                 /\ ReadyIsLoaded /\ ServersAreKnown
<1> SUFFICES ASSUME BrokerInv
             PROVE  /\ BrokerTypeOK /\ UseIsExclusive /\ InFlightAccounted
                    /\ ReadyIsLoaded /\ ServersAreKnown
  OBVIOUS
<1>1. Located /\ HoldersOK
  BY TypesSplit DEF BrokerInv
<1>2. UseIsExclusive
  BY <1>1 DEF BrokerInv, Located, Waits, HoldersOK, LocksFollow, ModelIsAgreed, UseIsExclusive,
     Switching, Switches, Actors
<1>3. InFlightAccounted
  BY <1>1 DEF BrokerInv, Located, Waits, HoldersOK, LocksFollow, ChatIsCounted, InFlightAccounted,
     Switching, Switches, Actors
<1>4. ServersAreKnown
  BY <1>1 DEF BrokerInv, ModelIsAgreed, StrayIsKnown, ServersAreKnown
<1> QED BY <1>2, <1>3, <1>4 DEF BrokerInv, StateIsHonest

\* use_model, chat, unload and close: in whatever order they are called, time out, fail or
\* are abandoned, a model is used by one caller and is the one that is loaded, a chat in
\* flight is counted, "ready" is never said while somebody switches, and a server that runs
\* beside the loaded model comes from a start or stop that was abandoned or failed.
THEOREM ModelsStayExclusive ==
    BrokerSpec => [](/\ BrokerTypeOK /\ UseIsExclusive /\ InFlightAccounted
                     /\ ReadyIsLoaded /\ ServersAreKnown)
<1> QED BY BrokerInvariant, BrokerInvSuffices, PTL

-----------------------------------------------------------------------------
(* LiteRTSession                                                           *)

SpokenTurns == [by : TurnRequests, text : {"raw", "guarded"}]
Held == Pending \ {"queued"}

\* The sequences of SessionTypeOK, said by their length.
LEMMA TranscriptsAreShort ==
    Transcripts = {h \in Seq(SpokenTurns) : Len(h) =< HistoryLimit + 1}
<1> USE LiteRTAssumption
<1>1. ASSUME NEW h \in Transcripts PROVE h \in Seq(SpokenTurns) /\ Len(h) =< HistoryLimit + 1
  <2>1. PICK m \in 0..(HistoryLimit + 1) : h \in [1..m -> SpokenTurns]
    BY DEF Transcripts, SeqOf, SpokenTurns
  <2>2. h \in Seq(SpokenTurns)
    BY <2>1, SeqDef
  <2>3. Len(h) = m
    BY <2>1, <2>2
  <2> QED BY <2>1, <2>2, <2>3
<1>2. ASSUME NEW h \in Seq(SpokenTurns), Len(h) =< HistoryLimit + 1 PROVE h \in Transcripts
  <2>1. Len(h) \in 0..(HistoryLimit + 1) /\ h \in [1..Len(h) -> SpokenTurns]
    BY <1>2
  <2> QED BY <2>1 DEF Transcripts, SeqOf, SpokenTurns
<1> QED BY <1>1, <1>2

\* A history that is trimmed is within the limit, and is itself when it was so before.
LEMMA TrimmedIsShort ==
    ASSUME NEW h \in Seq(SpokenTurns)
    PROVE  /\ TurnTrimmed(h) \in Seq(SpokenTurns) /\ Len(TurnTrimmed(h)) =< HistoryLimit
           /\ Len(h) =< HistoryLimit => TurnTrimmed(h) = h
<1> USE LiteRTAssumption
<1>1. CASE Len(h) > HistoryLimit
  <2> DEFINE m == Len(h) - HistoryLimit + 1
  <2>1. /\ m \in Int /\ Len(h) \in Int /\ m >= 1 /\ Len(h) - m + 1 = HistoryLimit
        /\ \A i \in m..Len(h) : h[i] \in SpokenTurns
    BY <1>1
  <2> HIDE DEF m
  <2>2. /\ SubSeq(h, m, Len(h)) \in Seq(SpokenTurns)
        /\ Len(SubSeq(h, m, Len(h))) = IF m =< Len(h) THEN Len(h) - m + 1 ELSE 0
    BY <2>1, SubSeqProperties
  <2>3. TurnTrimmed(h) = SubSeq(h, m, Len(h))
    BY <1>1 DEF TurnTrimmed, m
  <2> QED BY <1>1, <2>1, <2>2, <2>3
<1>2. CASE ~(Len(h) > HistoryLimit)
  BY <1>2 DEF TurnTrimmed
<1> QED BY <1>1, <1>2

\* Who holds the lock, and the types.
SessionTypes ==
    /\ turn \in [TurnRequests -> {"new"} \cup Pending \cup Endings]
    /\ asked \subseteq requested /\ requested \subseteq TurnRequests
    /\ displayed = [s \in Sessions |-> displayed[s]]
    /\ \A s \in Sessions : displayed[s] \in Seq(SpokenTurns) /\ Len(displayed[s]) =< HistoryLimit + 1
    /\ reset \in [Sessions -> BOOLEAN]
    /\ provider \in [key : Sessions \cup {None}, visible : Seq(SpokenTurns), recovery : BOOLEAN, ready : BOOLEAN]
    /\ sidecar \in [ready : BOOLEAN, ctx : Seq(SpokenTurns), busy : BOOLEAN]
    /\ sidecarFaults \in 0..MaxSidecarFaults
LockIsHeld ==
    /\ hostState = "idle" <=> holder = None
    /\ holder \in TurnRequests \cup {None}
    /\ \A r \in TurnRequests : holder = r <=> turn[r] \in Held

\* What was cancelled was named, and nothing drifts; the history a turn is answered from is short.
TurnsAreFair ==
    /\ \A r \in TurnRequests : turn[r] = "cancelled" => r \in requested
    /\ \A r \in TurnRequests : turn[r] # "drift"
    /\ \A r \in TurnRequests : turn[r] \in InProvider => Len(displayed[SessionOf[r]]) =< HistoryLimit

\* The provider's transcript is the one displayed, unless a reset was asked for, and the native
\* context is the provider's transcript, unless it is to be recovered or is not ready.
TranscriptsAgree ==
    /\ \A s \in Sessions : provider.key = s /\ ~reset[s] => provider.visible = displayed[s]
    /\ ~provider.recovery /\ sidecar.ready => sidecar.ctx = provider.visible
    /\ sidecar.busy => provider.recovery \/ \E r \in TurnRequests : turn[r] = "generating"

\* What a turn has found between two steps of its own.
ProviderIsTheirs ==
    /\ \A r \in TurnRequests : turn[r] = "recovering" =>
          provider.key = SessionOf[r] /\ provider.visible = displayed[SessionOf[r]]
    /\ \A r \in TurnRequests : turn[r] = "preparing" =>
          /\ provider.key = SessionOf[r] /\ provider.visible = displayed[SessionOf[r]] /\ ~provider.recovery
          /\ sidecar.ctx = provider.visible /\ ~sidecar.busy
    /\ \A r \in TurnRequests : turn[r] = "generating" =>
          /\ provider.key = SessionOf[r] /\ provider.visible = displayed[SessionOf[r]] /\ ~provider.recovery
          /\ sidecar.ctx = provider.visible /\ sidecar.ready /\ sent = provider.visible

SessionInv == SessionTypes /\ LockIsHeld /\ TurnsAreFair /\ TranscriptsAgree /\ ProviderIsTheirs

LEMMA SessionInvInit == SessionInit => SessionInv
<1> SUFFICES ASSUME SessionInit PROVE SessionInv
  OBVIOUS
<1> USE LiteRTAssumption
<1>1. /\ turn = [r \in TurnRequests |-> "new"] /\ asked = {} /\ holder = None /\ hostState = "idle"
      /\ displayed = [s \in Sessions |-> <<>>] /\ reset = [s \in Sessions |-> FALSE]
      /\ provider = [key |-> None, visible |-> <<>>, recovery |-> FALSE, ready |-> FALSE]
      /\ sidecar = [ready |-> FALSE, ctx |-> <<>>, busy |-> FALSE]
      /\ requested = {} /\ sidecarFaults = 0
  BY DEF SessionInit
<1>2. <<>> \in Seq(SpokenTurns) /\ Len(<<>>) = 0
  OBVIOUS
<1>3. SessionTypes
  BY <1>1, <1>2 DEF SessionTypes
<1>4. \A r \in TurnRequests : turn[r] = "new"
  BY <1>1
<1> QED BY <1>1, <1>3, <1>4
        DEF SessionInv, LockIsHeld, TurnsAreFair, TranscriptsAgree, ProviderIsTheirs, Held, Pending, InProvider

LEMMA TurnArrivesKeeps ==
    ASSUME SessionInv, NEW r \in TurnRequests, TurnArrives(r)
    PROVE  SessionInv'
<1> USE LiteRTAssumption DEF SessionInv
<1>1. /\ turn[r] = "new" /\ DOMAIN turn' = TurnRequests /\ turn'[r] = "queued"
      /\ \A q \in TurnRequests : q # r => turn'[q] = turn[q]
      /\ turn' \in [TurnRequests -> {"new"} \cup Pending \cup Endings]
      /\ UNCHANGED <<asked, holder, hostState, displayed, reset, provider, sidecar, sent, requested, sidecarFaults>>
  BY DEF TurnArrives, SessionTypes, Pending
<1>2. SessionTypes'
  BY <1>1 DEF SessionTypes
<1>3. LockIsHeld'
  BY <1>1 DEF LockIsHeld, Held, Pending, InProvider
<1>4. TurnsAreFair'
  BY <1>1 DEF TurnsAreFair, InProvider
<1>5. TranscriptsAgree'
  BY <1>1 DEF TranscriptsAgree
<1> QED BY <1>1, <1>2, <1>3, <1>4, <1>5 DEF ProviderIsTheirs

LEMMA TurnLocksKeeps ==
    ASSUME SessionInv, NEW r \in TurnRequests, TurnLocks(r)
    PROVE  SessionInv'
<1> USE LiteRTAssumption DEF SessionInv
<1>1. /\ turn[r] = "queued" /\ holder = None /\ holder' = r /\ hostState' = "thinking"
      /\ DOMAIN turn' = TurnRequests /\ turn'[r] = "thinking"
      /\ \A q \in TurnRequests : q # r => turn'[q] = turn[q]
      /\ turn' \in [TurnRequests -> {"new"} \cup Pending \cup Endings]
      /\ UNCHANGED <<asked, displayed, reset, provider, sidecar, sent, requested, sidecarFaults>>
  BY DEF TurnLocks, SessionTypes, Pending
<1>2. SessionTypes'
  BY <1>1 DEF SessionTypes
<1>3. LockIsHeld'
  BY <1>1 DEF LockIsHeld, Held, Pending, InProvider
<1>4. TurnsAreFair'
  BY <1>1 DEF TurnsAreFair, InProvider
<1>5. TranscriptsAgree'
  BY <1>1 DEF TranscriptsAgree
<1> QED BY <1>1, <1>2, <1>3, <1>4, <1>5 DEF ProviderIsTheirs

\* A turn that leaves the lock leaves nobody in the provider.
LEMMA FinishTurnTurns ==
    ASSUME SessionInv, NEW r \in TurnRequests, NEW ending \in Endings, turn[r] \in Held,
           FinishTurn(r, ending)
    PROVE  /\ turn'[r] = ending /\ \A q \in TurnRequests : q # r => turn'[q] = turn[q] /\ turn[q] \notin Held
           /\ turn' \in [TurnRequests -> {"new"} \cup Pending \cup Endings]
           /\ LockIsHeld' /\ \A q \in TurnRequests : turn'[q] \notin Held
<1> USE LiteRTAssumption DEF SessionInv
<1>1. /\ turn' = [turn EXCEPT ![r] = ending] /\ holder' = None /\ hostState' = "idle"
  BY DEF FinishTurn
<1>2. \A q \in TurnRequests : turn[q] \in Held => q = r
  BY DEF LockIsHeld
<1>3. ending \notin Held
  BY DEF Endings, Held, Pending, InProvider
<1>4. turn'[r] = ending /\ \A q \in TurnRequests : q # r => turn'[q] = turn[q]
  BY <1>1 DEF SessionTypes
<1>5. turn' \in [TurnRequests -> {"new"} \cup Pending \cup Endings]
  BY <1>1 DEF SessionTypes
<1>6. \A q \in TurnRequests : turn'[q] \notin Held
  BY <1>2, <1>3, <1>4
<1>7. LockIsHeld'
  BY <1>1, <1>6 DEF LockIsHeld
<1> QED BY <1>2, <1>4, <1>5, <1>6, <1>7

LEMMA InProviderIsHeld == InProvider \subseteq Held /\ "thinking" \in Held /\ "speaking" \in Held
  BY DEF InProvider, Held, Pending

LEMMA TurnRefusedKeeps ==
    ASSUME SessionInv, NEW r \in TurnRequests, TurnRefused(r)
    PROVE  SessionInv'
<1> USE LiteRTAssumption DEF SessionInv
<1>1. /\ turn[r] = "thinking" /\ FinishTurn(r, "refused")
      /\ UNCHANGED <<asked, displayed, reset, provider, sidecar, sent, requested, sidecarFaults>>
  BY DEF TurnRefused
<1>2. /\ turn'[r] = "refused" /\ \A q \in TurnRequests : q # r => turn'[q] = turn[q]
      /\ turn' \in [TurnRequests -> {"new"} \cup Pending \cup Endings]
      /\ LockIsHeld' /\ \A q \in TurnRequests : turn'[q] \notin Held
  <2>1. "refused" \in Endings /\ turn[r] \in Held
    BY <1>1, InProviderIsHeld DEF Endings
  <2> QED BY <1>1, <2>1, FinishTurnTurns
<1>3. SessionTypes'
  BY <1>1, <1>2 DEF SessionTypes
<1>4. TurnsAreFair'
  BY <1>1, <1>2, InProviderIsHeld DEF TurnsAreFair
<1>5. TranscriptsAgree'
  BY <1>1, <1>2 DEF TranscriptsAgree
<1>6. ProviderIsTheirs'
  BY <1>2, InProviderIsHeld DEF ProviderIsTheirs, InProvider
<1> QED BY <1>2, <1>3, <1>4, <1>5, <1>6

\* A turn that goes on from one place of the lock to another.
LEMMA GoesOn ==
    ASSUME SessionInv, NEW r \in TurnRequests, NEW next \in Held, turn[r] \in Held,
           turn' = [turn EXCEPT ![r] = next], UNCHANGED <<holder, hostState>>
    PROVE  /\ turn'[r] = next /\ \A q \in TurnRequests : q # r => turn'[q] = turn[q] /\ turn[q] \notin Held
           /\ turn' \in [TurnRequests -> {"new"} \cup Pending \cup Endings] /\ LockIsHeld'
<1> USE LiteRTAssumption DEF SessionInv
<1>1. \A q \in TurnRequests : turn[q] \in Held => q = r
  BY DEF LockIsHeld
<1>2. turn'[r] = next /\ \A q \in TurnRequests : q # r => turn'[q] = turn[q]
  BY DEF SessionTypes
<1>3. turn' \in [TurnRequests -> {"new"} \cup Pending \cup Endings]
  BY DEF SessionTypes, Held
<1>4. LockIsHeld'
  BY <1>1, <1>2 DEF LockIsHeld
<1> QED BY <1>1, <1>2, <1>3, <1>4

\* A generation that starts from the history displayed.
LEMMA StartsGeneration ==
    ASSUME SessionInv, NEW r \in TurnRequests, turn[r] \in Held, NEW p, NEW sc,
           StartGeneration(r, p, sc), p.visible = displayed'[SessionOf[r]],
           provider' = p, UNCHANGED <<asked, displayed, requested, sidecarFaults>>,
           p \in [key : Sessions \cup {None}, visible : Seq(SpokenTurns), recovery : BOOLEAN, ready : BOOLEAN],
           sc \in [ready : BOOLEAN, ctx : Seq(SpokenTurns), busy : BOOLEAN],
           p.key = SessionOf[r], ~p.recovery, sc.ready => sc.ctx = p.visible,
           Len(displayed[SessionOf[r]]) =< HistoryLimit,
           \A s \in Sessions : p.key = s /\ ~reset[s] => p.visible = displayed[s]
    PROVE  SessionInv'
<1> USE LiteRTAssumption DEF SessionInv
<1>1. /\ turn' = [turn EXCEPT ![r] = "generating"] /\ sent' = p.visible
      /\ sidecar' = [ready |-> TRUE, busy |-> TRUE, ctx |-> IF sc.ready THEN sc.ctx ELSE p.visible]
      /\ UNCHANGED <<holder, hostState, reset>>
  BY DEF StartGeneration
<1>2. /\ turn'[r] = "generating" /\ \A q \in TurnRequests : q # r => turn'[q] = turn[q] /\ turn[q] \notin Held
      /\ turn' \in [TurnRequests -> {"new"} \cup Pending \cup Endings] /\ LockIsHeld'
  <2>1. "generating" \in Held
    BY DEF Held, Pending, InProvider
  <2> QED BY <1>1, <2>1, GoesOn
<1>3. sidecar'.ctx = p.visible /\ sidecar'.ready /\ sidecar'.busy
      /\ sidecar' \in [ready : BOOLEAN, ctx : Seq(SpokenTurns), busy : BOOLEAN]
  BY <1>1
<1>4. SessionTypes'
  BY <1>1, <1>2, <1>3 DEF SessionTypes
<1>5. TurnsAreFair'
  BY <1>2, InProviderIsHeld DEF TurnsAreFair
<1>6. TranscriptsAgree'
  BY <1>1, <1>2, <1>3 DEF TranscriptsAgree
<1>7. ProviderIsTheirs'
  BY <1>1, <1>2, <1>3, InProviderIsHeld DEF ProviderIsTheirs, InProvider
<1> QED BY <1>2, <1>4, <1>5, <1>6, <1>7

LEMMA TurnCallsKeeps ==
    ASSUME SessionInv, NEW r \in TurnRequests, TurnCalls(r)
    PROVE  SessionInv'
<1> USE LiteRTAssumption DEF SessionInv
<1> DEFINE s == SessionOf[r]
           h == TurnTrimmed(displayed[s])
           adopts == provider.key # s \/ reset[s] \/ h # displayed[s]
<1>1. /\ turn[r] = "thinking" /\ displayed' = [displayed EXCEPT ![s] = h]
      /\ UNCHANGED <<asked, provider, requested, sidecarFaults>>
      /\ IF adopts \/ provider.recovery
         THEN /\ turn' = [turn EXCEPT ![r] = IF adopts THEN "resetting" ELSE "recovering"]
              /\ reset' = [reset EXCEPT ![s] = reset[s] \/ h # displayed[s]]
              /\ UNCHANGED <<holder, hostState, sidecar, sent>>
         ELSE StartGeneration(r, provider, sidecar)
  BY DEF TurnCalls
<1>2. s \in Sessions /\ displayed[s] \in Seq(SpokenTurns) /\ reset[s] \in BOOLEAN
  BY DEF SessionTypes
<1>3. h \in Seq(SpokenTurns) /\ Len(h) =< HistoryLimit /\ (Len(displayed[s]) =< HistoryLimit => h = displayed[s])
  BY <1>2, TrimmedIsShort
<1>4. turn[r] \in Held
  BY <1>1, InProviderIsHeld
<1>5. CASE ~(adopts \/ provider.recovery)
  <2>1. h = displayed[s] /\ provider.key = s /\ ~reset[s] /\ ~provider.recovery
    BY <1>5
  <2>2. StartGeneration(r, provider, sidecar) /\ displayed' = displayed
    BY <1>1, <1>2, <1>5, <2>1 DEF SessionTypes
  <2>3. provider.visible = displayed[s]
    BY <1>2, <2>1 DEF TranscriptsAgree
  <2>4. Len(displayed[s]) =< HistoryLimit
    BY <1>3, <2>1
  <2>5. sidecar.ready => sidecar.ctx = provider.visible
    BY <2>1 DEF TranscriptsAgree
  <2> HIDE DEF h, adopts
  <2>6. provider \in [key : Sessions \cup {None}, visible : Seq(SpokenTurns), recovery : BOOLEAN, ready : BOOLEAN]
        /\ sidecar \in [ready : BOOLEAN, ctx : Seq(SpokenTurns), busy : BOOLEAN]
        /\ \A q \in Sessions : provider.key = q /\ ~reset[q] => provider.visible = displayed[q]
    BY DEF SessionTypes, TranscriptsAgree
  <2> HIDE DEF SessionInv
  <2> QED BY <1>1, <1>4, <2>1, <2>2, <2>3, <2>4, <2>5, <2>6, StartsGeneration
<1>6. CASE adopts \/ provider.recovery
  <2> DEFINE next == IF adopts THEN "resetting" ELSE "recovering"
  <2>1. /\ turn' = [turn EXCEPT ![r] = next]
        /\ reset' = [reset EXCEPT ![s] = reset[s] \/ h # displayed[s]]
        /\ UNCHANGED <<holder, hostState, sidecar, sent>>
    BY <1>1, <1>6
  <2>2. next \in Held /\ next \in {"resetting", "recovering"}
    BY DEF Held, Pending, InProvider
  <2>3. next = "recovering" => h = displayed[s] /\ provider.key = s /\ ~reset[s]
    OBVIOUS
  <2> HIDE DEF next, adopts
  <2>4. /\ turn'[r] = next /\ \A q \in TurnRequests : q # r => turn'[q] = turn[q] /\ turn[q] \notin Held
        /\ turn' \in [TurnRequests -> {"new"} \cup Pending \cup Endings] /\ LockIsHeld'
    BY <1>4, <2>1, <2>2, GoesOn
  <2> HIDE DEF h
  <2>5. /\ displayed' = [q \in Sessions |-> displayed'[q]] /\ displayed'[s] = h
        /\ \A q \in Sessions : q # s => displayed'[q] = displayed[q] /\ reset'[q] = reset[q]
        /\ reset' \in [Sessions -> BOOLEAN] /\ reset'[s] = (reset[s] \/ h # displayed[s])
    BY <1>1, <1>2, <2>1 DEF SessionTypes
  <2>6. SessionTypes'
    BY <1>1, <1>3, <2>1, <2>4, <2>5 DEF SessionTypes
  <2>7. TurnsAreFair'
    BY <1>1, <1>3, <2>2, <2>4, <2>5, InProviderIsHeld DEF TurnsAreFair
  <2>8. TranscriptsAgree'
    <3>1. \A q \in Sessions : provider'.key = q /\ ~reset'[q] => provider'.visible = displayed'[q]
      BY <1>1, <2>5 DEF TranscriptsAgree
    <3> QED BY <1>1, <2>1, <2>2, <2>4, <3>1 DEF TranscriptsAgree
  <2>9. ProviderIsTheirs'
    <3>1. next = "recovering" => provider'.key = s /\ provider'.visible = displayed'[s]
      BY <1>1, <1>2, <2>3, <2>5 DEF TranscriptsAgree
    <3> QED BY <2>2, <2>4, <3>1, InProviderIsHeld DEF ProviderIsTheirs, InProvider
  <2> QED BY <2>4, <2>6, <2>7, <2>8, <2>9
<1> QED BY <1>5, <1>6

LEMMA TurnResetsKeeps ==
    ASSUME SessionInv, NEW r \in TurnRequests, TurnResets(r)
    PROVE  SessionInv'
<1> USE LiteRTAssumption DEF SessionInv
<1> DEFINE s == SessionOf[r]
           p == [key |-> s, visible |-> Adopted(r), recovery |-> FALSE, ready |-> FALSE]
           sc == [ready |-> FALSE, ctx |-> <<>>, busy |-> FALSE]
<1>1. /\ turn[r] \in {"resetting", "recovering"} /\ ~sidecar.busy /\ provider' = p
      /\ UNCHANGED <<asked, displayed, requested, sidecarFaults>>
      /\ IF Adopted(r) = <<>>
         THEN /\ turn' = [turn EXCEPT ![r] = "preparing"] /\ sidecar' = sc
              /\ UNCHANGED <<holder, hostState, reset, sent>>
         ELSE StartGeneration(r, p, sc)
  BY DEF TurnResets
<1>2. turn[r] \in InProvider /\ turn[r] \in Held
  BY <1>1, InProviderIsHeld DEF InProvider
<1>3. s \in Sessions /\ displayed[s] \in Seq(SpokenTurns) /\ Len(displayed[s]) =< HistoryLimit
  BY <1>2 DEF SessionTypes, TurnsAreFair
<1>4. Adopted(r) = displayed[s]
  BY <1>1 DEF Adopted, ProviderIsTheirs
<1>5. /\ p \in [key : Sessions \cup {None}, visible : Seq(SpokenTurns), recovery : BOOLEAN, ready : BOOLEAN]
      /\ sc \in [ready : BOOLEAN, ctx : Seq(SpokenTurns), busy : BOOLEAN]
      /\ p.key = s /\ ~p.recovery /\ ~sc.ready /\ ~sc.busy /\ sc.ctx = <<>> /\ p.visible = displayed[s]
  BY <1>3, <1>4
<1> HIDE DEF p, sc
<1>6. CASE Adopted(r) # <<>>
  <2>1. StartGeneration(r, p, sc)
    BY <1>1, <1>6
  <2> HIDE DEF SessionInv
  <2> QED BY <1>1, <1>2, <1>3, <1>5, <2>1, StartsGeneration
<1>7. CASE Adopted(r) = <<>>
  <2>1. /\ turn' = [turn EXCEPT ![r] = "preparing"] /\ sidecar' = sc
        /\ UNCHANGED <<holder, hostState, reset, sent>>
    BY <1>1, <1>7
  <2>2. /\ turn'[r] = "preparing" /\ \A q \in TurnRequests : q # r => turn'[q] = turn[q] /\ turn[q] \notin Held
        /\ turn' \in [TurnRequests -> {"new"} \cup Pending \cup Endings] /\ LockIsHeld'
    <3>1. "preparing" \in Held
      BY DEF Held, Pending, InProvider
    <3> QED BY <1>2, <2>1, <3>1, GoesOn
  <2>3. SessionTypes'
    BY <1>1, <1>5, <2>1, <2>2 DEF SessionTypes
  <2>4. TurnsAreFair'
    BY <1>1, <1>3, <2>2, InProviderIsHeld DEF TurnsAreFair
  <2>5. TranscriptsAgree'
    BY <1>1, <1>5, <2>1 DEF TranscriptsAgree
  <2>6. ProviderIsTheirs'
    BY <1>1, <1>4, <1>5, <1>7, <2>1, <2>2, InProviderIsHeld DEF ProviderIsTheirs, InProvider
  <2> QED BY <2>2, <2>3, <2>4, <2>5, <2>6
<1> QED BY <1>6, <1>7

LEMMA TurnPreparedKeeps ==
    ASSUME SessionInv, NEW r \in TurnRequests, TurnPrepared(r)
    PROVE  SessionInv'
<1> USE LiteRTAssumption DEF SessionInv
<1> DEFINE sc == [sidecar EXCEPT !.ready = TRUE]
<1>1. /\ turn[r] = "preparing" /\ provider' = [provider EXCEPT !.ready = TRUE]
      /\ UNCHANGED <<asked, displayed, requested, sidecarFaults>> /\ StartGeneration(r, provider, sc)
  BY DEF TurnPrepared
<1>2. turn[r] \in InProvider /\ turn[r] \in Held
  BY <1>1, InProviderIsHeld DEF InProvider
<1>3. /\ SessionOf[r] \in Sessions /\ Len(displayed[SessionOf[r]]) =< HistoryLimit
      /\ provider.key = SessionOf[r] /\ provider.visible = displayed[SessionOf[r]] /\ ~provider.recovery
      /\ sidecar.ctx = provider.visible
  BY <1>1, <1>2 DEF TurnsAreFair, ProviderIsTheirs
<1>4. /\ provider' \in [key : Sessions \cup {None}, visible : Seq(SpokenTurns), recovery : BOOLEAN, ready : BOOLEAN]
      /\ provider'.key = provider.key /\ provider'.visible = provider.visible /\ provider'.recovery = provider.recovery
  BY <1>1 DEF SessionTypes
<1>5. sc \in [ready : BOOLEAN, ctx : Seq(SpokenTurns), busy : BOOLEAN] /\ sc.ctx = sidecar.ctx
  BY DEF SessionTypes
<1> HIDE DEF sc
<1>6. StartGeneration(r, provider', sc)
  BY <1>1, <1>4 DEF StartGeneration
<1>7. \A s \in Sessions : provider'.key = s /\ ~reset[s] => provider'.visible = displayed[s]
  BY <1>3, <1>4
<1> DEFINE now == provider'
<1>8. /\ provider' = now /\ now.visible = displayed'[SessionOf[r]] /\ now.key = SessionOf[r] /\ ~now.recovery
      /\ (sc.ready => sc.ctx = now.visible) /\ StartGeneration(r, now, sc)
      /\ now \in [key : Sessions \cup {None}, visible : Seq(SpokenTurns), recovery : BOOLEAN, ready : BOOLEAN]
      /\ \A s \in Sessions : now.key = s /\ ~reset[s] => now.visible = displayed[s]
  BY <1>1, <1>3, <1>4, <1>5, <1>6, <1>7
<1> HIDE DEF now, SessionInv
<1> QED BY <1>1, <1>2, <1>3, <1>5, <1>8, StartsGeneration

\* A turn that ends with the provider poisoned.
LEMMA EndsPoisoned ==
    ASSUME SessionInv, NEW r \in TurnRequests, NEW ending \in Endings, turn[r] \in Held,
           FinishTurn(r, ending), Poison, NeedsReset(r), ending # "drift",
           UNCHANGED <<displayed, sidecar, sent, requested>>, asked' \subseteq asked,
           ending = "cancelled" => r \in requested, sidecarFaults' \in 0..MaxSidecarFaults
    PROVE  SessionInv'
<1> USE LiteRTAssumption DEF SessionInv
<1>1. /\ turn'[r] = ending /\ \A q \in TurnRequests : q # r => turn'[q] = turn[q]
      /\ turn' \in [TurnRequests -> {"new"} \cup Pending \cup Endings]
      /\ LockIsHeld' /\ \A q \in TurnRequests : turn'[q] \notin Held
  BY FinishTurnTurns
<1>2. /\ provider' = [provider EXCEPT !.recovery = TRUE, !.ready = FALSE]
      /\ reset' = [reset EXCEPT ![SessionOf[r]] = TRUE]
  BY DEF Poison, NeedsReset
<1>3. /\ provider' \in [key : Sessions \cup {None}, visible : Seq(SpokenTurns), recovery : BOOLEAN, ready : BOOLEAN]
      /\ provider'.key = provider.key /\ provider'.visible = provider.visible /\ provider'.recovery
  BY <1>2 DEF SessionTypes
<1>4. reset' \in [Sessions -> BOOLEAN] /\ \A s \in Sessions : reset'[s] \/ reset'[s] = reset[s]
  BY <1>2 DEF SessionTypes
<1>5. SessionTypes'
  BY <1>1, <1>3, <1>4 DEF SessionTypes
<1>6. TurnsAreFair'
  BY <1>1, InProviderIsHeld DEF TurnsAreFair
<1>7. TranscriptsAgree'
  BY <1>3, <1>4 DEF TranscriptsAgree
<1>8. ProviderIsTheirs'
  BY <1>1, InProviderIsHeld DEF ProviderIsTheirs, InProvider
<1> QED BY <1>1, <1>5, <1>6, <1>7, <1>8

LEMMA TurnFailsKeeps ==
    ASSUME SessionInv, NEW r \in TurnRequests, TurnFails(r)
    PROVE  SessionInv'
<1> USE LiteRTAssumption
<1>1. /\ turn[r] \in InProvider /\ Poison /\ NeedsReset(r) /\ FinishTurn(r, "failed")
      /\ UNCHANGED <<displayed, sidecar, sent, requested>> /\ asked' \subseteq asked
  BY DEF TurnFails
<1>2. turn[r] \in Held /\ "failed" \in Endings /\ "failed" # "drift"
  BY <1>1, InProviderIsHeld DEF Endings
<1>3. sidecarFaults' \in 0..MaxSidecarFaults
  BY DEF TurnFails, SessionInv, SessionTypes
<1> QED BY <1>1, <1>2, <1>3, EndsPoisoned

LEMMA TurnGeneratedKeeps ==
    ASSUME SessionInv, NEW r \in TurnRequests, TurnGenerated(r)
    PROVE  SessionInv'
<1> USE LiteRTAssumption DEF SessionInv
<1> DEFINE s == SessionOf[r]
           raw == [by |-> r, text |-> "raw"]
<1>1. /\ turn[r] = "generating"
      /\ provider' = [provider EXCEPT !.ready = TRUE, !.recovery = FALSE, !.visible = Append(provider.visible, raw)]
      /\ sidecar' = [sidecar EXCEPT !.busy = FALSE, !.ctx = Append(sidecar.ctx, raw)]
      /\ turn' = [turn EXCEPT ![r] = "speaking"]
      /\ UNCHANGED <<asked, holder, hostState, requested, sidecarFaults>>
  BY DEF TurnGenerated
<1>2. PICK text \in {"raw", "guarded"} :
         LET h == Append(displayed[s], [by |-> r, text |-> text])
             kept == IF text = "guarded" THEN h ELSE TurnTrimmed(h)
         IN /\ displayed' = [displayed EXCEPT ![s] = kept]
            /\ reset' = [reset EXCEPT ![s] = text = "guarded" \/ kept # h]
  BY DEF TurnGenerated
<1> DEFINE h == Append(displayed[s], [by |-> r, text |-> text])
           stays == IF text = "guarded" THEN h ELSE TurnTrimmed(h)
           flag == text = "guarded" \/ stays # h
<1>3. displayed' = [displayed EXCEPT ![s] = stays] /\ reset' = [reset EXCEPT ![s] = flag]
  BY <1>2
<1>4. turn[r] \in InProvider /\ turn[r] \in Held /\ "speaking" \in Held
  BY <1>1, InProviderIsHeld DEF InProvider
<1>5. /\ s \in Sessions /\ displayed[s] \in Seq(SpokenTurns) /\ Len(displayed[s]) =< HistoryLimit
      /\ provider.key = s /\ provider.visible = displayed[s] /\ sidecar.ctx = provider.visible
  BY <1>1, <1>4 DEF SessionTypes, TurnsAreFair, ProviderIsTheirs
<1>6. raw \in SpokenTurns /\ [by |-> r, text |-> text] \in SpokenTurns
  BY DEF SpokenTurns
<1>7. h \in Seq(SpokenTurns) /\ Len(h) =< HistoryLimit + 1
  BY <1>5, <1>6
<1>8. stays \in Seq(SpokenTurns) /\ Len(stays) =< HistoryLimit + 1
  <2> HIDE DEF h
  <2>1. TurnTrimmed(h) \in Seq(SpokenTurns) /\ Len(TurnTrimmed(h)) =< HistoryLimit
    BY <1>7, TrimmedIsShort
  <2> QED BY <1>7, <2>1
<1>9. ~flag => stays = Append(displayed[s], raw)
  OBVIOUS
<1>10. flag \in BOOLEAN
  OBVIOUS
<1> DEFINE more == Append(displayed[s], raw)
<1>11. more \in Seq(SpokenTurns)
  BY <1>5, <1>6
<1>12. provider' = [provider EXCEPT !.ready = TRUE, !.recovery = FALSE, !.visible = more]
       /\ sidecar' = [sidecar EXCEPT !.busy = FALSE, !.ctx = more]
  BY <1>1, <1>5
<1>13. ~flag => stays = more
  BY <1>9
<1> HIDE DEF more, flag, stays, raw, h
<1>14. /\ provider' \in [key : Sessions \cup {None}, visible : Seq(SpokenTurns), recovery : BOOLEAN, ready : BOOLEAN]
       /\ provider'.key = s /\ provider'.visible = more
  BY <1>5, <1>11, <1>12 DEF SessionTypes
<1>15. /\ sidecar' \in [ready : BOOLEAN, ctx : Seq(SpokenTurns), busy : BOOLEAN]
       /\ sidecar'.ctx = more /\ ~sidecar'.busy
  BY <1>11, <1>12 DEF SessionTypes
<1>16. /\ displayed' = [q \in Sessions |-> displayed'[q]] /\ displayed'[s] = stays
       /\ \A q \in Sessions : q # s => displayed'[q] = displayed[q]
       /\ reset' \in [Sessions -> BOOLEAN] /\ reset'[s] = flag
  BY <1>3, <1>5, <1>10 DEF SessionTypes
<1>17. /\ turn'[r] = "speaking" /\ \A q \in TurnRequests : q # r => turn'[q] = turn[q] /\ turn[q] \notin Held
       /\ turn' \in [TurnRequests -> {"new"} \cup Pending \cup Endings] /\ LockIsHeld'
  BY <1>1, <1>4, GoesOn
<1>18. SessionTypes'
  BY <1>1, <1>8, <1>14, <1>15, <1>16, <1>17 DEF SessionTypes
<1>19. \A q \in TurnRequests : turn'[q] \notin InProvider
  BY <1>17, InProviderIsHeld DEF InProvider
<1>20. TurnsAreFair'
  BY <1>1, <1>17, <1>19 DEF TurnsAreFair
<1>21. TranscriptsAgree'
  BY <1>13, <1>14, <1>15, <1>16 DEF TranscriptsAgree
<1>22. ProviderIsTheirs'
  BY <1>19 DEF ProviderIsTheirs, InProvider
<1> QED BY <1>17, <1>18, <1>20, <1>21, <1>22

LEMMA TurnSpeaksKeeps ==
    ASSUME SessionInv, NEW r \in TurnRequests, TurnSpeaks(r)
    PROVE  SessionInv'
<1> USE LiteRTAssumption DEF SessionInv
<1>1. PICK critical \in BOOLEAN, ending \in {"answered", "failed"} :
         /\ reset' = [reset EXCEPT ![SessionOf[r]] = reset[SessionOf[r]] \/ critical]
         /\ FinishTurn(r, ending)
  BY DEF TurnSpeaks
<1>2. turn[r] = "speaking" /\ UNCHANGED <<asked, displayed, provider, sidecar, sent, requested, sidecarFaults>>
  BY DEF TurnSpeaks
<1>3. /\ turn'[r] = ending /\ \A q \in TurnRequests : q # r => turn'[q] = turn[q]
      /\ turn' \in [TurnRequests -> {"new"} \cup Pending \cup Endings]
      /\ LockIsHeld' /\ \A q \in TurnRequests : turn'[q] \notin Held
  <2>1. ending \in Endings /\ turn[r] \in Held
    BY <1>2, InProviderIsHeld DEF Endings
  <2> QED BY <1>1, <2>1, FinishTurnTurns
<1>4. reset' \in [Sessions -> BOOLEAN] /\ \A s \in Sessions : reset'[s] \/ reset'[s] = reset[s]
  BY <1>1 DEF SessionTypes
<1>5. SessionTypes'
  BY <1>2, <1>3, <1>4 DEF SessionTypes
<1>6. TurnsAreFair'
  BY <1>2, <1>3, InProviderIsHeld DEF TurnsAreFair
<1>7. TranscriptsAgree'
  <2>1. \A q \in TurnRequests : turn[q] = "generating" => q # r /\ turn'[q] = "generating"
    BY <1>2, <1>3
  <2> QED BY <1>2, <1>4, <2>1 DEF TranscriptsAgree
<1>8. ProviderIsTheirs'
  BY <1>3, InProviderIsHeld DEF ProviderIsTheirs, InProvider
<1> QED BY <1>3, <1>5, <1>6, <1>7, <1>8

LEMMA CancelTurnKeeps ==
    ASSUME SessionInv, NEW r \in TurnRequests, CancelTurn(r)
    PROVE  SessionInv'
<1> USE LiteRTAssumption DEF SessionInv
<1>1. /\ requested' = requested \cup {r} /\ asked' = asked \cup {r}
      /\ reset' = [s \in Sessions |-> TRUE]
      /\ UNCHANGED <<turn, holder, hostState, displayed, provider, sidecar, sent, sidecarFaults>>
  BY DEF CancelTurn
<1>2. SessionTypes'
  BY <1>1 DEF SessionTypes
<1>3. \A s \in Sessions : reset'[s]
  BY <1>1
<1>4. LockIsHeld' /\ ProviderIsTheirs' /\ TurnsAreFair'
  BY <1>1 DEF LockIsHeld, ProviderIsTheirs, TurnsAreFair
<1>5. TranscriptsAgree'
  BY <1>1, <1>3 DEF TranscriptsAgree
<1> QED BY <1>2, <1>4, <1>5

LEMMA TurnCancelledKeeps ==
    ASSUME SessionInv, NEW r \in TurnRequests, TurnCancelled(r)
    PROVE  SessionInv'
<1> USE LiteRTAssumption DEF SessionInv
<1>1. /\ r \in asked /\ turn[r] \in Pending /\ asked' = asked \ {r}
      /\ UNCHANGED <<displayed, sidecar, sent, requested, sidecarFaults>>
      /\ IF turn[r] = "queued"
         THEN turn' = [turn EXCEPT ![r] = "cancelled"] /\ UNCHANGED <<holder, hostState>>
         ELSE FinishTurn(r, "cancelled")
      /\ IF turn[r] \in InProvider THEN Poison /\ NeedsReset(r) ELSE UNCHANGED <<provider, reset>>
  BY DEF TurnCancelled
<1>2. r \in requested /\ "cancelled" \in Endings /\ "cancelled" # "drift" /\ sidecarFaults' \in 0..MaxSidecarFaults
  BY <1>1 DEF SessionTypes, Endings
<1>3. CASE turn[r] \in InProvider
  <2>1. turn[r] \in Held /\ turn[r] # "queued"
    BY <1>3, InProviderIsHeld DEF InProvider
  <2>2. FinishTurn(r, "cancelled") /\ Poison /\ NeedsReset(r) /\ asked' \subseteq asked
    BY <1>1, <1>3, <2>1
  <2> HIDE DEF SessionInv
  <2> QED BY <1>1, <1>2, <2>1, <2>2, EndsPoisoned
<1>4. CASE turn[r] \notin InProvider
  <2>1. UNCHANGED <<provider, reset>>
    BY <1>1, <1>4
  <2>2. /\ turn'[r] = "cancelled" /\ \A q \in TurnRequests : q # r => turn'[q] = turn[q]
        /\ turn' \in [TurnRequests -> {"new"} \cup Pending \cup Endings] /\ LockIsHeld'
    <3>1. CASE turn[r] = "queued"
      <4>1. turn' = [turn EXCEPT ![r] = "cancelled"] /\ UNCHANGED <<holder, hostState>>
        BY <1>1, <3>1
      <4>2. /\ turn'[r] = "cancelled" /\ \A q \in TurnRequests : q # r => turn'[q] = turn[q]
            /\ turn' \in [TurnRequests -> {"new"} \cup Pending \cup Endings]
        BY <1>2, <4>1 DEF SessionTypes
      <4>3. LockIsHeld'
        BY <3>1, <4>1, <4>2 DEF LockIsHeld, Held, Pending, InProvider
      <4> QED BY <4>2, <4>3
    <3>2. CASE turn[r] # "queued"
      <4>1. FinishTurn(r, "cancelled") /\ turn[r] \in Held
        BY <1>1, <3>2 DEF Held
      <4> QED BY <1>2, <4>1, FinishTurnTurns
    <3> QED BY <3>1, <3>2
  <2>3. SessionTypes'
    BY <1>1, <2>1, <2>2 DEF SessionTypes
  <2>4. TurnsAreFair'
    BY <1>1, <1>2, <2>2 DEF TurnsAreFair, InProvider
  <2>5. TranscriptsAgree'
    <3>1. \A q \in TurnRequests : turn[q] = "generating" => q # r /\ turn'[q] = "generating"
      BY <1>4, <2>2 DEF InProvider
    <3> QED BY <1>1, <2>1, <3>1 DEF TranscriptsAgree
  <2>6. ProviderIsTheirs'
    BY <1>1, <2>1, <2>2 DEF ProviderIsTheirs
  <2> QED BY <2>2, <2>3, <2>4, <2>5, <2>6
<1> QED BY <1>3, <1>4

\* Whatever is done to the provider and the sidecar while nobody is in the provider.
LEMMA BetweenTurns ==
    ASSUME SessionInv, \A r \in TurnRequests : turn[r] \notin InProvider,
           UNCHANGED <<turn, asked, holder, hostState, displayed, requested>>,
           reset' \in [Sessions -> BOOLEAN], sidecarFaults' \in 0..MaxSidecarFaults,
           provider' \in [key : Sessions \cup {None}, visible : Seq(SpokenTurns), recovery : BOOLEAN, ready : BOOLEAN],
           sidecar' \in [ready : BOOLEAN, ctx : Seq(SpokenTurns), busy : BOOLEAN],
           \A s \in Sessions : provider'.key = s /\ ~reset'[s] => provider'.visible = displayed[s],
           ~provider'.recovery /\ sidecar'.ready => sidecar'.ctx = provider'.visible,
           sidecar'.busy => provider'.recovery
    PROVE  SessionInv'
<1> USE DEF SessionInv
<1>1. SessionTypes'
  BY DEF SessionTypes
<1>2. LockIsHeld' /\ TurnsAreFair'
  BY DEF LockIsHeld, TurnsAreFair
<1>3. TranscriptsAgree'
  BY DEF TranscriptsAgree
<1>4. ProviderIsTheirs'
  BY DEF ProviderIsTheirs, InProvider
<1> QED BY <1>1, <1>2, <1>3, <1>4

LEMMA NobodyInProvider ==
    ASSUME SessionInv, holder = None
    PROVE  \A r \in TurnRequests : turn[r] \notin InProvider
  BY LiteRTAssumption, InProviderIsHeld DEF SessionInv, LockIsHeld

LEMMA PrepareSessionKeeps ==
    ASSUME SessionInv, NEW s \in Sessions, PrepareSession(s)
    PROVE  SessionInv'
<1> DEFINE fresh == [key |-> s, visible |-> <<>>, recovery |-> FALSE, ready |-> TRUE]
           started == [ready |-> TRUE, ctx |-> <<>>, busy |-> FALSE]
<1>1. /\ holder = None /\ displayed[s] = <<>> /\ reset' = [reset EXCEPT ![s] = FALSE]
      /\ UNCHANGED <<turn, asked, holder, hostState, displayed, requested, sidecarFaults>>
      /\ IF provider = fresh
         THEN sidecar' = sidecar /\ (IF sidecar.ready THEN provider' = provider ELSE Poison)
         ELSE sidecar' = started /\ provider' = fresh
  BY DEF PrepareSession
<1>2. /\ fresh \in [key : Sessions \cup {None}, visible : Seq(SpokenTurns), recovery : BOOLEAN, ready : BOOLEAN]
      /\ fresh.key = s /\ fresh.visible = <<>> /\ ~fresh.recovery
  OBVIOUS
<1>3. /\ started \in [ready : BOOLEAN, ctx : Seq(SpokenTurns), busy : BOOLEAN]
      /\ started.ready /\ started.ctx = <<>> /\ ~started.busy
  OBVIOUS
<1> HIDE DEF fresh, started
<1>4. \A r \in TurnRequests : turn[r] \notin InProvider
  BY <1>1, NobodyInProvider
<1>5. /\ sidecar \in [ready : BOOLEAN, ctx : Seq(SpokenTurns), busy : BOOLEAN]
      /\ sidecar.busy => provider.recovery
      /\ ~provider.recovery /\ sidecar.ready => sidecar.ctx = provider.visible
  BY <1>4 DEF SessionInv, SessionTypes, TranscriptsAgree, InProvider
<1>6. reset' \in [Sessions -> BOOLEAN] /\ sidecarFaults' \in 0..MaxSidecarFaults
  BY <1>1 DEF SessionInv, SessionTypes
<1>7. /\ provider'.key = s /\ provider'.visible = <<>>
      /\ provider' \in [key : Sessions \cup {None}, visible : Seq(SpokenTurns), recovery : BOOLEAN, ready : BOOLEAN]
      /\ sidecar' \in [ready : BOOLEAN, ctx : Seq(SpokenTurns), busy : BOOLEAN]
      /\ ~provider'.recovery /\ sidecar'.ready => sidecar'.ctx = provider'.visible
      /\ sidecar'.busy => provider'.recovery
  <2>1. CASE provider = fresh /\ sidecar.ready
    <3>1. provider' = fresh /\ provider = fresh /\ sidecar' = sidecar
      BY <1>1, <2>1
    <3> QED BY <1>2, <1>5, <3>1
  <2>2. CASE provider = fresh /\ ~sidecar.ready
    <3>1. sidecar' = sidecar /\ provider' = [fresh EXCEPT !.recovery = TRUE, !.ready = FALSE]
      BY <1>1, <2>2 DEF Poison
    <3>2. provider' = [key |-> s, visible |-> <<>>, recovery |-> TRUE, ready |-> FALSE]
      BY <3>1 DEF fresh
    <3>3. /\ provider' \in [key : Sessions \cup {None}, visible : Seq(SpokenTurns), recovery : BOOLEAN, ready : BOOLEAN]
          /\ provider'.key = s /\ provider'.visible = <<>> /\ provider'.recovery
      BY <3>2
    <3> QED BY <1>5, <3>1, <3>3
  <2>3. CASE provider # fresh
    <3>1. provider' = fresh /\ sidecar' = started
      BY <1>1, <2>3
    <3> QED BY <1>2, <1>3, <3>1
  <2> QED BY <2>1, <2>2, <2>3
<1>8. \A q \in Sessions : provider'.key = q /\ ~reset'[q] => provider'.visible = displayed[q]
  BY <1>1, <1>7
<1> QED BY <1>1, <1>4, <1>6, <1>7, <1>8, BetweenTurns

LEMMA PrepareFailsKeeps ==
    ASSUME SessionInv, NEW s \in Sessions, PrepareFails(s)
    PROVE  SessionInv'
<1> USE LiteRTAssumption
<1>1. /\ holder = None /\ displayed[s] = <<>> /\ sidecarFaults < MaxSidecarFaults
      /\ sidecarFaults' = sidecarFaults + 1
      /\ UNCHANGED <<turn, asked, holder, hostState, displayed, reset, requested>>
      /\ \/ UNCHANGED sidecar /\ provider' = [provider EXCEPT !.recovery = TRUE, !.ready = FALSE]
         \/ /\ sidecar' = [ready |-> FALSE, ctx |-> <<>>, busy |-> FALSE]
            /\ provider' = [key |-> s, visible |-> <<>>, recovery |-> TRUE, ready |-> FALSE]
  BY DEF PrepareFails
<1>2. \A r \in TurnRequests : turn[r] \notin InProvider
  BY <1>1, NobodyInProvider
<1>3. reset' \in [Sessions -> BOOLEAN] /\ sidecarFaults' \in 0..MaxSidecarFaults
  BY <1>1 DEF SessionInv, SessionTypes
<1>4. CASE UNCHANGED sidecar /\ provider' = [provider EXCEPT !.recovery = TRUE, !.ready = FALSE]
  <2>1. /\ provider' \in [key : Sessions \cup {None}, visible : Seq(SpokenTurns), recovery : BOOLEAN, ready : BOOLEAN]
        /\ provider'.key = provider.key /\ provider'.visible = provider.visible /\ provider'.recovery
    BY <1>4 DEF SessionInv, SessionTypes
  <2>2. sidecar' \in [ready : BOOLEAN, ctx : Seq(SpokenTurns), busy : BOOLEAN]
    BY <1>4 DEF SessionInv, SessionTypes
  <2>3. \A q \in Sessions : provider'.key = q /\ ~reset'[q] => provider'.visible = displayed[q]
    BY <1>1, <2>1 DEF SessionInv, TranscriptsAgree
  <2> QED BY <1>1, <1>2, <1>3, <2>1, <2>2, <2>3, BetweenTurns
<1>5. CASE /\ sidecar' = [ready |-> FALSE, ctx |-> <<>>, busy |-> FALSE]
           /\ provider' = [key |-> s, visible |-> <<>>, recovery |-> TRUE, ready |-> FALSE]
  <2>1. /\ provider' \in [key : Sessions \cup {None}, visible : Seq(SpokenTurns), recovery : BOOLEAN, ready : BOOLEAN]
        /\ provider'.key = s /\ provider'.visible = <<>> /\ provider'.recovery
        /\ sidecar' \in [ready : BOOLEAN, ctx : Seq(SpokenTurns), busy : BOOLEAN]
    BY <1>5
  <2> QED BY <1>1, <1>2, <1>3, <2>1, BetweenTurns
<1> QED BY <1>1, <1>4, <1>5

LEMMA HealthDriftKeeps == SessionInv /\ HealthDrift => SessionInv'
<1> SUFFICES ASSUME SessionInv, HealthDrift PROVE SessionInv'
  OBVIOUS
<1> USE LiteRTAssumption
<1>1. /\ \A r \in TurnRequests : turn[r] \notin InProvider
      /\ provider' = [provider EXCEPT !.recovery = TRUE, !.ready = FALSE]
      /\ UNCHANGED <<turn, asked, holder, hostState, displayed, reset, sidecar, sent, requested>>
  BY DEF HealthDrift, Poison
<1>2. reset' \in [Sessions -> BOOLEAN] /\ sidecarFaults' \in 0..MaxSidecarFaults
  BY DEF HealthDrift, SessionInv, SessionTypes
<1>3. /\ provider' \in [key : Sessions \cup {None}, visible : Seq(SpokenTurns), recovery : BOOLEAN, ready : BOOLEAN]
      /\ provider'.key = provider.key /\ provider'.visible = provider.visible /\ provider'.recovery
  BY <1>1 DEF SessionInv, SessionTypes
<1>4. sidecar' \in [ready : BOOLEAN, ctx : Seq(SpokenTurns), busy : BOOLEAN]
  BY <1>1 DEF SessionInv, SessionTypes
<1>5. \A q \in Sessions : provider'.key = q /\ ~reset'[q] => provider'.visible = displayed[q]
  BY <1>1, <1>3 DEF SessionInv, TranscriptsAgree
<1> QED BY <1>1, <1>2, <1>3, <1>4, <1>5, BetweenTurns

\* What the sidecar does by itself: nobody is answered from it before it is reset.
LEMMA SidecarAlone ==
    ASSUME SessionInv, UNCHANGED <<turn, asked, holder, hostState, displayed, reset, provider, sent, requested>>,
           sidecarFaults' \in 0..MaxSidecarFaults,
           sidecar' \in [ready : BOOLEAN, ctx : Seq(SpokenTurns), busy : BOOLEAN],
           ~sidecar'.busy, provider.recovery \/ ~sidecar'.ready,
           \A r \in TurnRequests : turn[r] \notin {"preparing", "generating"}
    PROVE  SessionInv'
<1>1. SessionTypes'
  BY DEF SessionInv, SessionTypes
<1>2. LockIsHeld' /\ TurnsAreFair'
  BY DEF SessionInv, LockIsHeld, TurnsAreFair
<1>3. TranscriptsAgree'
  BY DEF SessionInv, TranscriptsAgree
<1>4. ProviderIsTheirs'
  BY DEF SessionInv, ProviderIsTheirs
<1> QED BY <1>1, <1>2, <1>3, <1>4 DEF SessionInv

LEMMA SidecarUnwindsKeeps == SessionInv /\ SidecarUnwinds => SessionInv'
<1> SUFFICES ASSUME SessionInv, SidecarUnwinds PROVE SessionInv'
  OBVIOUS
<1>1. PICK r \in TurnRequests, completes \in BOOLEAN :
         sidecar' = IF completes /\ Len(sidecar.ctx) <= HistoryLimit
                    THEN [sidecar EXCEPT !.busy = FALSE, !.ctx = Append(sidecar.ctx, [by |-> r, text |-> "raw"])]
                    ELSE [ready |-> FALSE, ctx |-> <<>>, busy |-> FALSE]
  BY DEF SidecarUnwinds
<1>2. /\ sidecar.busy /\ \A q \in TurnRequests : turn[q] # "generating"
      /\ UNCHANGED <<turn, asked, holder, hostState, displayed, reset, provider, sent, requested, sidecarFaults>>
  BY DEF SidecarUnwinds
<1>3. provider.recovery /\ \A q \in TurnRequests : turn[q] \notin {"preparing", "generating"}
  BY <1>2 DEF SessionInv, TranscriptsAgree, ProviderIsTheirs
<1>4. sidecar' \in [ready : BOOLEAN, ctx : Seq(SpokenTurns), busy : BOOLEAN] /\ ~sidecar'.busy
  <2>1. sidecar \in [ready : BOOLEAN, ctx : Seq(SpokenTurns), busy : BOOLEAN]
    BY DEF SessionInv, SessionTypes
  <2> DEFINE more == Append(sidecar.ctx, [by |-> r, text |-> "raw"])
  <2>2. more \in Seq(SpokenTurns)
    BY <2>1 DEF SpokenTurns
  <2>3. \/ sidecar' = [sidecar EXCEPT !.busy = FALSE, !.ctx = more]
        \/ sidecar' = [ready |-> FALSE, ctx |-> <<>>, busy |-> FALSE]
    BY <1>1
  <2> HIDE DEF more
  <2>4. CASE sidecar' = [sidecar EXCEPT !.busy = FALSE, !.ctx = more]
    <3>1. sidecar' = [ready |-> sidecar.ready, ctx |-> more, busy |-> FALSE]
      BY <2>1, <2>4
    <3> QED BY <2>1, <2>2, <3>1
  <2>5. CASE sidecar' = [ready |-> FALSE, ctx |-> <<>>, busy |-> FALSE]
    BY <2>5
  <2> QED BY <2>3, <2>4, <2>5
<1>5. sidecarFaults' \in 0..MaxSidecarFaults
  BY <1>2 DEF SessionInv, SessionTypes
<1> QED BY <1>2, <1>3, <1>4, <1>5, SidecarAlone

LEMMA SidecarRestartsKeeps == SessionInv /\ SidecarRestarts => SessionInv'
<1> SUFFICES ASSUME SessionInv, SidecarRestarts PROVE SessionInv'
  OBVIOUS
<1> USE LiteRTAssumption
<1>1. /\ sidecar' = [ready |-> FALSE, ctx |-> <<>>, busy |-> FALSE]
      /\ \A r \in TurnRequests : turn[r] \notin {"preparing", "generating"}
      /\ UNCHANGED <<turn, asked, holder, hostState, displayed, reset, provider, sent, requested>>
  BY DEF SidecarRestarts
<1>2. sidecar' \in [ready : BOOLEAN, ctx : Seq(SpokenTurns), busy : BOOLEAN] /\ ~sidecar'.busy /\ ~sidecar'.ready
  BY <1>1
<1>3. sidecarFaults' \in 0..MaxSidecarFaults
  BY DEF SidecarRestarts, SessionInv, SessionTypes
<1> QED BY <1>1, <1>2, <1>3, SidecarAlone

LEMMA SessionInvStep == SessionInv /\ [SessionNext]_turnVars => SessionInv'
<1> SUFFICES ASSUME SessionInv, [SessionNext]_turnVars PROVE SessionInv'
  OBVIOUS
<1>1. CASE UNCHANGED turnVars
  BY <1>1 DEF turnVars, SessionInv, SessionTypes, LockIsHeld, TurnsAreFair, TranscriptsAgree, ProviderIsTheirs
<1>2. ASSUME NEW r \in TurnRequests,
             TurnArrives(r) \/ TurnLocks(r) \/ TurnRefused(r) \/ TurnCalls(r) \/ TurnResets(r) \/ TurnPrepared(r)
      PROVE  SessionInv'
  BY <1>2, TurnArrivesKeeps, TurnLocksKeeps, TurnRefusedKeeps, TurnCallsKeeps, TurnResetsKeeps, TurnPreparedKeeps
<1>3. ASSUME NEW r \in TurnRequests,
             TurnFails(r) \/ TurnGenerated(r) \/ TurnSpeaks(r) \/ CancelTurn(r) \/ TurnCancelled(r)
      PROVE  SessionInv'
  BY <1>3, TurnFailsKeeps, TurnGeneratedKeeps, TurnSpeaksKeeps, CancelTurnKeeps, TurnCancelledKeeps
<1>4. ASSUME NEW s \in Sessions, PrepareSession(s) \/ PrepareFails(s) PROVE SessionInv'
  BY <1>4, PrepareSessionKeeps, PrepareFailsKeeps
<1> QED BY <1>1, <1>2, <1>3, <1>4, HealthDriftKeeps, SidecarUnwindsKeeps, SidecarRestartsKeeps DEF SessionNext

\* For any sessions, requests and limits, and any faults of the sidecar: the model answers from the
\* history that is displayed and from nothing else, no turn ends for drift, and only turns that were
\* named are cancelled.
THEOREM TurnsAnswerFromDisplayed ==
    SessionSpec => [](SessionTypeOK /\ AnswersFromDisplayed /\ NoTurnDrifts /\ OnlyNamedTurnsAreCancelled)
<1>1. SessionInv => SessionTypeOK /\ AnswersFromDisplayed /\ NoTurnDrifts /\ OnlyNamedTurnsAreCancelled
  <2> SUFFICES ASSUME SessionInv
               PROVE  SessionTypeOK /\ AnswersFromDisplayed /\ NoTurnDrifts /\ OnlyNamedTurnsAreCancelled
    OBVIOUS
  <2>1. displayed \in [Sessions -> Transcripts]
    <3>1. \A s \in Sessions : displayed[s] \in Transcripts
      BY TranscriptsAreShort DEF SessionInv, SessionTypes
    <3> QED BY <3>1 DEF SessionInv, SessionTypes
  <2>2. SessionTypeOK
    BY <2>1 DEF SessionTypeOK, SessionInv, SessionTypes, LockIsHeld, Held
  <2> QED BY <2>2 DEF SessionInv, AnswersFromDisplayed, NoTurnDrifts, OnlyNamedTurnsAreCancelled,
                      TurnsAreFair, ProviderIsTheirs
<1> QED BY <1>1, SessionInvInit, SessionInvStep, PTL DEF SessionSpec

-----------------------------------------------------------------------------
(* SpeechGateways                                                          *)

\* A sequence of whatever is in it.
IsSequence(s) == s \in Seq({s[i] : i \in DOMAIN s})

LEMMA AppendedTo ==
    ASSUME NEW s, NEW e, IsSequence(s)
    PROVE  /\ IsSequence(Append(s, e)) /\ Len(Append(s, e)) = Len(s) + 1 /\ Len(s) \in Nat
           /\ DOMAIN s = 1..Len(s) /\ DOMAIN Append(s, e) = 1..(Len(s) + 1)
           /\ \A i \in DOMAIN s : Append(s, e)[i] = s[i]
           /\ Append(s, e)[Len(s) + 1] = e
<1> DEFINE S == {s[i] : i \in DOMAIN s} \cup {e}
<1>1. s \in Seq(S)
  <2>1. {s[i] : i \in DOMAIN s} \subseteq S
    OBVIOUS
  <2> HIDE DEF S
  <2> QED BY <2>1, SeqMonotonic DEF IsSequence
<1>2. e \in S
  OBVIOUS
<1> HIDE DEF S
<1> DEFINE more == Append(s, e)
<1>3. /\ more \in Seq(S) /\ Len(more) = Len(s) + 1 /\ Len(s) \in Nat /\ DOMAIN s = 1..Len(s)
      /\ \A i \in 1..Len(s) : more[i] = s[i]
      /\ more[Len(s) + 1] = e
  BY <1>1, <1>2, AppendProperties
<1> HIDE DEF more
<1>4. DOMAIN more = 1..(Len(s) + 1)
  BY <1>3
<1>5. IsSequence(more)
  <2>1. Len(more) \in Nat /\ more \in [1..Len(more) -> {more[i] : i \in DOMAIN more}]
    <3>1. DOMAIN more = 1..Len(more) /\ Len(more) \in Nat
      BY <1>3
    <3>2. more = [i \in 1..Len(more) |-> more[i]]
      BY <1>3
    <3> QED BY <3>1, <3>2
  <2> QED BY <2>1, SeqDef DEF IsSequence
<1> QED BY <1>3, <1>4, <1>5 DEF more

IsCall(h) ==
    h = [at |-> h.at, take |-> h.take, late |-> h.late, prior |-> h.prior, left |-> h.left,
         texts |-> h.texts, status |-> h.status, text |-> h.text]

\* A call hears what was asked of it: what it has of its text was told in its language.
CallInv(h) ==
    /\ IsCall(h) /\ IsSequence(h.texts)
    /\ \A i \in DOMAIN h.texts : \A j \in DOMAIN h.texts[i] : h.texts[i][j].told = LanguageOf(h.take)
    /\ h.at \in {"idle", "answered", "accepted", "queued"} \cup Holding

\* What the caller that is inside finds of the recognizer.
RecognizerInv ==
    /\ activeLanguage = recognizer /\ sttBroken \in BOOLEAN
    /\ sttLock = None => (sttBroken <=> recognizer = None)
    /\ \A c \in Callers :
          /\ hearing[c].at = "selecting" => (sttBroken <=> recognizer = None)
          /\ hearing[c].at \in {"creating", "restoring"} => recognizer = None
          /\ hearing[c].at = "restoring" => hearing[c].prior # None
          /\ hearing[c].at \in {"cutting", "decoding"} =>
                recognizer = LanguageOf(hearing[c].take) /\ recognizer # None /\ ~sttBroken

LockInv ==
    /\ sttLock \in Callers \cup {None}
    /\ \A c \in Callers : (sttLock = c) <=> (hearing[c].at \in Holding)

HearingInv ==
    /\ hearing = [c \in Callers |-> hearing[c]]
    /\ \A c \in Callers : CallInv(hearing[c])
    /\ LockInv /\ RecognizerInv

LEMMA LanguageIsNamed == \A take : LanguageOf(take) # None
  BY SpeechAssumption DEF LanguageOf

LEMMA HearingInit == TranscriptionInit => HearingInv
<1> SUFFICES ASSUME TranscriptionInit PROVE HearingInv
  OBVIOUS
<1> USE SpeechAssumption
<1>1. /\ recognizer = HomeLanguage /\ activeLanguage = HomeLanguage /\ sttBroken = FALSE /\ sttLock = None
      /\ hearing = [c \in Callers |-> IdleCall]
  BY DEF TranscriptionInit
<1>2. IdleCall.at = "idle" /\ IdleCall.texts = <<>> /\ IsCall(IdleCall)
  BY DEF IdleCall, IsCall
<1>3. IsSequence(<<>>) /\ DOMAIN <<>> = {}
  BY DEF IsSequence
<1>4. CallInv(IdleCall)
  BY <1>2, <1>3 DEF CallInv
<1> QED BY <1>1, <1>2, <1>4 DEF HearingInv, LockInv, RecognizerInv, Holding

\* One call changes; the others are as they were.
LEMMA OneCallChanges ==
    ASSUME HearingInv, NEW c \in Callers, NEW h, hearing' = [hearing EXCEPT ![c] = h], CallInv(h)
    PROVE  /\ hearing'[c] = h /\ \A d \in Callers : d # c => hearing'[d] = hearing[d]
           /\ hearing' = [d \in Callers |-> hearing'[d]] /\ \A d \in Callers : CallInv(hearing'[d])
  BY DEF HearingInv

\* A call that goes somewhere, outside the lock.
LEMMA CallOutside ==
    ASSUME HearingInv, NEW c \in Callers, NEW h, hearing' = [hearing EXCEPT ![c] = h], CallInv(h),
           hearing[c].at \notin Holding, h.at \notin Holding, UNCHANGED sttLock, Keep
    PROVE  HearingInv'
<1>1. /\ hearing'[c] = h /\ \A d \in Callers : d # c => hearing'[d] = hearing[d]
      /\ hearing' = [d \in Callers |-> hearing'[d]] /\ \A d \in Callers : CallInv(hearing'[d])
  BY OneCallChanges
<1>2. LockInv'
  BY <1>1 DEF HearingInv, LockInv
<1>3. RecognizerInv'
  BY <1>1 DEF HearingInv, RecognizerInv, Keep, Holding
<1>4. \A d \in Callers : CallInv(hearing[d])'
  BY <1>1 DEF CallInv, IsCall, IsSequence, LanguageOf
<1> QED BY <1>1, <1>2, <1>3, <1>4 DEF HearingInv

\* A call that goes somewhere inside the lock, or lets it go: nobody else is inside.
LEMMA CallInside ==
    ASSUME HearingInv, NEW c \in Callers, NEW h, hearing' = [hearing EXCEPT ![c] = h], CallInv(h),
           sttLock = c \/ sttLock = None,
           sttLock' = IF h.at \in Holding THEN c ELSE None,
           activeLanguage' = recognizer', sttBroken' \in BOOLEAN,
           h.at \notin Holding \/ h.at = "selecting" => (sttBroken' <=> recognizer' = None),
           h.at \in {"creating", "restoring"} => recognizer' = None,
           h.at = "restoring" => h.prior # None,
           h.at \in {"cutting", "decoding"} => recognizer' = LanguageOf(h.take) /\ recognizer' # None /\ ~sttBroken'
    PROVE  HearingInv'
<1> USE SpeechAssumption
<1>1. /\ hearing'[c] = h /\ \A d \in Callers : d # c => hearing'[d] = hearing[d]
      /\ hearing' = [d \in Callers |-> hearing'[d]] /\ \A d \in Callers : CallInv(hearing'[d])
  BY OneCallChanges
<1>2. \A d \in Callers : d # c => hearing[d].at \notin Holding
  BY DEF HearingInv, LockInv
<1>3. LockInv'
  BY <1>1, <1>2 DEF LockInv
<1>4. RecognizerInv'
  BY <1>1, <1>2, <1>3 DEF RecognizerInv, Holding
<1>5. \A d \in Callers : CallInv(hearing[d])'
  BY <1>1 DEF CallInv, IsCall, IsSequence, LanguageOf
<1> QED BY <1>1, <1>3, <1>4, <1>5 DEF HearingInv

\* A record of a call with other fields: what EXCEPT makes of it.
LEMMA CallFields ==
    ASSUME NEW h, IsCall(h)
    PROVE  /\ \A x : [h EXCEPT !.at = x] =
                 [at |-> x, take |-> h.take, late |-> h.late, prior |-> h.prior, left |-> h.left,
                  texts |-> h.texts, status |-> h.status, text |-> h.text]
           /\ \A x : [h EXCEPT !.late = x] =
                 [at |-> h.at, take |-> h.take, late |-> x, prior |-> h.prior, left |-> h.left,
                  texts |-> h.texts, status |-> h.status, text |-> h.text]
           /\ \A x : [h EXCEPT !.at = "answered", !.status = x, !.left = <<>>] =
                 [at |-> "answered", take |-> h.take, late |-> h.late, prior |-> h.prior, left |-> <<>>,
                  texts |-> h.texts, status |-> x, text |-> h.text]
           /\ \A x : [h EXCEPT !.at = "creating", !.prior = x] =
                 [at |-> "creating", take |-> h.take, late |-> h.late, prior |-> x, left |-> h.left,
                  texts |-> h.texts, status |-> h.status, text |-> h.text]
           /\ \A x : [h EXCEPT !.at = "decoding", !.left = x] =
                 [at |-> "decoding", take |-> h.take, late |-> h.late, prior |-> h.prior, left |-> x,
                  texts |-> h.texts, status |-> h.status, text |-> h.text]
<1> DEFINE F == {"at", "take", "late", "prior", "left", "texts", "status", "text"}
<1>1. DOMAIN h = F
  BY DEF IsCall
<1>2. \A x : [h EXCEPT !.at = x] =
         [at |-> x, take |-> h.take, late |-> h.late, prior |-> h.prior,
             left |-> h.left, texts |-> h.texts, status |-> h.status, text |-> h.text]
  <2> TAKE x
  <2> DEFINE g == [h EXCEPT !.at = x]
  <2>1. DOMAIN g = F /\ g = [f \in F |-> g[f]]
    BY <1>1
  <2>2. g.at = x /\ g.take = h.take /\ g.late = h.late /\ g.prior = h.prior /\ g.left = h.left /\ g.texts = h.texts /\ g.status = h.status /\ g.text = h.text
    BY <1>1
  <2> HIDE DEF g
  <2>3. g = [at |-> x, take |-> h.take, late |-> h.late, prior |-> h.prior,
             left |-> h.left, texts |-> h.texts, status |-> h.status, text |-> h.text]
    BY <2>1, <2>2
  <2> QED BY <2>3 DEF g
<1>3. \A x : [h EXCEPT !.late = x] =
         [at |-> h.at, take |-> h.take, late |-> x, prior |-> h.prior,
             left |-> h.left, texts |-> h.texts, status |-> h.status, text |-> h.text]
  <2> TAKE x
  <2> DEFINE g == [h EXCEPT !.late = x]
  <2>1. DOMAIN g = F /\ g = [f \in F |-> g[f]]
    BY <1>1
  <2>2. g.at = h.at /\ g.take = h.take /\ g.late = x /\ g.prior = h.prior /\ g.left = h.left /\ g.texts = h.texts /\ g.status = h.status /\ g.text = h.text
    BY <1>1
  <2> HIDE DEF g
  <2>3. g = [at |-> h.at, take |-> h.take, late |-> x, prior |-> h.prior,
             left |-> h.left, texts |-> h.texts, status |-> h.status, text |-> h.text]
    BY <2>1, <2>2
  <2> QED BY <2>3 DEF g
<1>4. \A x : [h EXCEPT !.at = "answered", !.status = x, !.left = <<>>] =
         [at |-> "answered", take |-> h.take, late |-> h.late, prior |-> h.prior,
             left |-> <<>>, texts |-> h.texts, status |-> x, text |-> h.text]
  <2> TAKE x
  <2> DEFINE g == [h EXCEPT !.at = "answered", !.status = x, !.left = <<>>]
  <2>1. DOMAIN g = F /\ g = [f \in F |-> g[f]]
    BY <1>1
  <2>2. g.at = "answered" /\ g.take = h.take /\ g.late = h.late /\ g.prior = h.prior /\ g.left = <<>> /\ g.texts = h.texts /\ g.status = x /\ g.text = h.text
    BY <1>1
  <2> HIDE DEF g
  <2>3. g = [at |-> "answered", take |-> h.take, late |-> h.late, prior |-> h.prior,
             left |-> <<>>, texts |-> h.texts, status |-> x, text |-> h.text]
    BY <2>1, <2>2
  <2> QED BY <2>3 DEF g
<1>5. \A x : [h EXCEPT !.at = "creating", !.prior = x] =
         [at |-> "creating", take |-> h.take, late |-> h.late, prior |-> x,
             left |-> h.left, texts |-> h.texts, status |-> h.status, text |-> h.text]
  <2> TAKE x
  <2> DEFINE g == [h EXCEPT !.at = "creating", !.prior = x]
  <2>1. DOMAIN g = F /\ g = [f \in F |-> g[f]]
    BY <1>1
  <2>2. g.at = "creating" /\ g.take = h.take /\ g.late = h.late /\ g.prior = x /\ g.left = h.left /\ g.texts = h.texts /\ g.status = h.status /\ g.text = h.text
    BY <1>1
  <2> HIDE DEF g
  <2>3. g = [at |-> "creating", take |-> h.take, late |-> h.late, prior |-> x,
             left |-> h.left, texts |-> h.texts, status |-> h.status, text |-> h.text]
    BY <2>1, <2>2
  <2> QED BY <2>3 DEF g
<1>6. \A x : [h EXCEPT !.at = "decoding", !.left = x] =
         [at |-> "decoding", take |-> h.take, late |-> h.late, prior |-> h.prior,
             left |-> x, texts |-> h.texts, status |-> h.status, text |-> h.text]
  <2> TAKE x
  <2> DEFINE g == [h EXCEPT !.at = "decoding", !.left = x]
  <2>1. DOMAIN g = F /\ g = [f \in F |-> g[f]]
    BY <1>1
  <2>2. g.at = "decoding" /\ g.take = h.take /\ g.late = h.late /\ g.prior = h.prior /\ g.left = x /\ g.texts = h.texts /\ g.status = h.status /\ g.text = h.text
    BY <1>1
  <2> HIDE DEF g
  <2>3. g = [at |-> "decoding", take |-> h.take, late |-> h.late, prior |-> h.prior,
             left |-> x, texts |-> h.texts, status |-> h.status, text |-> h.text]
    BY <2>1, <2>2
  <2> QED BY <2>3 DEF g
<1> QED BY <1>2, <1>3, <1>4, <1>5, <1>6

\* A piece is decoded.
LEMMA CallDecodes ==
    ASSUME NEW h, IsCall(h), NEW x, NEW y
    PROVE  [h EXCEPT !.left = x, !.texts = y] =
                  [at |-> h.at, take |-> h.take, late |-> h.late, prior |-> h.prior,
                      left |-> x, texts |-> y, status |-> h.status, text |-> h.text]
<1> DEFINE F == {"at", "take", "late", "prior", "left", "texts", "status", "text"}
<1>0. DOMAIN h = F
  BY DEF IsCall
<1> DEFINE g == [h EXCEPT !.left = x, !.texts = y]
<1>1. DOMAIN g = F /\ g = [f \in F |-> g[f]]
  BY <1>0
<1>2. g.at = h.at /\ g.take = h.take /\ g.late = h.late /\ g.prior = h.prior /\ g.left = x /\ g.texts = y /\ g.status = h.status /\ g.text = h.text
  BY <1>0
<1> HIDE DEF g
<1>3. g = [at |-> h.at, take |-> h.take, late |-> h.late, prior |-> h.prior,
             left |-> x, texts |-> y, status |-> h.status, text |-> h.text]
  BY <1>1, <1>2
<1> QED BY <1>3 DEF g

\* The text is told.
LEMMA CallTold ==
    ASSUME NEW h, IsCall(h), NEW x, NEW y
    PROVE  [h EXCEPT !.at = "answered", !.text = x, !.status = y] =
                  [at |-> "answered", take |-> h.take, late |-> h.late, prior |-> h.prior,
                      left |-> h.left, texts |-> h.texts, status |-> y, text |-> x]
<1> DEFINE F == {"at", "take", "late", "prior", "left", "texts", "status", "text"}
<1>0. DOMAIN h = F
  BY DEF IsCall
<1> DEFINE g == [h EXCEPT !.at = "answered", !.text = x, !.status = y]
<1>1. DOMAIN g = F /\ g = [f \in F |-> g[f]]
  BY <1>0
<1>2. g.at = "answered" /\ g.take = h.take /\ g.late = h.late /\ g.prior = h.prior /\ g.left = h.left /\ g.texts = h.texts /\ g.status = y /\ g.text = x
  BY <1>0
<1> HIDE DEF g
<1>3. g = [at |-> "answered", take |-> h.take, late |-> h.late, prior |-> h.prior,
             left |-> h.left, texts |-> h.texts, status |-> y, text |-> x]
  BY <1>1, <1>2
<1> QED BY <1>3 DEF g

\* Whatever keeps the request and what was told of it keeps the call as it should be.
LEMMA CallKept ==
    ASSUME NEW h, CallInv(h), NEW g, IsCall(g), g.take = h.take, g.texts = h.texts,
           g.at \in {"idle", "answered", "accepted", "queued"} \cup Holding
    PROVE  CallInv(g)
  BY DEF CallInv

\* The call goes to a place.
LEMMA CallAt ==
    ASSUME HearingInv, NEW c \in Callers, NEW place \in {"idle", "answered", "accepted", "queued"} \cup Holding,
           CallGoes(c, place)
    PROVE  \E h : /\ hearing' = [hearing EXCEPT ![c] = h] /\ CallInv(h) /\ h.at = place
                  /\ h.take = hearing[c].take /\ h.prior = hearing[c].prior
<1> DEFINE h == [hearing[c] EXCEPT !.at = place]
<1>1. IsCall(hearing[c]) /\ CallInv(hearing[c])
  BY DEF HearingInv, CallInv
<1>2. h = [at |-> place, take |-> hearing[c].take, late |-> hearing[c].late, prior |-> hearing[c].prior,
           left |-> hearing[c].left, texts |-> hearing[c].texts, status |-> hearing[c].status, text |-> hearing[c].text]
  BY <1>1, CallFields
<1>3. hearing' = [hearing EXCEPT ![c] = h]
  BY DEF CallGoes
<1> HIDE DEF h
<1>4. IsCall(h) /\ h.take = hearing[c].take /\ h.texts = hearing[c].texts /\ h.at = place /\ h.prior = hearing[c].prior
  BY <1>2 DEF IsCall
<1> QED BY <1>1, <1>3, <1>4, CallKept

\* The call is answered.
LEMMA CallAnswered ==
    ASSUME HearingInv, NEW c \in Callers, NEW status, CallEnds(c, status)
    PROVE  \E h : hearing' = [hearing EXCEPT ![c] = h] /\ CallInv(h) /\ h.at = "answered"
<1> DEFINE h == [hearing[c] EXCEPT !.at = "answered", !.status = status, !.left = <<>>]
<1>1. IsCall(hearing[c]) /\ CallInv(hearing[c])
  BY DEF HearingInv, CallInv
<1>2. h = [at |-> "answered", take |-> hearing[c].take, late |-> hearing[c].late, prior |-> hearing[c].prior,
           left |-> <<>>, texts |-> hearing[c].texts, status |-> status, text |-> hearing[c].text]
  BY <1>1, CallFields
<1>3. hearing' = [hearing EXCEPT ![c] = h]
  BY DEF CallEnds
<1> HIDE DEF h
<1>4. IsCall(h) /\ h.take = hearing[c].take /\ h.texts = hearing[c].texts /\ h.at = "answered"
  BY <1>2 DEF IsCall
<1> QED BY <1>1, <1>3, <1>4, CallKept

LEMMA PostKeeps == ASSUME HearingInv, NEW c \in Callers, Post(c) PROVE HearingInv'
<1>1. PICK take \in Recordings :
         hearing' = [hearing EXCEPT ![c] = [IdleCall EXCEPT
             !.take = take, !.at = IF Refusals(take) = <<>> THEN "accepted" ELSE "answered",
             !.status = IF Refusals(take) = <<>> THEN 0 ELSE Head(Refusals(take))[2]]]
  BY DEF Post
<1>2. hearing[c].at \in {"idle", "answered"} /\ UNCHANGED sttLock /\ Keep
  BY DEF Post
<1> DEFINE place == IF Refusals(take) = <<>> THEN "accepted" ELSE "answered"
           code == IF Refusals(take) = <<>> THEN 0 ELSE Head(Refusals(take))[2]
           h == [IdleCall EXCEPT !.take = take, !.at = place, !.status = code]
<1>3. place \in {"accepted", "answered"} /\ hearing' = [hearing EXCEPT ![c] = h]
  BY <1>1
<1> HIDE DEF place, code
<1>4. h = [at |-> place, take |-> take, late |-> FALSE, prior |-> None, left |-> <<>>,
           texts |-> <<>>, status |-> code, text |-> <<>>]
  <2> DEFINE F == {"at", "take", "late", "prior", "left", "texts", "status", "text"}
  <2>1. DOMAIN IdleCall = F
    BY DEF IdleCall
  <2>2. DOMAIN h = F /\ h = [f \in F |-> h[f]]
    BY <2>1
  <2>3. h.at = place /\ h.take = take /\ h.late = FALSE /\ h.prior = None /\ h.left = <<>> /\ h.texts = <<>>
        /\ h.status = code /\ h.text = <<>>
    BY <2>1 DEF IdleCall
  <2> HIDE DEF h
  <2> QED BY <2>2, <2>3
<1> HIDE DEF h
<1>5. CallInv(h) /\ h.at = place
  <2>1. IsCall(h) /\ h.texts = <<>> /\ h.at = place
    BY <1>4 DEF IsCall
  <2>2. IsSequence(<<>>) /\ DOMAIN <<>> = {}
    BY DEF IsSequence
  <2> QED BY <1>3, <2>1, <2>2 DEF CallInv
<1>6. hearing[c].at \notin Holding /\ h.at \notin Holding
  BY <1>2, <1>3, <1>5 DEF Holding
<1> QED BY <1>2, <1>3, <1>5, <1>6, CallOutside

LEMMA AskRuntimeKeeps == ASSUME HearingInv, NEW c \in Callers, AskRuntime(c) PROVE HearingInv'
<1>1. /\ hearing[c].at = "accepted" /\ UNCHANGED sttLock /\ Keep
      /\ CallEnds(c, 503) \/ CallEnds(c, 400) \/ CallGoes(c, "queued")
  BY DEF AskRuntime
<1>2. \E h : hearing' = [hearing EXCEPT ![c] = h] /\ CallInv(h) /\ h.at \in {"answered", "queued"}
  BY <1>1, CallAt, CallAnswered
<1>3. hearing[c].at \notin Holding /\ \A x \in {"answered", "queued"} : x \notin Holding
  BY <1>1 DEF Holding
<1> QED BY <1>1, <1>2, <1>3, CallOutside

LEMMA DeadlinePassesKeeps == ASSUME HearingInv, NEW c \in Callers, DeadlinePasses(c) PROVE HearingInv'
<1> DEFINE h == [hearing[c] EXCEPT !.late = TRUE]
<1>1. IsCall(hearing[c]) /\ CallInv(hearing[c])
  BY DEF HearingInv, CallInv
<1>2. h = [at |-> hearing[c].at, take |-> hearing[c].take, late |-> TRUE, prior |-> hearing[c].prior,
           left |-> hearing[c].left, texts |-> hearing[c].texts, status |-> hearing[c].status, text |-> hearing[c].text]
  BY <1>1, CallFields
<1>3. hearing' = [hearing EXCEPT ![c] = h] /\ UNCHANGED sttLock /\ UNCHANGED <<recognizer, activeLanguage, sttBroken>>
  BY DEF DeadlinePasses, Keep
<1> HIDE DEF h
<1>4. IsCall(h) /\ h.take = hearing[c].take /\ h.texts = hearing[c].texts /\ h.at = hearing[c].at /\ h.prior = hearing[c].prior
  BY <1>2 DEF IsCall
<1>5. CallInv(h)
  BY <1>1, <1>4, CallKept DEF CallInv
<1>6. /\ hearing'[c] = h /\ \A d \in Callers : d # c => hearing'[d] = hearing[d]
      /\ hearing' = [d \in Callers |-> hearing'[d]] /\ \A d \in Callers : CallInv(hearing'[d])
  BY <1>3, <1>5, OneCallChanges
<1>7. LockInv'
  BY <1>3, <1>4, <1>6 DEF HearingInv, LockInv
<1>8. RecognizerInv'
  BY <1>3, <1>4, <1>6 DEF HearingInv, RecognizerInv
<1>9. \A d \in Callers : CallInv(hearing[d])'
  BY <1>6 DEF CallInv, IsCall, IsSequence, LanguageOf
<1> QED BY <1>6, <1>7, <1>8, <1>9 DEF HearingInv

LEMMA TakeLockKeeps == ASSUME HearingInv, NEW c \in Callers, TakeLock(c) PROVE HearingInv'
<1>1. /\ sttLock = None /\ sttLock' = c /\ CallGoes(c, "selecting")
      /\ UNCHANGED <<recognizer, activeLanguage, sttBroken>>
  BY DEF TakeLock, Keep
<1>2. "selecting" \in Holding
  BY DEF Holding
<1>3. PICK h : hearing' = [hearing EXCEPT ![c] = h] /\ CallInv(h) /\ h.at = "selecting"
  BY <1>1, <1>2, CallAt
<1>4. activeLanguage = recognizer /\ sttBroken \in BOOLEAN /\ (sttBroken <=> recognizer = None)
  BY <1>1 DEF HearingInv, RecognizerInv
<1> QED BY <1>1, <1>2, <1>3, <1>4, CallInside

\* What the caller that is inside knows.
LEMMA InsideKnows ==
    ASSUME HearingInv, NEW c \in Callers, hearing[c].at \in Holding
    PROVE  /\ sttLock = c /\ activeLanguage = recognizer /\ sttBroken \in BOOLEAN
           /\ hearing[c].at = "selecting" => (sttBroken <=> recognizer = None)
           /\ hearing[c].at \in {"creating", "restoring"} => recognizer = None
           /\ hearing[c].at = "restoring" => hearing[c].prior # None
           /\ hearing[c].at \in {"cutting", "decoding"} =>
                 recognizer = LanguageOf(hearing[c].take) /\ recognizer # None /\ ~sttBroken
  BY DEF HearingInv, LockInv, RecognizerInv

LEMMA SelectLanguageKeeps == ASSUME HearingInv, NEW c \in Callers, SelectLanguage(c) PROVE HearingInv'
<1>1. hearing[c].at = "selecting" /\ UNCHANGED sttLock
  BY DEF SelectLanguage
<1>2. /\ sttLock = c /\ activeLanguage = recognizer /\ sttBroken \in BOOLEAN /\ (sttBroken <=> recognizer = None)
      /\ {"cutting", "creating"} \subseteq Holding
  BY <1>1, InsideKnows DEF Holding
<1>3. CASE recognizer # None /\ LanguageOf(hearing[c].take) = activeLanguage
  <2>1. CallGoes(c, "cutting") /\ UNCHANGED <<recognizer, activeLanguage, sttBroken>>
    BY <1>3 DEF SelectLanguage, Keep
  <2>2. PICK h : hearing' = [hearing EXCEPT ![c] = h] /\ CallInv(h) /\ h.at = "cutting" /\ h.take = hearing[c].take
    BY <1>2, <2>1, CallAt
  <2> QED BY <1>1, <1>2, <1>3, <2>1, <2>2, CallInside
<1>4. CASE ~(recognizer # None /\ LanguageOf(hearing[c].take) = activeLanguage)
  <2> DEFINE h == [hearing[c] EXCEPT !.at = "creating", !.prior = activeLanguage]
  <2>1. /\ hearing' = [hearing EXCEPT ![c] = h]
        /\ recognizer' = None /\ activeLanguage' = None /\ UNCHANGED sttBroken
    BY <1>4 DEF SelectLanguage
  <2>2. IsCall(hearing[c]) /\ CallInv(hearing[c])
    BY DEF HearingInv, CallInv
  <2>3. h = [at |-> "creating", take |-> hearing[c].take, late |-> hearing[c].late, prior |-> activeLanguage,
             left |-> hearing[c].left, texts |-> hearing[c].texts, status |-> hearing[c].status, text |-> hearing[c].text]
    BY <2>2, CallFields
  <2> HIDE DEF h
  <2>4. IsCall(h) /\ h.take = hearing[c].take /\ h.texts = hearing[c].texts /\ h.at = "creating"
    BY <2>3 DEF IsCall
  <2>5. CallInv(h)
    BY <1>2, <2>2, <2>4, CallKept
  <2> QED BY <1>1, <1>2, <2>1, <2>4, <2>5, CallInside
<1> QED BY <1>3, <1>4

LEMMA CreateRequestedKeeps == ASSUME HearingInv, NEW c \in Callers, CreateRequested(c) PROVE HearingInv'
<1>1. /\ hearing[c].at = "creating" /\ UNCHANGED sttLock /\ CallGoes(c, "cutting")
      /\ recognizer' = LanguageOf(hearing[c].take) /\ activeLanguage' = recognizer' /\ sttBroken' = FALSE
  BY DEF CreateRequested, Bound
<1>2. sttLock = c /\ "cutting" \in Holding
  BY <1>1, InsideKnows DEF Holding
<1>3. PICK h : hearing' = [hearing EXCEPT ![c] = h] /\ CallInv(h) /\ h.at = "cutting" /\ h.take = hearing[c].take
  BY <1>1, <1>2, CallAt
<1> QED BY <1>1, <1>2, <1>3, CallInside, LanguageIsNamed

LEMMA CreateFailsKeeps == ASSUME HearingInv, NEW c \in Callers, CreateFails(c) PROVE HearingInv'
<1>1. hearing[c].at = "creating" /\ UNCHANGED <<recognizer, activeLanguage>>
  BY DEF CreateFails
<1>2. /\ sttLock = c /\ "restoring" \in Holding /\ "answered" \notin Holding
      /\ recognizer = None /\ activeLanguage = recognizer /\ sttBroken \in BOOLEAN
  BY <1>1, InsideKnows DEF Holding
<1>3. CASE hearing[c].prior # None
  <2>1. CallGoes(c, "restoring") /\ UNCHANGED <<sttLock, sttBroken>>
    BY <1>3 DEF CreateFails
  <2>2. PICK h : hearing' = [hearing EXCEPT ![c] = h] /\ CallInv(h) /\ h.at = "restoring" /\ h.prior = hearing[c].prior
    BY <1>2, <2>1, CallAt
  <2> QED BY <1>1, <1>2, <1>3, <2>1, <2>2, CallInside
<1>4. CASE hearing[c].prior = None
  <2>1. CallEnds(c, 503) /\ sttLock' = None /\ sttBroken' = TRUE
    BY <1>4 DEF CreateFails, LetGo
  <2>2. PICK h : hearing' = [hearing EXCEPT ![c] = h] /\ CallInv(h) /\ h.at = "answered"
    BY <2>1, CallAnswered
  <2> QED BY <1>1, <1>2, <2>1, <2>2, CallInside
<1> QED BY <1>3, <1>4

LEMMA RestoreKeeps ==
    ASSUME HearingInv, NEW c \in Callers, RestorePrior(c) \/ RestoreFails(c)
    PROVE  HearingInv'
<1>1. /\ hearing[c].at = "restoring" /\ CallEnds(c, 503) /\ sttLock' = None
      /\ activeLanguage' = recognizer' /\ sttBroken' \in BOOLEAN
      /\ \/ recognizer' = hearing[c].prior /\ ~sttBroken'
         \/ recognizer' = None /\ sttBroken'
  BY DEF RestorePrior, RestoreFails, LetGo, Bound
<1>2. sttLock = c /\ hearing[c].prior # None /\ "answered" \notin Holding
  BY <1>1, InsideKnows DEF Holding
<1>3. PICK h : hearing' = [hearing EXCEPT ![c] = h] /\ CallInv(h) /\ h.at = "answered"
  BY <1>1, CallAnswered
<1> QED BY <1>1, <1>2, <1>3, CallInside

LEMMA CutSpeechKeeps == ASSUME HearingInv, NEW c \in Callers, CutSpeech(c) PROVE HearingInv'
<1> DEFINE clip == hearing[c].take.clip
<1>1. /\ hearing[c].at = "cutting" /\ UNCHANGED <<recognizer, activeLanguage, sttBroken>>
      /\ \/ LetGo(c, 422)
         \/ hearing' = [hearing EXCEPT ![c].at = "decoding", ![c].left = Pieces(clip)] /\ UNCHANGED sttLock
  BY DEF CutSpeech, Keep
<1>2. /\ sttLock = c /\ "decoding" \in Holding /\ "answered" \notin Holding
      /\ activeLanguage = recognizer /\ sttBroken \in BOOLEAN
      /\ recognizer = LanguageOf(hearing[c].take) /\ recognizer # None /\ ~sttBroken
  BY <1>1, InsideKnows DEF Holding
<1>3. CASE LetGo(c, 422)
  <2>1. CallEnds(c, 422) /\ sttLock' = None
    BY <1>3 DEF LetGo
  <2>2. PICK h : hearing' = [hearing EXCEPT ![c] = h] /\ CallInv(h) /\ h.at = "answered"
    BY <2>1, CallAnswered
  <2> QED BY <1>1, <1>2, <2>1, <2>2, CallInside
<1>4. CASE hearing' = [hearing EXCEPT ![c].at = "decoding", ![c].left = Pieces(clip)] /\ UNCHANGED sttLock
  <2> DEFINE left == Pieces(clip)
             h == [hearing[c] EXCEPT !.at = "decoding", !.left = left]
  <2> HIDE DEF left
  <2>1. hearing' = [hearing EXCEPT ![c] = h] /\ UNCHANGED sttLock
    BY <1>4 DEF left
  <2>2. IsCall(hearing[c]) /\ CallInv(hearing[c])
    BY DEF HearingInv, CallInv
  <2>3. h = [at |-> "decoding", take |-> hearing[c].take, late |-> hearing[c].late, prior |-> hearing[c].prior,
             left |-> left, texts |-> hearing[c].texts, status |-> hearing[c].status, text |-> hearing[c].text]
    BY <2>2, CallFields
  <2> HIDE DEF h
  <2>4. IsCall(h) /\ h.take = hearing[c].take /\ h.texts = hearing[c].texts /\ h.at = "decoding"
    BY <2>3 DEF IsCall
  <2>5. CallInv(h)
    BY <1>2, <2>2, <2>4, CallKept
  <2> QED BY <1>1, <1>2, <2>1, <2>4, <2>5, CallInside
<1> QED BY <1>1, <1>3, <1>4

LEMMA DecodePieceKeeps == ASSUME HearingInv, NEW c \in Callers, DecodePiece(c) PROVE HearingInv'
<1>1. hearing[c].at = "decoding" /\ UNCHANGED <<recognizer, activeLanguage, sttBroken>>
  BY DEF DecodePiece, Keep
<1>2. /\ sttLock = c /\ "decoding" \in Holding /\ "answered" \notin Holding
      /\ activeLanguage = recognizer /\ sttBroken \in BOOLEAN
      /\ recognizer = LanguageOf(hearing[c].take) /\ recognizer # None /\ ~sttBroken
  BY <1>1, InsideKnows DEF Holding
<1>3. CASE hearing[c].late
  <2>1. CallEnds(c, 504) /\ sttLock' = None
    BY <1>3 DEF DecodePiece, LetGo
  <2>2. PICK h : hearing' = [hearing EXCEPT ![c] = h] /\ CallInv(h) /\ h.at = "answered"
    BY <2>1, CallAnswered
  <2> QED BY <1>1, <1>2, <2>1, <2>2, CallInside
<1>4. CASE ~hearing[c].late
  <2> DEFINE told == Decoded(recognizer, Head(hearing[c].left))
             rest == Tail(hearing[c].left)
             texts == IF told = <<>> THEN hearing[c].texts ELSE Append(hearing[c].texts, told)
             h == [hearing[c] EXCEPT !.left = rest, !.texts = texts]
  <2>1. hearing' = [hearing EXCEPT ![c] = h] /\ UNCHANGED sttLock
    BY <1>4 DEF DecodePiece
  <2>2. \A j \in DOMAIN told : told[j].told = LanguageOf(hearing[c].take)
    BY <1>2 DEF Decoded
  <2>3. CallInv(hearing[c]) /\ IsCall(hearing[c]) /\ IsSequence(hearing[c].texts)
        /\ \A i \in DOMAIN hearing[c].texts : \A j \in DOMAIN hearing[c].texts[i] :
              hearing[c].texts[i][j].told = LanguageOf(hearing[c].take)
    BY DEF HearingInv, CallInv
  <2> HIDE DEF told, rest
  <2>4. /\ IsSequence(texts)
        /\ \A i \in DOMAIN texts : \A j \in DOMAIN texts[i] : texts[i][j].told = LanguageOf(hearing[c].take)
    <3>1. CASE told = <<>>
      BY <2>3, <3>1
    <3>2. CASE told # <<>>
      <4> DEFINE old == hearing[c].texts
                 more == Append(old, told)
      <4> HIDE DEF old
      <4>0. IsSequence(old)
        BY <2>3 DEF old
      <4>1. /\ IsSequence(more) /\ Len(old) \in Nat /\ DOMAIN old = 1..Len(old) /\ DOMAIN more = 1..(Len(old) + 1)
            /\ \A i \in DOMAIN old : more[i] = old[i]
            /\ more[Len(old) + 1] = told
        BY <4>0, AppendedTo
      <4> HIDE DEF more
      <4>2. \A i \in DOMAIN more : more[i] = told \/ (i \in DOMAIN old /\ more[i] = old[i])
        BY <4>1
      <4>3. texts = more
        BY <3>2 DEF more, old
      <4> HIDE DEF texts
      <4> QED BY <2>2, <2>3, <4>1, <4>2, <4>3 DEF old
    <3> QED BY <3>1, <3>2
  <2> HIDE DEF texts
  <2>5. h = [at |-> hearing[c].at, take |-> hearing[c].take, late |-> hearing[c].late, prior |-> hearing[c].prior,
             left |-> rest, texts |-> texts, status |-> hearing[c].status, text |-> hearing[c].text]
    BY <2>3, CallDecodes
  <2> HIDE DEF h
  <2>6. IsCall(h) /\ h.take = hearing[c].take /\ h.texts = texts /\ h.at = "decoding"
    BY <1>1, <2>5 DEF IsCall
  <2>7. CallInv(h)
    BY <1>2, <2>4, <2>6 DEF CallInv
  <2> QED BY <1>1, <1>2, <2>1, <2>6, <2>7, CallInside
<1> QED BY <1>3, <1>4

LEMMA TranscribeKeeps == ASSUME HearingInv, NEW c \in Callers, Transcribe(c) PROVE HearingInv'
<1> DEFINE text == JoinedUp(hearing[c].texts)
           code == IF text = <<>> THEN 422 ELSE 200
           h == [hearing[c] EXCEPT !.at = "answered", !.text = text, !.status = code]
<1>1. /\ hearing[c].at = "decoding" /\ sttLock' = None /\ UNCHANGED <<recognizer, activeLanguage, sttBroken>>
      /\ hearing' = [hearing EXCEPT ![c] = h]
  BY DEF Transcribe, Keep
<1>2. /\ sttLock = c /\ "answered" \notin Holding
      /\ activeLanguage = recognizer /\ sttBroken \in BOOLEAN
      /\ recognizer = LanguageOf(hearing[c].take) /\ recognizer # None /\ ~sttBroken
  BY <1>1, InsideKnows DEF Holding
<1>3. CallInv(hearing[c]) /\ IsCall(hearing[c])
  BY DEF HearingInv, CallInv
<1> HIDE DEF text, code
<1>4. h = [at |-> "answered", take |-> hearing[c].take, late |-> hearing[c].late, prior |-> hearing[c].prior,
           left |-> hearing[c].left, texts |-> hearing[c].texts, status |-> code, text |-> text]
  BY <1>3, CallTold
<1> HIDE DEF h
<1>5. IsCall(h) /\ h.take = hearing[c].take /\ h.texts = hearing[c].texts /\ h.at = "answered"
  BY <1>4 DEF IsCall
<1>6. CallInv(h)
  BY <1>3, <1>5, CallKept
<1> QED BY <1>1, <1>2, <1>5, <1>6, CallInside

LEMMA HearingStep == HearingInv /\ [TranscriptionNext]_sttVars => HearingInv'
<1> SUFFICES ASSUME HearingInv, [TranscriptionNext]_sttVars PROVE HearingInv'
  OBVIOUS
<1>1. CASE UNCHANGED sttVars
  <2>1. recognizer' = recognizer /\ activeLanguage' = activeLanguage /\ sttBroken' = sttBroken
        /\ sttLock' = sttLock /\ hearing' = hearing
    BY <1>1 DEF sttVars
  <2>2. (\A c \in Callers : CallInv(hearing[c]))'
    <3>1. \A c \in Callers : CallInv(hearing[c])
      BY DEF HearingInv
    <3>2. \A c \in Callers : CallInv(hearing'[c])
      BY <2>1, <3>1
    <3> QED BY <3>2 DEF CallInv, IsCall, IsSequence, LanguageOf
  <2>3. LockInv' /\ RecognizerInv'
    BY <2>1 DEF HearingInv, LockInv, RecognizerInv, LanguageOf
  <2> QED BY <2>1, <2>2, <2>3 DEF HearingInv
<1> QED BY <1>1, PostKeeps, AskRuntimeKeeps, DeadlinePassesKeeps, TakeLockKeeps, SelectLanguageKeeps,
           CreateRequestedKeeps, CreateFailsKeeps, RestoreKeeps, CutSpeechKeeps, DecodePieceKeeps,
           TranscribeKeeps DEF TranscriptionNext

\* For any callers, recordings and languages: one caller is inside, whoever is told that the runtime
\* is healthy finds a recognizer, and what is told is told in the language that was asked for.
THEOREM WordsAreToldAsAsked ==
    TranscriptionSpec => [](TranscriptionTypeOK /\ HealthyMeansLoaded /\ ToldAsAsked)
<1>1. HearingInv => TranscriptionTypeOK /\ HealthyMeansLoaded /\ ToldAsAsked
  BY DEF HearingInv, LockInv, RecognizerInv, CallInv, TranscriptionTypeOK, HealthyMeansLoaded, ToldAsAsked
<1> QED BY <1>1, HearingInit, HearingStep, PTL DEF TranscriptionSpec

-----------------------------------------------------------------------------
(* The synthesis gateway                                                   *)

IsSpeech(s) == s = [at |-> s.at, order |-> s.order, chunks |-> s.chunks, sent |-> s.sent, outcome |-> s.outcome]

\* What a thread has said is its own text from the beginning; an answer that is ok says all of it.
SaysItsText(s) ==
    /\ IsSequence(s.sent)
    /\ \A i \in DOMAIN s.sent : s.sent[i].text = s.chunks[i]
SaysAllOfIt(s) ==
    s.outcome = "ok" /\ s.order.kind # "health" =>
       /\ Len(s.sent) = Len(s.chunks)
       /\ s.order.kind = "whole" => Cardinality({s.sent[i].rate : i \in DOMAIN s.sent}) = 1

SpeechInv(s) ==
    /\ IsSpeech(s) /\ SaysItsText(s) /\ SaysAllOfIt(s)
    /\ s.at # "ended" => s.outcome # "ok"

EngineInv ==
    /\ voiceFiles \in BOOLEAN /\ voiceModel \in BOOLEAN /\ ttsError \in BOOLEAN
    /\ OneVoiceIsMade

SpeechLocks ==
    /\ loadLock \in Speakers \cup {None} /\ synthesisLock \in Speakers \cup {None}
    /\ \A c \in Speakers : /\ (loadLock = c) <=> (speech[c].at = "making")
                           /\ (synthesisLock = c) <=> (speech[c].at = "speaking")

SpeakingInv ==
    /\ speech = [c \in Speakers |-> speech[c]]
    /\ \A c \in Speakers : SpeechInv(speech[c])
    /\ SpeechLocks /\ EngineInv

LEMMA SpeakingInit == SynthesisInit => SpeakingInv
<1> SUFFICES ASSUME SynthesisInit PROVE SpeakingInv
  OBVIOUS
<1> USE SpeechAssumption
<1>1. /\ voiceFiles = FALSE /\ voiceModel = FALSE /\ loads = 0 /\ ttsError = FALSE
      /\ loadLock = None /\ synthesisLock = None
      /\ speech = [c \in Speakers |-> IdleSpeech]
  BY DEF SynthesisInit
<1>2. /\ IdleSpeech.at = "idle" /\ IdleSpeech.sent = <<>> /\ IdleSpeech.outcome = None /\ IsSpeech(IdleSpeech)
  BY DEF IdleSpeech, IsSpeech
<1>3. IsSequence(<<>>) /\ DOMAIN <<>> = {}
  BY DEF IsSequence
<1>4. SpeechInv(IdleSpeech)
  BY <1>2, <1>3 DEF SpeechInv, SaysItsText, SaysAllOfIt
<1>5. EngineInv
  BY <1>1 DEF EngineInv, OneVoiceIsMade
<1>6. SpeechLocks
  BY <1>1, <1>2 DEF SpeechLocks
<1> QED BY <1>1, <1>4, <1>5, <1>6 DEF SpeakingInv

\* The thread goes to a place.
LEMMA SpeechAt ==
    ASSUME NEW s, IsSpeech(s), NEW x
    PROVE  [s EXCEPT !.at = x] =
              [at |-> x, order |-> s.order, chunks |-> s.chunks, sent |-> s.sent, outcome |-> s.outcome]
<1> DEFINE F == {"at", "order", "chunks", "sent", "outcome"}
           g == [s EXCEPT !.at = x]
<1>1. DOMAIN s = F
  BY DEF IsSpeech
<1>2. DOMAIN g = F /\ g = [f \in F |-> g[f]]
  BY <1>1
<1>3. g.at = x /\ g.order = s.order /\ g.chunks = s.chunks /\ g.sent = s.sent /\ g.outcome = s.outcome
  BY <1>1
<1> HIDE DEF g
<1>4. g = [at |-> x, order |-> s.order, chunks |-> s.chunks, sent |-> s.sent, outcome |-> s.outcome]
  BY <1>2, <1>3
<1> QED BY <1>4 DEF g

\* It ends.
LEMMA SpeechEnded ==
    ASSUME NEW s, IsSpeech(s), NEW x
    PROVE  [s EXCEPT !.at = "ended", !.outcome = x] =
              [at |-> "ended", order |-> s.order, chunks |-> s.chunks, sent |-> s.sent, outcome |-> x]
<1> DEFINE F == {"at", "order", "chunks", "sent", "outcome"}
           g == [s EXCEPT !.at = "ended", !.outcome = x]
<1>1. DOMAIN s = F
  BY DEF IsSpeech
<1>2. DOMAIN g = F /\ g = [f \in F |-> g[f]]
  BY <1>1
<1>3. g.at = "ended" /\ g.order = s.order /\ g.chunks = s.chunks /\ g.sent = s.sent /\ g.outcome = x
  BY <1>1
<1> HIDE DEF g
<1>4. g = [at |-> "ended", order |-> s.order, chunks |-> s.chunks, sent |-> s.sent, outcome |-> x]
  BY <1>2, <1>3
<1> QED BY <1>4 DEF g

\* It has said a chunk.
LEMMA SpeechGoesOn ==
    ASSUME NEW s, IsSpeech(s), NEW x
    PROVE  [s EXCEPT !.at = "loading", !.sent = x] =
              [at |-> "loading", order |-> s.order, chunks |-> s.chunks, sent |-> x, outcome |-> s.outcome]
<1> DEFINE F == {"at", "order", "chunks", "sent", "outcome"}
           g == [s EXCEPT !.at = "loading", !.sent = x]
<1>1. DOMAIN s = F
  BY DEF IsSpeech
<1>2. DOMAIN g = F /\ g = [f \in F |-> g[f]]
  BY <1>1
<1>3. g.at = "loading" /\ g.order = s.order /\ g.chunks = s.chunks /\ g.sent = x /\ g.outcome = s.outcome
  BY <1>1
<1> HIDE DEF g
<1>4. g = [at |-> "loading", order |-> s.order, chunks |-> s.chunks, sent |-> x, outcome |-> s.outcome]
  BY <1>2, <1>3
<1> QED BY <1>4 DEF g

\* It has said the last.
LEMMA SpeechIsSaid ==
    ASSUME NEW s, IsSpeech(s), NEW x
    PROVE  [s EXCEPT !.at = "ended", !.sent = x, !.outcome = "ok"] =
              [at |-> "ended", order |-> s.order, chunks |-> s.chunks, sent |-> x, outcome |-> "ok"]
<1> DEFINE F == {"at", "order", "chunks", "sent", "outcome"}
           g == [s EXCEPT !.at = "ended", !.sent = x, !.outcome = "ok"]
<1>1. DOMAIN s = F
  BY DEF IsSpeech
<1>2. DOMAIN g = F /\ g = [f \in F |-> g[f]]
  BY <1>1
<1>3. g.at = "ended" /\ g.order = s.order /\ g.chunks = s.chunks /\ g.sent = x /\ g.outcome = "ok"
  BY <1>1
<1> HIDE DEF g
<1>4. g = [at |-> "ended", order |-> s.order, chunks |-> s.chunks, sent |-> x, outcome |-> "ok"]
  BY <1>2, <1>3
<1> QED BY <1>4 DEF g

\* An order that is not valid.
LEMMA SpeechRefused ==
    ASSUME NEW s, IsSpeech(s), NEW x
    PROVE  [s EXCEPT !.at = "ended", !.order = x, !.outcome = "invalid"] =
              [at |-> "ended", order |-> x, chunks |-> s.chunks, sent |-> s.sent, outcome |-> "invalid"]
<1> DEFINE F == {"at", "order", "chunks", "sent", "outcome"}
           g == [s EXCEPT !.at = "ended", !.order = x, !.outcome = "invalid"]
<1>1. DOMAIN s = F
  BY DEF IsSpeech
<1>2. DOMAIN g = F /\ g = [f \in F |-> g[f]]
  BY <1>1
<1>3. g.at = "ended" /\ g.order = x /\ g.chunks = s.chunks /\ g.sent = s.sent /\ g.outcome = "invalid"
  BY <1>1
<1> HIDE DEF g
<1>4. g = [at |-> "ended", order |-> x, chunks |-> s.chunks, sent |-> s.sent, outcome |-> "invalid"]
  BY <1>2, <1>3
<1> QED BY <1>4 DEF g

\* An order that is.
LEMMA SpeechTaken ==
    ASSUME NEW s, IsSpeech(s), NEW x, NEW y
    PROVE  [s EXCEPT !.at = "loading", !.order = x, !.chunks = y] =
              [at |-> "loading", order |-> x, chunks |-> y, sent |-> s.sent, outcome |-> s.outcome]
<1> DEFINE F == {"at", "order", "chunks", "sent", "outcome"}
           g == [s EXCEPT !.at = "loading", !.order = x, !.chunks = y]
<1>1. DOMAIN s = F
  BY DEF IsSpeech
<1>2. DOMAIN g = F /\ g = [f \in F |-> g[f]]
  BY <1>1
<1>3. g.at = "loading" /\ g.order = x /\ g.chunks = y /\ g.sent = s.sent /\ g.outcome = s.outcome
  BY <1>1
<1> HIDE DEF g
<1>4. g = [at |-> "loading", order |-> x, chunks |-> y, sent |-> s.sent, outcome |-> s.outcome]
  BY <1>2, <1>3
<1> QED BY <1>4 DEF g

\* One thread moves; the others are as they were.
LEMMA OneSpeakerChanges ==
    ASSUME SpeakingInv, NEW c \in Speakers, NEW s, speech' = [speech EXCEPT ![c] = s], SpeechInv(s),
           EngineInv',
           loadLock' = (IF s.at = "making" THEN c ELSE IF loadLock = c THEN None ELSE loadLock),
           s.at = "making" => loadLock \in {None, c},
           synthesisLock' = (IF s.at = "speaking" THEN c ELSE IF synthesisLock = c THEN None ELSE synthesisLock),
           s.at = "speaking" => synthesisLock \in {None, c}
    PROVE  SpeakingInv'
<1> USE SpeechAssumption
<1>1. /\ speech'[c] = s /\ \A d \in Speakers : d # c => speech'[d] = speech[d]
      /\ speech' = [d \in Speakers |-> speech'[d]] /\ \A d \in Speakers : SpeechInv(speech'[d])
  BY DEF SpeakingInv
<1>2. SpeechLocks'
  BY <1>1 DEF SpeakingInv, SpeechLocks
<1>3. (\A d \in Speakers : SpeechInv(speech[d]))'
  BY <1>1 DEF SpeechInv, IsSpeech, SaysItsText, SaysAllOfIt, IsSequence
<1> QED BY <1>1, <1>2, <1>3 DEF SpeakingInv

\* The thread goes to a place, or ends without having said all.
LEMMA SpeakerGoes ==
    ASSUME SpeakingInv, NEW c \in Speakers, NEW place, place # "ended", speech[c].at # "ended", SpeakingGoes(c, place)
    PROVE  \E s : speech' = [speech EXCEPT ![c] = s] /\ SpeechInv(s) /\ s.at = place
<1> DEFINE s == [speech[c] EXCEPT !.at = place]
<1>1. SpeechInv(speech[c]) /\ IsSpeech(speech[c])
  BY DEF SpeakingInv, SpeechInv
<1>2. s = [at |-> place, order |-> speech[c].order, chunks |-> speech[c].chunks, sent |-> speech[c].sent,
           outcome |-> speech[c].outcome]
  BY <1>1, SpeechAt
<1>3. speech' = [speech EXCEPT ![c] = s]
  BY DEF SpeakingGoes
<1> HIDE DEF s
<1>4. /\ IsSpeech(s) /\ s.at = place /\ s.order = speech[c].order /\ s.chunks = speech[c].chunks
      /\ s.sent = speech[c].sent /\ s.outcome = speech[c].outcome
  BY <1>2 DEF IsSpeech
<1>5. SpeechInv(s)
  BY <1>1, <1>4 DEF SpeechInv, SaysItsText, SaysAllOfIt
<1> QED BY <1>3, <1>4, <1>5

LEMMA SpeakerEnds ==
    ASSUME SpeakingInv, NEW c \in Speakers, NEW how, SpeakingEnds(c, how),
           how # "ok" \/ speech[c].order.kind = "health"
    PROVE  \E s : speech' = [speech EXCEPT ![c] = s] /\ SpeechInv(s) /\ s.at = "ended"
<1> DEFINE s == [speech[c] EXCEPT !.at = "ended", !.outcome = how]
<1>1. SpeechInv(speech[c]) /\ IsSpeech(speech[c])
  BY DEF SpeakingInv, SpeechInv
<1>2. s = [at |-> "ended", order |-> speech[c].order, chunks |-> speech[c].chunks, sent |-> speech[c].sent,
           outcome |-> how]
  BY <1>1, SpeechEnded
<1>3. speech' = [speech EXCEPT ![c] = s]
  BY DEF SpeakingEnds
<1> HIDE DEF s
<1>4. /\ IsSpeech(s) /\ s.at = "ended" /\ s.order = speech[c].order /\ s.chunks = speech[c].chunks
      /\ s.sent = speech[c].sent /\ s.outcome = how
  BY <1>2 DEF IsSpeech
<1>5. SpeechInv(s)
  BY <1>1, <1>4 DEF SpeechInv, SaysItsText, SaysAllOfIt
<1> QED BY <1>3, <1>4, <1>5

\* Whether there is a model decides where it goes.
LEMMA ModelIsThere ==
    ASSUME SpeakingInv, NEW c \in Speakers, speech[c].at # "ended", HasModel(c)
    PROVE  \E s : speech' = [speech EXCEPT ![c] = s] /\ SpeechInv(s) /\ s.at \in {"ended", "queued"}
<1>1. CASE speech[c].order.kind = "health"
  BY <1>1, SpeakerEnds DEF HasModel
<1>2. CASE speech[c].order.kind # "health"
  BY <1>2, SpeakerGoes DEF HasModel
<1> QED BY <1>1, <1>2

\* A step that leaves the engine and the locks alone, of a thread inside neither.
LEMMA SpeakerOutside ==
    ASSUME SpeakingInv, NEW c \in Speakers, NEW s, speech' = [speech EXCEPT ![c] = s], SpeechInv(s),
           s.at \in {"loading", "locking", "queued", "ended"}, speech[c].at \notin {"making", "speaking"},
           UNCHANGED Engine, UNCHANGED Locks
    PROVE  SpeakingInv'
<1>1. EngineInv'
  BY DEF SpeakingInv, EngineInv, OneVoiceIsMade, Engine
<1>2. loadLock' = loadLock /\ synthesisLock' = synthesisLock /\ loadLock # c /\ synthesisLock # c
  BY DEF SpeakingInv, SpeechLocks, Locks
<1>3. s.at # "making" /\ s.at # "speaking"
  OBVIOUS
<1> QED BY <1>1, <1>2, <1>3, OneSpeakerChanges

LEMMA OrderKeeps == ASSUME SpeakingInv, NEW c \in Speakers, Order(c) PROVE SpeakingInv'
<1>1. PICK order \in Orders :
          speech' = [speech EXCEPT ![c] =
             IF HasText(order)
               THEN [IdleSpeech EXCEPT !.at = "loading", !.order = order, !.chunks = SplitTextChunks(order.text)]
               ELSE [IdleSpeech EXCEPT !.at = "ended", !.order = order, !.outcome = "invalid"]]
  BY DEF Order
<1>2. speech[c].at \in {"idle", "ended"} /\ UNCHANGED Engine /\ UNCHANGED Locks
  BY DEF Order
<1>3. /\ IsSpeech(IdleSpeech) /\ IdleSpeech.sent = <<>> /\ IdleSpeech.outcome = None
      /\ IsSequence(<<>>) /\ DOMAIN <<>> = {}
  BY DEF IdleSpeech, IsSpeech, IsSequence
<1>4. \E s : speech' = [speech EXCEPT ![c] = s] /\ SpeechInv(s) /\ s.at \in {"ended", "loading"}
  <2>1. CASE ~HasText(order)
    <3> DEFINE s == [IdleSpeech EXCEPT !.at = "ended", !.order = order, !.outcome = "invalid"]
    <3>1. speech' = [speech EXCEPT ![c] = s]
      BY <1>1, <2>1
    <3>2. s = [at |-> "ended", order |-> order, chunks |-> IdleSpeech.chunks, sent |-> IdleSpeech.sent,
               outcome |-> "invalid"]
      BY <1>3, SpeechRefused
    <3> HIDE DEF s
    <3>3. IsSpeech(s) /\ s.at = "ended" /\ s.sent = <<>> /\ s.outcome = "invalid"
      BY <1>3, <3>2 DEF IsSpeech
    <3>4. SpeechInv(s)
      BY <1>3, <3>3 DEF SpeechInv, SaysItsText, SaysAllOfIt
    <3> QED BY <3>1, <3>3, <3>4
  <2>2. CASE HasText(order)
    <3> DEFINE chunks == SplitTextChunks(order.text)
               s == [IdleSpeech EXCEPT !.at = "loading", !.order = order, !.chunks = chunks]
    <3>1. speech' = [speech EXCEPT ![c] = s]
      BY <1>1, <2>2
    <3> HIDE DEF chunks
    <3>2. s = [at |-> "loading", order |-> order, chunks |-> chunks, sent |-> IdleSpeech.sent,
               outcome |-> IdleSpeech.outcome]
      BY <1>3, SpeechTaken
    <3> HIDE DEF s
    <3>3. IsSpeech(s) /\ s.at = "loading" /\ s.sent = <<>> /\ s.outcome # "ok"
      BY <1>3, <3>2, SpeechAssumption DEF IsSpeech
    <3>4. SpeechInv(s)
      BY <1>3, <3>3 DEF SpeechInv, SaysItsText, SaysAllOfIt
    <3> QED BY <3>1, <3>3, <3>4
  <2> QED BY <2>1, <2>2
<1> QED BY <1>2, <1>4, SpeakerOutside

LEMMA FindModelKeeps == ASSUME SpeakingInv, NEW c \in Speakers, FindModel(c) PROVE SpeakingInv'
<1>1. speech[c].at = "loading" /\ HasModel(c) /\ UNCHANGED Engine /\ UNCHANGED Locks
  BY DEF FindModel
<1> QED BY <1>1, ModelIsThere, SpeakerOutside

LEMMA MissModelKeeps == ASSUME SpeakingInv, NEW c \in Speakers, MissModel(c) PROVE SpeakingInv'
<1>1. speech[c].at = "loading" /\ SpeakingGoes(c, "locking") /\ UNCHANGED Engine /\ UNCHANGED Locks
  BY DEF MissModel
<1> QED BY <1>1, SpeakerGoes, SpeakerOutside

LEMMA HangUpKeeps == ASSUME SpeakingInv, NEW c \in Speakers, HangUp(c) PROVE SpeakingInv'
<1>1. speech[c].at = "loading" /\ SpeakingEnds(c, "gone") /\ UNCHANGED Engine /\ UNCHANGED Locks
  BY DEF HangUp
<1> QED BY <1>1, SpeakerEnds, SpeakerOutside

LEMMA TakeLoadLockKeeps == ASSUME SpeakingInv, NEW c \in Speakers, TakeLoadLock(c) PROVE SpeakingInv'
<1>1. /\ speech[c].at = "locking" /\ loadLock = None /\ loadLock' = c /\ SpeakingGoes(c, "making")
      /\ UNCHANGED Engine /\ synthesisLock' = synthesisLock
  BY DEF TakeLoadLock
<1>2. EngineInv' /\ synthesisLock # c
  BY <1>1 DEF SpeakingInv, EngineInv, OneVoiceIsMade, Engine, SpeechLocks
<1>3. PICK s : speech' = [speech EXCEPT ![c] = s] /\ SpeechInv(s) /\ s.at = "making"
  BY <1>1, SpeakerGoes
<1> QED BY <1>1, <1>2, <1>3, OneSpeakerChanges

LEMMA TakeSynthesisLockKeeps == ASSUME SpeakingInv, NEW c \in Speakers, TakeSynthesisLock(c) PROVE SpeakingInv'
<1>1. /\ speech[c].at = "queued" /\ synthesisLock = None /\ synthesisLock' = c /\ SpeakingGoes(c, "speaking")
      /\ UNCHANGED Engine /\ loadLock' = loadLock
  BY DEF TakeSynthesisLock
<1>2. EngineInv' /\ loadLock # c
  BY <1>1 DEF SpeakingInv, EngineInv, OneVoiceIsMade, Engine, SpeechLocks
<1>3. PICK s : speech' = [speech EXCEPT ![c] = s] /\ SpeechInv(s) /\ s.at = "speaking"
  BY <1>1, SpeakerGoes
<1> QED BY <1>1, <1>2, <1>3, OneSpeakerChanges

LEMMA MakeModelKeeps == ASSUME SpeakingInv, NEW c \in Speakers, MakeModel(c) PROVE SpeakingInv'
<1>1. speech[c].at = "making" /\ loadLock' = None /\ synthesisLock' = synthesisLock
  BY DEF MakeModel
<1>2. loadLock = c /\ synthesisLock # c
  BY <1>1 DEF SpeakingInv, SpeechLocks
<1>3. EngineInv' /\ (HasModel(c) \/ HasNoModel(c))
  <2>1. EngineInv
    BY DEF SpeakingInv
  <2>2. CASE voiceModel /\ HasModel(c) /\ UNCHANGED Engine
    BY <2>1, <2>2 DEF EngineInv, OneVoiceIsMade, Engine
  <2>3. CASE ~voiceModel /\ voiceFiles /\ voiceModel' = TRUE /\ loads' = loads + 1 /\ ttsError' = FALSE
               /\ HasModel(c) /\ UNCHANGED voiceFiles
    <3>1. loads = 0 /\ voiceFiles = TRUE
      BY <2>1, <2>3 DEF EngineInv, OneVoiceIsMade
    <3>2. voiceFiles' = TRUE /\ voiceModel' = TRUE /\ loads' = 1 /\ ttsError' = FALSE
      BY <2>3, <3>1
    <3> QED BY <2>3, <3>2 DEF EngineInv, OneVoiceIsMade
  <2>4. CASE ~voiceModel /\ ttsError' = TRUE /\ HasNoModel(c) /\ UNCHANGED <<voiceFiles, voiceModel, loads>>
    BY <2>1, <2>4 DEF EngineInv, OneVoiceIsMade
  <2> QED BY <2>2, <2>3, <2>4 DEF MakeModel
<1>4. PICK s : speech' = [speech EXCEPT ![c] = s] /\ SpeechInv(s) /\ s.at \in {"ended", "queued"}
  BY <1>1, <1>3, ModelIsThere, SpeakerEnds DEF HasNoModel
<1>5. s.at # "making" /\ s.at # "speaking"
  BY <1>4
<1> QED BY <1>1, <1>2, <1>3, <1>4, <1>5, OneSpeakerChanges

\* One more chunk is said: the one that is next, and at one rate if the answer is a whole.
LEMMA ChunkIsSaid ==
    ASSUME SpeakingInv, NEW c \in Speakers, speech[c].at = "speaking", NEW rate, Sounds(c, rate)
    PROVE  \E s : speech' = [speech EXCEPT ![c] = s] /\ SpeechInv(s) /\ s.at \in {"ended", "loading"}
<1> DEFINE old == speech[c].sent
           said == [text |-> speech[c].chunks[Len(old) + 1], rate |-> rate]
           more == Append(old, said)
           changes == speech[c].order.kind = "whole" /\ \E i \in DOMAIN more : more[i].rate # rate
<1>1. /\ SpeechInv(speech[c]) /\ IsSpeech(speech[c]) /\ SaysItsText(speech[c]) /\ IsSequence(speech[c].sent)
      /\ speech[c].outcome # "ok"
  BY DEF SpeakingInv, SpeechInv, SaysItsText
<1>2. /\ changes => SpeakingEnds(c, "unavailable")
      /\ ~changes /\ Len(more) = Len(speech[c].chunks) =>
            speech' = [speech EXCEPT ![c].at = "ended", ![c].sent = more, ![c].outcome = "ok"]
      /\ ~changes /\ Len(more) # Len(speech[c].chunks) =>
            speech' = [speech EXCEPT ![c].at = "loading", ![c].sent = more]
  BY DEF Sounds
<1>3. said.text = speech[c].chunks[Len(old) + 1] /\ said.rate = rate
  OBVIOUS
<1> HIDE DEF old, said
<1>4. IsSequence(old) /\ \A i \in DOMAIN old : old[i].text = speech[c].chunks[i]
  BY <1>1 DEF SaysItsText, old
<1>5. /\ IsSequence(more) /\ Len(more) = Len(old) + 1 /\ Len(old) \in Nat
      /\ DOMAIN old = 1..Len(old) /\ DOMAIN more = 1..(Len(old) + 1)
      /\ \A i \in DOMAIN old : more[i] = old[i]
      /\ more[Len(old) + 1] = said
  BY <1>4, AppendedTo
<1> HIDE DEF more
<1>6. \A i \in DOMAIN more : more[i].text = speech[c].chunks[i]
  <2> TAKE i \in DOMAIN more
  <2>1. i \in DOMAIN old \/ i = Len(old) + 1
    BY <1>5
  <2> QED BY <1>3, <1>4, <1>5, <2>1
<1>7. CASE changes
  <2> HIDE DEF changes
  <2> QED BY <1>2, <1>7, SpeakerEnds
<1>8. CASE ~changes /\ Len(more) = Len(speech[c].chunks)
  <2> DEFINE s == [speech[c] EXCEPT !.at = "ended", !.sent = more, !.outcome = "ok"]
  <2>1. speech' = [speech EXCEPT ![c] = s]
    BY <1>2, <1>8
  <2>2. s = [at |-> "ended", order |-> speech[c].order, chunks |-> speech[c].chunks, sent |-> more, outcome |-> "ok"]
    BY <1>1, SpeechIsSaid
  <2> HIDE DEF s
  <2>3. /\ IsSpeech(s) /\ s.at = "ended" /\ s.order = speech[c].order /\ s.chunks = speech[c].chunks
        /\ s.sent = more /\ s.outcome = "ok"
    BY <2>2 DEF IsSpeech
  <2>4. speech[c].order.kind = "whole" => Cardinality({more[i].rate : i \in DOMAIN more}) = 1
    <3> SUFFICES ASSUME speech[c].order.kind = "whole"
                 PROVE  Cardinality({more[i].rate : i \in DOMAIN more}) = 1
      OBVIOUS
    <3>1. {more[i].rate : i \in DOMAIN more} = {rate}
      BY <1>3, <1>5, <1>8
    <3> QED BY <3>1, FS_Singleton
  <2>5. SpeechInv(s)
    BY <1>5, <1>6, <1>8, <2>3, <2>4 DEF SpeechInv, SaysItsText, SaysAllOfIt
  <2> QED BY <2>1, <2>3, <2>5
<1>9. CASE ~changes /\ Len(more) # Len(speech[c].chunks)
  <2> DEFINE s == [speech[c] EXCEPT !.at = "loading", !.sent = more]
  <2>1. speech' = [speech EXCEPT ![c] = s]
    BY <1>2, <1>9
  <2>2. s = [at |-> "loading", order |-> speech[c].order, chunks |-> speech[c].chunks, sent |-> more,
             outcome |-> speech[c].outcome]
    BY <1>1, SpeechGoesOn
  <2> HIDE DEF s
  <2>3. /\ IsSpeech(s) /\ s.at = "loading" /\ s.order = speech[c].order /\ s.chunks = speech[c].chunks
        /\ s.sent = more /\ s.outcome # "ok"
    BY <1>1, <2>2 DEF IsSpeech
  <2>4. SpeechInv(s)
    BY <1>5, <1>6, <2>3 DEF SpeechInv, SaysItsText, SaysAllOfIt
  <2> QED BY <2>1, <2>3, <2>4
<1> QED BY <1>7, <1>8, <1>9

LEMMA SynthesizeChunkKeeps == ASSUME SpeakingInv, NEW c \in Speakers, SynthesizeChunk(c) PROVE SpeakingInv'
<1>1. /\ speech[c].at = "speaking" /\ synthesisLock' = None /\ loadLock' = loadLock
      /\ voiceFiles' = voiceFiles /\ voiceModel' = voiceModel /\ loads' = loads
      /\ ttsError' = ttsError \/ ttsError' = TRUE
      /\ (\E rate \in SampleRates : Sounds(c, rate)) \/ HasNoModel(c)
  BY DEF SynthesizeChunk
<1>2. synthesisLock = c /\ loadLock # c
  BY <1>1 DEF SpeakingInv, SpeechLocks
<1>3. EngineInv'
  BY <1>1 DEF SpeakingInv, EngineInv, OneVoiceIsMade
<1>4. PICK s : speech' = [speech EXCEPT ![c] = s] /\ SpeechInv(s) /\ s.at \in {"ended", "loading"}
  BY <1>1, ChunkIsSaid, SpeakerEnds DEF HasNoModel
<1>5. s.at # "making" /\ s.at # "speaking"
  BY <1>4
<1> QED BY <1>1, <1>2, <1>3, <1>4, <1>5, OneSpeakerChanges

LEMMA SpeechStays ==
    ASSUME SpeakingInv, speech' = speech, UNCHANGED Locks, EngineInv'
    PROVE  SpeakingInv'
<1>1. \A c \in Speakers : SpeechInv(speech[c])
  BY DEF SpeakingInv
<1>2. \A c \in Speakers : SpeechInv(speech'[c])
  BY <1>1
<1>3. (\A c \in Speakers : SpeechInv(speech[c]))'
  BY <1>2 DEF SpeechInv, IsSpeech, SaysItsText, SaysAllOfIt, IsSequence
<1>4. SpeechLocks'
  BY DEF SpeakingInv, SpeechLocks, Locks
<1> QED BY <1>3, <1>4 DEF SpeakingInv

LEMMA SpeakingStep == SpeakingInv /\ [SynthesisNext]_ttsVars => SpeakingInv'
<1> SUFFICES ASSUME SpeakingInv, [SynthesisNext]_ttsVars PROVE SpeakingInv'
  OBVIOUS
<1>1. CASE UNCHANGED ttsVars
  <2>1. EngineInv' /\ speech' = speech /\ UNCHANGED Locks
    BY <1>1 DEF SpeakingInv, EngineInv, OneVoiceIsMade, ttsVars, Locks
  <2> QED BY <2>1, SpeechStays
<1>2. CASE Install
  <2>1. EngineInv' /\ speech' = speech /\ UNCHANGED Locks
    BY <1>2 DEF SpeakingInv, EngineInv, OneVoiceIsMade, Install
  <2> QED BY <2>1, SpeechStays
<1> QED BY <1>1, <1>2, OrderKeeps, FindModelKeeps, MissModelKeeps, TakeLoadLockKeeps, MakeModelKeeps,
           TakeSynthesisLockKeeps, SynthesizeChunkKeeps, HangUpKeeps DEF SynthesisNext

\* For any threads, orders and rates: the voice is made once, one thread is inside each lock, what a
\* thread has said is its own text from the beginning, and an answer that is ok says all of it.
THEOREM AnswersAreSpokenWhole ==
    SynthesisSpec => [](SynthesisTypeOK /\ OneVoiceIsMade /\ SpokenWhole)
<1>1. SpeakingInv => SynthesisTypeOK /\ OneVoiceIsMade /\ SpokenWhole
  <2> SUFFICES ASSUME SpeakingInv PROVE SynthesisTypeOK /\ OneVoiceIsMade /\ SpokenWhole
    OBVIOUS
  <2>1. SynthesisTypeOK /\ OneVoiceIsMade
    BY DEF SpeakingInv, SpeechLocks, EngineInv, SynthesisTypeOK
  <2>2. \A c \in Speakers : SaysItsText(speech[c]) /\ SaysAllOfIt(speech[c])
    BY DEF SpeakingInv, SpeechInv
  <2>3. SpokenWhole
    BY <2>2 DEF SpokenWhole, SaysItsText, SaysAllOfIt
  <2> QED BY <2>1, <2>3
<1> QED BY <1>1, SpeakingInit, SpeakingStep, PTL DEF SynthesisSpec

-----------------------------------------------------------------------------
(* PrivateTurns                                                            *)

\* What a sequence of things of another sequence has.
LEMMA TakenFrom ==
    ASSUME NEW s, NEW r \in Seq({s[i] : i \in DOMAIN s})
    PROVE  IsSequence(r) /\ \A j \in DOMAIN r : \E i \in DOMAIN s : r[j] = s[i]
<1> DEFINE S == {s[i] : i \in DOMAIN s}
           R == {r[j] : j \in DOMAIN r}
<1>1. /\ Len(r) \in Nat /\ DOMAIN r = 1..Len(r) /\ r = [j \in 1..Len(r) |-> r[j]]
      /\ \A j \in DOMAIN r : r[j] \in S
  OBVIOUS
<1>2. r \in [1..Len(r) -> R]
  BY <1>1
<1>3. IsSequence(r)
  BY <1>1, <1>2, SeqDef DEF IsSequence
<1> QED BY <1>1, <1>3

LEMMA NumberedIsSequence ==
    ASSUME NEW s, NEW n \in Nat, s = [i \in 1..n |-> s[i]]
    PROVE  IsSequence(s)
<1> DEFINE S == {s[i] : i \in DOMAIN s}
<1>1. s \in [1..n -> S]
  OBVIOUS
<1> HIDE DEF S
<1>2. s \in Seq(S)
  BY <1>1, SeqDef
<1> QED BY <1>2 DEF IsSequence, S

\* What is left when one is removed, and when the first go.
LEMMA RemovedFrom ==
    ASSUME NEW s, IsSequence(s), NEW n \in DOMAIN s
    PROVE  RemoveAt(s, n) \in Seq({s[i] : i \in DOMAIN s})
<1> DEFINE S == {s[i] : i \in DOMAIN s}
<1>1. s \in Seq(S) /\ Len(s) \in Nat /\ n \in 1..Len(s)
  BY DEF IsSequence
<1> HIDE DEF S
<1>2. SubSeq(s, 1, n - 1) \in Seq(S)
  BY <1>1, SubSeqProperties
<1>3. SubSeq(s, n + 1, Len(s)) \in Seq(S)
  BY <1>1, SubSeqProperties
<1>4. RemoveAt(s, n) \in Seq(S)
  BY <1>2, <1>3, ConcatProperties DEF RemoveAt
<1> QED BY <1>4 DEF S

LEMMA LastOf ==
    ASSUME NEW s, IsSequence(s), NEW n \in 0..Len(s)
    PROVE  SubSeq(s, n + 1, Len(s)) \in Seq({s[i] : i \in DOMAIN s})
<1> DEFINE S == {s[i] : i \in DOMAIN s}
<1>1. s \in Seq(S) /\ Len(s) \in Nat
  BY DEF IsSequence
<1> HIDE DEF S
<1>2. SubSeq(s, n + 1, Len(s)) \in Seq(S)
  BY <1>1, SubSeqProperties
<1> QED BY <1>2 DEF S

LEMMA TailOf ==
    ASSUME NEW s, IsSequence(s), s # <<>>
    PROVE  Tail(s) \in Seq({s[i] : i \in DOMAIN s})
  BY HeadTailProperties DEF IsSequence

LEMMA AppendIsNotEmpty == ASSUME NEW s, NEW e, IsSequence(s) PROVE Append(s, e) # <<>>
<1>1. DOMAIN Append(s, e) = 1..(Len(s) + 1) /\ Len(s) \in Nat
  BY AppendedTo
<1>2. 1 \in DOMAIN Append(s, e)
  BY <1>1
<1> QED BY <1>2

\* Numbers have a least.
LEMMA SomeIsLeast ==
    ASSUME NEW T \in SUBSET Nat, T # {}
    PROVE  \E n \in T : \A k \in T : n =< k
<1>1. PICK n \in T : \A k \in T : <<k, n>> \notin OpToRel(<, Nat)
  BY NatLessThanWellFounded, WFMin
<1>2. \A k \in T : ~(k < n)
  BY <1>1 DEF OpToRel
<1> QED BY <1>2

\* Whole turns go, the oldest first: what is kept was there.
LEMMA KeptWasThere ==
    ASSUME NEW h, IsSequence(h)
    PROVE  KeptPrivate(h) \in Seq({h[i] : i \in DOMAIN h})
<1> DEFINE enough == {n \in 0..Len(h) : n = Len(h) \/ FitsPrivate(SubSeq(h, n + 1, Len(h)))}
           drop   == CHOOSE n \in enough : \A k \in enough : n =< k
<1>1. Len(h) \in Nat
  BY DEF IsSequence
<1>2. enough \in SUBSET Nat /\ enough # {} /\ enough \subseteq 0..Len(h)
  BY <1>1
<1>3. KeptPrivate(h) = SubSeq(h, drop + 1, Len(h))
  BY DEF KeptPrivate
<1> HIDE DEF enough
<1>4. drop \in enough
  BY <1>2, SomeIsLeast
<1> HIDE DEF drop
<1> QED BY <1>2, <1>3, <1>4, LastOf

-----------------------------------------------------------------------------
Unspoken == {"queued", "thinking", "generating"}

IsChat(c) == c = [q |-> c.q, at |-> c.at, seen |-> c.seen, answer |-> c.answer]

\* What is told of a turn is the answer it got, once it got one.
TurnIsTold(t) ==
    t.nth \in DOMAIN chats /\ chats[t.nth].at \notin Unspoken /\ t.text = chats[t.nth].answer

\* A text of hers never says that she is a model, nor names one before who asks who she is.
TextIsGuarded(c) ==
    c.answer # "claim" /\ (c.answer = "brand" => c.q.ask = "talk")

\* What the model of a turn is told may be told to it.
SeesItsOwn(i, seen) ==
    \A k \in DOMAIN seen :
       /\ TurnIsTold(seen[k])
       /\ Private(seen[k].nth) => Private(i) /\ PartitionOf(seen[k].nth) = PartitionOf(i)

\* The histories are of private turns of their partition.
HistoriesAreTheirs(h) ==
    /\ IsSequence(h)
    /\ \A n \in DOMAIN h :
          /\ IsSequence(h[n].told)
          /\ \A k \in DOMAIN h[n].told :
                /\ TurnIsTold(h[n].told[k])
                /\ Private(h[n].told[k].nth) /\ PartitionOf(h[n].told[k].nth) = h[n].key

StoreIsPublic(s) ==
    /\ IsSequence(s)
    /\ \A k \in DOMAIN s : TurnIsTold(s[k]) /\ ~Private(s[k].nth)

FamiliarAreMet == \A p \in familiar : \E i \in DOMAIN chats : ~Private(i) /\ chats[i].q.who = p

ChatIsWell(i) ==
    /\ IsChat(chats[i]) /\ chats[i].q \in Questions /\ TextIsGuarded(chats[i])
    /\ SeesItsOwn(i, chats[i].seen)

ChatInv ==
    /\ IsSequence(chats)
    /\ \A i \in DOMAIN chats : ChatIsWell(i)
    /\ HistoriesAreTheirs(privates) /\ StoreIsPublic(stored) /\ FamiliarAreMet

\* Turns go on: who asked what stays, and an answer that was given.
TurnsGoOn ==
    /\ IsSequence(chats') /\ DOMAIN chats \subseteq DOMAIN chats'
    /\ \A j \in DOMAIN chats :
          /\ chats'[j].q = chats[j].q
          /\ chats[j].at \notin Unspoken => chats'[j].at \notin Unspoken /\ chats'[j].answer = chats[j].answer

LEMMA ToldStaysTold ==
    ASSUME TurnsGoOn
    PROVE  /\ \A t : TurnIsTold(t) => t.nth \in DOMAIN chats' /\ chats'[t.nth].at \notin Unspoken
                                        /\ t.text = chats'[t.nth].answer
           /\ \A j \in DOMAIN chats : chats'[j].q.scope = "session_only" <=> Private(j)
           /\ \A j \in DOMAIN chats : <<chats'[j].q.who, chats'[j].q.conv>> = PartitionOf(j)
           /\ \A t : TurnIsTold(t) => t.nth \in DOMAIN chats
  BY DEF TurnsGoOn, TurnIsTold, Private, PartitionOf

LEMMA SeesOn ==
    ASSUME TurnsGoOn, NEW i \in DOMAIN chats, NEW seen, SeesItsOwn(i, seen)
    PROVE  \A k \in DOMAIN seen :
              /\ seen[k].nth \in DOMAIN chats' /\ chats'[seen[k].nth].at \notin Unspoken
              /\ seen[k].text = chats'[seen[k].nth].answer
              /\ chats'[seen[k].nth].q.scope = "session_only" =>
                    /\ chats'[i].q.scope = "session_only"
                    /\ <<chats'[seen[k].nth].q.who, chats'[seen[k].nth].q.conv>> = <<chats'[i].q.who, chats'[i].q.conv>>
  BY ToldStaysTold DEF SeesItsOwn

\* The parts that another part's step keeps.
LEMMA HistoriesStay ==
    ASSUME TurnsGoOn, HistoriesAreTheirs(privates') PROVE HistoriesAreTheirs(privates)'
  BY ToldStaysTold DEF HistoriesAreTheirs, TurnIsTold, Private, PartitionOf, IsSequence

LEMMA StoreStays ==
    ASSUME TurnsGoOn, StoreIsPublic(stored') PROVE StoreIsPublic(stored)'
  BY ToldStaysTold DEF StoreIsPublic, TurnIsTold, Private, IsSequence

LEMMA FamiliarStay ==
    ASSUME TurnsGoOn, FamiliarAreMet,
           familiar' = familiar \/ \E i \in DOMAIN chats : ~Private(i) /\ familiar' = familiar \cup {chats[i].q.who}
    PROVE  FamiliarAreMet'
<1> SUFFICES ASSUME NEW p \in familiar' PROVE \E i \in DOMAIN chats' : ~(Private(i)') /\ chats'[i].q.who = p
  BY DEF FamiliarAreMet
<1>1. PICK i \in DOMAIN chats : ~Private(i) /\ chats[i].q.who = p
  BY DEF FamiliarAreMet
<1>2. i \in DOMAIN chats' /\ chats'[i].q = chats[i].q
  BY DEF TurnsGoOn
<1> QED BY <1>1, <1>2 DEF Private

\* One turn goes on.
LEMMA OneTurnGoesOn ==
    ASSUME ChatInv, NEW i \in DOMAIN chats, NEW c, chats' = [chats EXCEPT ![i] = c],
           IsChat(c), c.q = chats[i].q, TextIsGuarded(c), SeesItsOwn(i, c.seen),
           chats[i].at \notin Unspoken => c.at \notin Unspoken /\ c.answer = chats[i].answer
    PROVE  TurnsGoOn /\ \A j \in DOMAIN chats' : ChatIsWell(j)'
<1>1. /\ IsSequence(chats) /\ DOMAIN chats' = DOMAIN chats /\ chats'[i] = c
      /\ \A j \in DOMAIN chats : j # i => chats'[j] = chats[j]
  BY DEF ChatInv
<1>2. IsSequence(chats')
  <2>1. Len(chats) \in Nat /\ DOMAIN chats = 1..Len(chats) /\ chats = [j \in 1..Len(chats) |-> chats[j]]
    BY <1>1 DEF IsSequence
  <2>2. chats' = [j \in 1..Len(chats) |-> chats'[j]]
    BY <2>1
  <2> QED BY <2>1, <2>2, NumberedIsSequence
<1>3. TurnsGoOn
  BY <1>1, <1>2 DEF TurnsGoOn
<1>4. ASSUME NEW j \in DOMAIN chats PROVE ChatIsWell(j)'
  <2>1. /\ IsChat(chats'[j]) /\ chats'[j].q \in Questions /\ TextIsGuarded(chats'[j])
        /\ SeesItsOwn(j, chats'[j].seen)
    BY <1>1 DEF ChatInv, ChatIsWell
  <2> DEFINE seen == chats'[j].seen
  <2>2. SeesItsOwn(j, seen)
    BY <2>1
  <2> HIDE DEF seen
  <2>3. \A k \in DOMAIN seen :
              /\ seen[k].nth \in DOMAIN chats' /\ chats'[seen[k].nth].at \notin Unspoken
              /\ seen[k].text = chats'[seen[k].nth].answer
              /\ chats'[seen[k].nth].q.scope = "session_only" =>
                    /\ chats'[j].q.scope = "session_only"
                    /\ <<chats'[seen[k].nth].q.who, chats'[seen[k].nth].q.conv>> = <<chats'[j].q.who, chats'[j].q.conv>>
    BY <1>3, <2>2, SeesOn
  <2>4. (SeesItsOwn(j, chats[j].seen))'
    BY <2>3 DEF SeesItsOwn, TurnIsTold, Private, PartitionOf, seen
  <2>5. (IsChat(chats[j]) /\ chats[j].q \in Questions /\ TextIsGuarded(chats[j]))'
    BY <2>1 DEF IsChat, TextIsGuarded
  <2> QED BY <2>4, <2>5 DEF ChatIsWell
<1> QED BY <1>1, <1>3, <1>4

\* A record of a turn with other fields.
LEMMA TurnAt ==
    ASSUME NEW c, IsChat(c), NEW x
    PROVE  [c EXCEPT !.at = x] = [q |-> c.q, at |-> x, seen |-> c.seen, answer |-> c.answer]
  BY DEF IsChat

LEMMA TurnSees ==
    ASSUME NEW c, IsChat(c), NEW x
    PROVE  [c EXCEPT !.at = "generating", !.seen = x] =
              [q |-> c.q, at |-> "generating", seen |-> x, answer |-> c.answer]
<1> DEFINE F == {"q", "at", "seen", "answer"}
           g == [c EXCEPT !.at = "generating", !.seen = x]
<1>1. DOMAIN c = F
  BY DEF IsChat
<1>2. DOMAIN g = F /\ g = [f \in F |-> g[f]]
  BY <1>1
<1>3. g.q = c.q /\ g.at = "generating" /\ g.seen = x /\ g.answer = c.answer
  BY <1>1
<1> HIDE DEF g
<1>4. g = [q |-> c.q, at |-> "generating", seen |-> x, answer |-> c.answer]
  BY <1>2, <1>3
<1> QED BY <1>4 DEF g

LEMMA TurnSays ==
    ASSUME NEW c, IsChat(c), NEW x
    PROVE  [c EXCEPT !.at = "speaking", !.answer = x] =
              [q |-> c.q, at |-> "speaking", seen |-> c.seen, answer |-> x]
<1> DEFINE F == {"q", "at", "seen", "answer"}
           g == [c EXCEPT !.at = "speaking", !.answer = x]
<1>1. DOMAIN c = F
  BY DEF IsChat
<1>2. DOMAIN g = F /\ g = [f \in F |-> g[f]]
  BY <1>1
<1>3. g.q = c.q /\ g.at = "speaking" /\ g.seen = c.seen /\ g.answer = x
  BY <1>1
<1> HIDE DEF g
<1>4. g = [q |-> c.q, at |-> "speaking", seen |-> c.seen, answer |-> x]
  BY <1>2, <1>3
<1> QED BY <1>4 DEF g

\* The turn goes to a place and keeps all else.
LEMMA TurnMoves ==
    ASSUME ChatInv, NEW i \in DOMAIN chats, NEW place, chats' = [chats EXCEPT ![i].at = place],
           chats[i].at \notin Unspoken => place \notin Unspoken
    PROVE  TurnsGoOn /\ \A j \in DOMAIN chats' : ChatIsWell(j)'
<1> DEFINE c == [chats[i] EXCEPT !.at = place]
<1>1. ChatIsWell(i)
  BY DEF ChatInv
<1>2. c = [q |-> chats[i].q, at |-> place, seen |-> chats[i].seen, answer |-> chats[i].answer]
  BY <1>1, TurnAt DEF ChatIsWell
<1>3. chats' = [chats EXCEPT ![i] = c]
  OBVIOUS
<1> HIDE DEF c
<1>4. IsChat(c) /\ c.q = chats[i].q /\ c.at = place /\ c.seen = chats[i].seen /\ c.answer = chats[i].answer
  BY <1>2 DEF IsChat
<1>5. TextIsGuarded(c) /\ SeesItsOwn(i, c.seen)
  BY <1>1, <1>4 DEF ChatIsWell, TextIsGuarded
<1> QED BY <1>3, <1>4, <1>5, OneTurnGoesOn

LEMMA ChatInvInit == ChatInit => ChatInv
<1> SUFFICES ASSUME ChatInit PROVE ChatInv
  OBVIOUS
<1>1. chats = <<>> /\ privates = <<>> /\ stored = <<>> /\ familiar = {}
  BY DEF ChatInit
<1>2. IsSequence(<<>>) /\ DOMAIN <<>> = {}
  BY DEF IsSequence
<1> QED BY <1>1, <1>2 DEF ChatInv, HistoriesAreTheirs, StoreIsPublic, FamiliarAreMet

LEMMA ChatAskedKeeps == ASSUME ChatInv, NEW q \in Questions, ChatAsked(q) PROVE ChatInv'
<1> DEFINE c == [q |-> q, at |-> "queued", seen |-> <<>>, answer |-> None]
           last == Len(chats) + 1
<1>1. /\ chats' = Append(chats, c) /\ privates' = privates /\ stored' = stored /\ familiar' = familiar
  BY DEF ChatAsked
<1>2. IsChat(c) /\ c.q = q /\ c.seen = <<>> /\ c.answer = None /\ c.at = "queued"
  BY DEF IsChat
<1>3. IsSequence(chats)
  BY DEF ChatInv
<1> HIDE DEF c
<1>4. /\ IsSequence(chats') /\ DOMAIN chats = 1..Len(chats) /\ DOMAIN chats' = 1..last /\ Len(chats) \in Nat
      /\ \A j \in DOMAIN chats : chats'[j] = chats[j]
      /\ chats'[last] = c
  BY <1>1, <1>3, AppendedTo
<1>5. TurnsGoOn
  BY <1>4 DEF TurnsGoOn
<1>6. ASSUME NEW j \in DOMAIN chats' PROVE ChatIsWell(j)'
  <2>1. CASE j = last
    <3>1. chats'[j] = c /\ DOMAIN <<>> = {}
      BY <1>4, <2>1
    <3>2. c.answer # "claim" /\ c.answer # "brand"
      BY <1>2, PrivateAssumption
    <3> QED BY <1>2, <3>1, <3>2 DEF ChatIsWell, IsChat, TextIsGuarded, SeesItsOwn
  <2>2. CASE j \in DOMAIN chats
    <3> DEFINE seen == chats[j].seen
    <3>1. ChatIsWell(j) /\ SeesItsOwn(j, seen) /\ chats'[j] = chats[j]
      BY <1>4, <2>2 DEF ChatInv, ChatIsWell
    <3> HIDE DEF seen
    <3>2. \A k \in DOMAIN seen :
              /\ seen[k].nth \in DOMAIN chats' /\ chats'[seen[k].nth].at \notin Unspoken
              /\ seen[k].text = chats'[seen[k].nth].answer
              /\ chats'[seen[k].nth].q.scope = "session_only" =>
                    /\ chats'[j].q.scope = "session_only"
                    /\ <<chats'[seen[k].nth].q.who, chats'[seen[k].nth].q.conv>> = <<chats'[j].q.who, chats'[j].q.conv>>
      BY <1>5, <2>2, <3>1, SeesOn
    <3> QED BY <3>1, <3>2 DEF ChatIsWell, IsChat, TextIsGuarded, SeesItsOwn, TurnIsTold, Private, PartitionOf, seen
  <2> QED BY <1>4, <2>1, <2>2
<1>7. HistoriesAreTheirs(privates') /\ StoreIsPublic(stored')
  BY <1>1 DEF ChatInv
<1>8. HistoriesAreTheirs(privates)' /\ StoreIsPublic(stored)' /\ FamiliarAreMet'
  BY <1>1, <1>5, <1>7, HistoriesStay, StoreStays, FamiliarStay DEF ChatInv
<1>9. IsSequence(chats)'
  BY <1>4 DEF IsSequence
<1> QED BY <1>6, <1>8, <1>9 DEF ChatInv

\* A turn goes on, and what the others keep stays theirs.
LEMMA TurnKeeps ==
    ASSUME ChatInv, TurnsGoOn, \A j \in DOMAIN chats' : ChatIsWell(j)',
           HistoriesAreTheirs(privates'), StoreIsPublic(stored'),
           familiar' = familiar \/ \E i \in DOMAIN chats : ~Private(i) /\ familiar' = familiar \cup {chats[i].q.who}
    PROVE  ChatInv'
<1>1. HistoriesAreTheirs(privates)' /\ StoreIsPublic(stored)' /\ FamiliarAreMet'
  BY HistoriesStay, StoreStays, FamiliarStay DEF ChatInv
<1>2. IsSequence(chats)'
  BY DEF TurnsGoOn, IsSequence
<1> QED BY <1>1, <1>2 DEF ChatInv

LEMMA ChatBeginsKeeps == ASSUME ChatInv, NEW i \in DOMAIN chats, ChatBegins(i) PROVE ChatInv'
<1>1. /\ chats[i].at = "queued" /\ chats' = [chats EXCEPT ![i].at = "thinking"]
      /\ privates' = privates /\ stored' = stored
      /\ familiar' = familiar \/ (~Private(i) /\ familiar' = familiar \cup {chats[i].q.who})
  BY DEF ChatBegins
<1>2. chats[i].at \in Unspoken
  BY <1>1 DEF Unspoken
<1>3. HistoriesAreTheirs(privates') /\ StoreIsPublic(stored')
  BY <1>1 DEF ChatInv
<1> QED BY <1>1, <1>2, <1>3, TurnMoves, TurnKeeps

\* The history of a partition, and what it is when it is the latest used.
LEMMA HistoryIsTheirs ==
    ASSUME HistoriesAreTheirs(privates), NEW key
    PROVE  /\ IsSequence(HistoryOf(key))
           /\ \A k \in DOMAIN HistoryOf(key) :
                 /\ TurnIsTold(HistoryOf(key)[k])
                 /\ Private(HistoryOf(key)[k].nth) /\ PartitionOf(HistoryOf(key)[k].nth) = key
<1>1. CASE key \in PrivateKeys
  <2>1. PlaceOf(key) \in DOMAIN privates /\ privates[PlaceOf(key)].key = key
    BY <1>1 DEF PrivateKeys, PlaceOf
  <2> QED BY <1>1, <2>1 DEF HistoryOf, HistoriesAreTheirs
<1>2. CASE key \notin PrivateKeys
  <2>1. IsSequence(<<>>) /\ DOMAIN <<>> = {}
    BY DEF IsSequence
  <2> QED BY <1>2, <2>1 DEF HistoryOf
<1> QED BY <1>1, <1>2

LEMMA LatestIsTheirs ==
    ASSUME HistoriesAreTheirs(privates), NEW key, NEW told, IsSequence(told),
           \A k \in DOMAIN told : TurnIsTold(told[k]) /\ Private(told[k].nth) /\ PartitionOf(told[k].nth) = key
    PROVE  HistoriesAreTheirs(WithLatest(key, told)) /\ WithLatest(key, told) # <<>>
<1> DEFINE rest == IF key \in PrivateKeys THEN RemoveAt(privates, PlaceOf(key)) ELSE privates
           last == [key |-> key, told |-> told]
<1>1. IsSequence(privates)
  BY DEF HistoriesAreTheirs
<1>2. HistoriesAreTheirs(rest)
  <2>1. CASE key \in PrivateKeys
    <3>1. PlaceOf(key) \in DOMAIN privates
      BY <2>1 DEF PrivateKeys, PlaceOf
    <3> DEFINE r == RemoveAt(privates, PlaceOf(key))
    <3>2. r \in Seq({privates[n] : n \in DOMAIN privates})
      BY <1>1, <3>1, RemovedFrom
    <3> HIDE DEF r
    <3>3. IsSequence(r) /\ \A j \in DOMAIN r : \E n \in DOMAIN privates : r[j] = privates[n]
      BY <3>2, TakenFrom
    <3>4. HistoriesAreTheirs(r)
      BY <3>3 DEF HistoriesAreTheirs
    <3> QED BY <2>1, <3>4 DEF r
  <2>2. CASE key \notin PrivateKeys
    BY <2>2
  <2> QED BY <2>1, <2>2
<1>3. WithLatest(key, told) = Append(rest, last)
  BY DEF WithLatest
<1>4. last.key = key /\ last.told = told
  OBVIOUS
<1> HIDE DEF rest, last
<1>5. IsSequence(rest)
  BY <1>2 DEF HistoriesAreTheirs
<1> DEFINE more == Append(rest, last)
<1>6. /\ IsSequence(more) /\ DOMAIN rest = 1..Len(rest) /\ DOMAIN more = 1..(Len(rest) + 1) /\ Len(rest) \in Nat
      /\ \A n \in DOMAIN rest : more[n] = rest[n]
      /\ more[Len(rest) + 1] = last
  BY <1>5, AppendedTo
<1> HIDE DEF more
<1>7. ASSUME NEW n \in DOMAIN more
      PROVE  /\ IsSequence(more[n].told)
             /\ \A k \in DOMAIN more[n].told :
                   /\ TurnIsTold(more[n].told[k])
                   /\ Private(more[n].told[k].nth) /\ PartitionOf(more[n].told[k].nth) = more[n].key
  <2>1. CASE n \in DOMAIN rest
    BY <1>2, <1>6, <2>1 DEF HistoriesAreTheirs
  <2>2. CASE n = Len(rest) + 1
    BY <1>4, <1>6, <2>2
  <2> QED BY <1>6, <2>1, <2>2
<1>8. more # <<>>
  BY <1>5, AppendIsNotEmpty DEF more
<1> QED BY <1>3, <1>6, <1>7, <1>8 DEF HistoriesAreTheirs, more

\* What the memory recalls is some of what it holds.
LEMMA RecalledWasHeld ==
    ASSUME IsSequence(stored), NEW seen \in Recollections
    PROVE  \A k \in DOMAIN seen : \E n \in DOMAIN stored : seen[k] = stored[n]
<1>1. PICK m \in 0..Len(stored) :
         seen \in {[k \in 1..m |-> stored[places[k]]] :
                     places \in {p \in [1..m -> DOMAIN stored] : \A k \in 2..m : p[k - 1] < p[k]}}
  BY DEF Recollections
<1>2. PICK places \in [1..m -> DOMAIN stored] : seen = [k \in 1..m |-> stored[places[k]]]
  BY <1>1
<1> QED BY <1>2

LEMMA ChatRecollectsKeeps == ASSUME ChatInv, NEW i \in DOMAIN chats, ChatRecollects(i) PROVE ChatInv'
<1>1. chats[i].at = "thinking" /\ stored' = stored /\ familiar' = familiar
  BY DEF ChatRecollects
<1>2. \E seen : /\ chats' = [chats EXCEPT ![i].at = "generating", ![i].seen = seen]
                /\ SeesItsOwn(i, seen) /\ HistoriesAreTheirs(privates')
  <2>1. CASE Private(i)
    <3> DEFINE key == PartitionOf(i)
               told == HistoryOf(key)
    <3>1. /\ chats' = [chats EXCEPT ![i].at = "generating", ![i].seen = told]
          /\ privates' = WithLatest(key, told) \/ privates' = privates
      BY <2>1 DEF ChatRecollects
    <3> HIDE DEF key
    <3>2. /\ IsSequence(told)
          /\ \A k \in DOMAIN told : TurnIsTold(told[k]) /\ Private(told[k].nth) /\ PartitionOf(told[k].nth) = key
      BY HistoryIsTheirs DEF ChatInv
    <3> HIDE DEF told
    <3>3. SeesItsOwn(i, told)
      BY <2>1, <3>2 DEF SeesItsOwn, key
    <3>4. HistoriesAreTheirs(WithLatest(key, told)) /\ HistoriesAreTheirs(privates)
      BY <3>2, LatestIsTheirs DEF ChatInv
    <3>5. HistoriesAreTheirs(privates')
      BY <3>1, <3>4
    <3> QED BY <3>1, <3>3, <3>5
  <2>2. CASE ~Private(i)
    <3>1. PICK seen \in Recollections : chats' = [chats EXCEPT ![i].at = "generating", ![i].seen = seen]
      BY <2>2 DEF ChatRecollects
    <3>2. StoreIsPublic(stored) /\ IsSequence(stored) /\ privates' = privates /\ HistoriesAreTheirs(privates)
      BY <2>2 DEF ChatInv, StoreIsPublic, ChatRecollects
    <3>3. \A k \in DOMAIN seen : \E n \in DOMAIN stored : seen[k] = stored[n]
      BY <3>2, RecalledWasHeld
    <3>4. SeesItsOwn(i, seen)
      BY <3>2, <3>3 DEF SeesItsOwn, StoreIsPublic
    <3> QED BY <3>1, <3>2, <3>4
  <2> QED BY <2>1, <2>2
<1>3. PICK seen : /\ chats' = [chats EXCEPT ![i].at = "generating", ![i].seen = seen]
                  /\ SeesItsOwn(i, seen) /\ HistoriesAreTheirs(privates')
  BY <1>2
<1> DEFINE c == [chats[i] EXCEPT !.at = "generating", !.seen = seen]
<1>4. ChatIsWell(i)
  BY DEF ChatInv
<1>5. c = [q |-> chats[i].q, at |-> "generating", seen |-> seen, answer |-> chats[i].answer]
  BY <1>4, TurnSees DEF ChatIsWell
<1>6. chats' = [chats EXCEPT ![i] = c]
  BY <1>3
<1> HIDE DEF c
<1>7. IsChat(c) /\ c.q = chats[i].q /\ c.at = "generating" /\ c.seen = seen /\ c.answer = chats[i].answer
  BY <1>5 DEF IsChat
<1>8. TextIsGuarded(c) /\ chats[i].at \in Unspoken
  BY <1>1, <1>4, <1>7 DEF ChatIsWell, TextIsGuarded, Unspoken
<1>9. TurnsGoOn /\ \A j \in DOMAIN chats' : ChatIsWell(j)'
  BY <1>3, <1>6, <1>7, <1>8, OneTurnGoesOn
<1>10. StoreIsPublic(stored')
  BY <1>1 DEF ChatInv
<1> QED BY <1>1, <1>3, <1>9, <1>10, TurnKeeps

\* The guard: no claim passes, and a name of a model only in talk.
LEMMA GuardHolds ==
    ASSUME NEW ask \in {"model", "maker", "name", "nature", "talk"}, NEW raw
    PROVE  Displayed(ask, raw) # "claim" /\ (Displayed(ask, raw) = "brand" => ask = "talk")
  BY DEF Displayed

LEMMA ChatGeneratedKeeps == ASSUME ChatInv, NEW i \in DOMAIN chats, NEW raw, ChatGenerated(i, raw) PROVE ChatInv'
<1> DEFINE answer == Displayed(chats[i].q.ask, raw)
           note == [nth |-> i, text |-> answer]
           c == [chats[i] EXCEPT !.at = "speaking", !.answer = answer]
<1>1. /\ chats[i].at = "generating" /\ chats' = [chats EXCEPT ![i] = c]
      /\ stored' = stored \/ (~Private(i) /\ stored' = Append(stored, note))
      /\ privates' = privates /\ familiar' = familiar
  BY DEF ChatGenerated
<1>2. ChatIsWell(i) /\ chats[i].q.ask \in {"model", "maker", "name", "nature", "talk"}
  BY PrivateAssumption DEF ChatInv, ChatIsWell
<1>3. answer # "claim" /\ (answer = "brand" => chats[i].q.ask = "talk")
  BY <1>2, GuardHolds
<1> HIDE DEF answer
<1>4. c = [q |-> chats[i].q, at |-> "speaking", seen |-> chats[i].seen, answer |-> answer]
  BY <1>2, TurnSays DEF ChatIsWell
<1>5. note.nth = i /\ note.text = answer
  OBVIOUS
<1> HIDE DEF c, note
<1>6. IsChat(c) /\ c.q = chats[i].q /\ c.at = "speaking" /\ c.seen = chats[i].seen /\ c.answer = answer
  BY <1>4 DEF IsChat
<1>7. TextIsGuarded(c) /\ SeesItsOwn(i, c.seen) /\ chats[i].at \in Unspoken
  BY <1>1, <1>2, <1>3, <1>6 DEF ChatIsWell, TextIsGuarded, Unspoken
<1>8. TurnsGoOn /\ \A j \in DOMAIN chats' : ChatIsWell(j)'
  BY <1>1, <1>6, <1>7, OneTurnGoesOn
<1>9. IsSequence(stored) /\ StoreIsPublic(stored)
  BY DEF ChatInv, StoreIsPublic
\* What is stored now is of this turn, whose answer is given by this step.
<1>10. StoreIsPublic(stored)'
  <2>1. \A k \in DOMAIN stored : /\ stored[k].nth \in DOMAIN chats' /\ chats'[stored[k].nth].at \notin Unspoken
                                 /\ stored[k].text = chats'[stored[k].nth].answer
                                 /\ chats'[stored[k].nth].q.scope # "session_only"
    BY <1>8, <1>9, ToldStaysTold DEF StoreIsPublic
  <2>2. i \in DOMAIN chats' /\ chats'[i].at \notin Unspoken /\ chats'[i].answer = answer /\ chats'[i].q = chats[i].q
    BY <1>1, <1>6 DEF Unspoken
  <2>3. CASE stored' = stored
    BY <1>9, <2>1, <2>3 DEF StoreIsPublic, TurnIsTold, Private, IsSequence
  <2>4. CASE ~Private(i) /\ stored' = Append(stored, note)
    <3>1. /\ IsSequence(stored') /\ DOMAIN stored = 1..Len(stored) /\ DOMAIN stored' = 1..(Len(stored) + 1)
          /\ Len(stored) \in Nat /\ \A k \in DOMAIN stored : stored'[k] = stored[k]
          /\ stored'[Len(stored) + 1] = note
      BY <1>9, <2>4, AppendedTo
    <3>2. ASSUME NEW k \in DOMAIN stored'
          PROVE  /\ stored'[k].nth \in DOMAIN chats' /\ chats'[stored'[k].nth].at \notin Unspoken
                 /\ stored'[k].text = chats'[stored'[k].nth].answer
                 /\ chats'[stored'[k].nth].q.scope # "session_only"
      <4>1. CASE k \in DOMAIN stored
        BY <2>1, <3>1, <4>1
      <4>2. CASE k = Len(stored) + 1
        BY <1>5, <2>2, <2>4, <3>1, <4>2 DEF Private
      <4> QED BY <3>1, <4>1, <4>2
    <3> QED BY <3>1, <3>2 DEF StoreIsPublic, TurnIsTold, Private, IsSequence
  <2> QED BY <1>1, <2>3, <2>4
<1>11. HistoriesAreTheirs(privates') /\ FamiliarAreMet
  BY <1>1 DEF ChatInv
<1>12. HistoriesAreTheirs(privates)' /\ FamiliarAreMet'
  BY <1>1, <1>8, <1>11, HistoriesStay, FamiliarStay
<1>13. IsSequence(chats)'
  BY <1>8 DEF TurnsGoOn, IsSequence
<1> QED BY <1>8, <1>10, <1>12, <1>13 DEF ChatInv

LEMMA ChatAnsweredKeeps == ASSUME ChatInv, NEW i \in DOMAIN chats, ChatAnswered(i) PROVE ChatInv'
<1>1. /\ chats[i].at = "speaking" /\ chats' = [chats EXCEPT ![i].at = "answered"]
      /\ stored' = stored /\ familiar' = familiar
      /\ (Private(i) /\ CommitPrivate(i)) \/ privates' = privates
  BY DEF ChatAnswered
<1>2. chats[i].at \notin Unspoken /\ "answered" \notin Unspoken
  BY <1>1 DEF Unspoken
<1>3. TurnsGoOn /\ \A j \in DOMAIN chats' : ChatIsWell(j)'
  BY <1>1, <1>2, TurnMoves
<1>4. HistoriesAreTheirs(privates) /\ StoreIsPublic(stored')
  BY <1>1 DEF ChatInv
<1>5. CASE Private(i) /\ CommitPrivate(i)
  <2> DEFINE key  == PartitionOf(i)
             old  == HistoryOf(key)
             new  == [nth |-> i, text |-> chats[i].answer,
                      size |-> CutToHalf(chats[i].q.size) + CutToHalf(AnswerSize)]
             more == Append(old, new)
             told == KeptPrivate(more)
             all  == WithLatest(key, told)
  <2>1. privates' = IF Len(all) > MaxPrivateSessions THEN Tail(all) ELSE all
    BY <1>5 DEF CommitPrivate
  <2>2. new.nth = i /\ new.text = chats[i].answer
    OBVIOUS
  <2> HIDE DEF new, key
  <2>3. /\ IsSequence(old)
        /\ \A k \in DOMAIN old : TurnIsTold(old[k]) /\ Private(old[k].nth) /\ PartitionOf(old[k].nth) = key
    BY <1>4, HistoryIsTheirs
  <2>4. TurnIsTold(new) /\ Private(new.nth) /\ PartitionOf(new.nth) = key
    BY <1>2, <1>5, <2>2 DEF TurnIsTold, key
  <2> HIDE DEF old
  <2>5. /\ IsSequence(more)
        /\ \A k \in DOMAIN more : TurnIsTold(more[k]) /\ Private(more[k].nth) /\ PartitionOf(more[k].nth) = key
    <3>1. /\ IsSequence(more) /\ DOMAIN old = 1..Len(old) /\ DOMAIN more = 1..(Len(old) + 1) /\ Len(old) \in Nat
          /\ \A n \in DOMAIN old : more[n] = old[n]
          /\ more[Len(old) + 1] = new
      BY <2>3, AppendedTo
    <3> HIDE DEF more
    <3>2. \A k \in DOMAIN more : k \in DOMAIN old \/ k = Len(old) + 1
      BY <3>1
    <3> QED BY <2>3, <2>4, <3>1, <3>2
  <2> HIDE DEF more
  <2>6. /\ IsSequence(told)
        /\ \A k \in DOMAIN told : TurnIsTold(told[k]) /\ Private(told[k].nth) /\ PartitionOf(told[k].nth) = key
    <3>1. told \in Seq({more[k] : k \in DOMAIN more})
      BY <2>5, KeptWasThere
    <3> HIDE DEF told
    <3>2. IsSequence(told) /\ \A j \in DOMAIN told : \E k \in DOMAIN more : told[j] = more[k]
      BY <3>1, TakenFrom
    <3> QED BY <2>5, <3>2
  <2> HIDE DEF told
  <2>7. HistoriesAreTheirs(all) /\ all # <<>>
    BY <1>4, <2>6, LatestIsTheirs
  <2> HIDE DEF all
  <2>8. HistoriesAreTheirs(Tail(all))
    <3> DEFINE r == Tail(all)
    <3>1. r \in Seq({all[n] : n \in DOMAIN all})
      BY <2>7, TailOf DEF HistoriesAreTheirs
    <3> HIDE DEF r
    <3>2. IsSequence(r) /\ \A j \in DOMAIN r : \E n \in DOMAIN all : r[j] = all[n]
      BY <3>1, TakenFrom
    <3>3. HistoriesAreTheirs(r)
      BY <2>7, <3>2 DEF HistoriesAreTheirs
    <3> QED BY <3>3 DEF r
  <2>9. HistoriesAreTheirs(privates')
    BY <2>1, <2>7, <2>8
  <2> QED BY <1>1, <1>3, <1>4, <2>9, TurnKeeps
<1>6. CASE privates' = privates
  <2>1. HistoriesAreTheirs(privates')
    BY <1>4, <1>6
  <2> QED BY <1>1, <1>3, <1>4, <2>1, TurnKeeps
<1> QED BY <1>1, <1>5, <1>6

LEMMA ChatFailsKeeps == ASSUME ChatInv, NEW i \in DOMAIN chats, ChatFails(i) PROVE ChatInv'
<1>1. /\ chats' = [chats EXCEPT ![i].at = "failed"]
      /\ privates' = privates /\ stored' = stored /\ familiar' = familiar
  BY DEF ChatFails
<1>2. "failed" \notin Unspoken
  BY DEF Unspoken
<1>3. HistoriesAreTheirs(privates') /\ StoreIsPublic(stored')
  BY <1>1 DEF ChatInv
<1> QED BY <1>1, <1>2, <1>3, TurnMoves, TurnKeeps

LEMMA ChatsStay ==
    ASSUME ChatInv, chats' = chats, privates' = privates, stored' = stored, familiar' = familiar
    PROVE  ChatInv'
<1>1. TurnsGoOn
  BY DEF ChatInv, TurnsGoOn
<1>2. ASSUME NEW i \in DOMAIN chats PROVE ChatIsWell(i)'
  BY DEF ChatInv, ChatIsWell, IsChat, TextIsGuarded, SeesItsOwn, TurnIsTold, Private, PartitionOf
<1>3. HistoriesAreTheirs(privates') /\ StoreIsPublic(stored')
  BY DEF ChatInv
<1> QED BY <1>1, <1>2, <1>3, TurnKeeps

LEMMA ChatStep == ChatInv /\ [ChatNext]_chatVars => ChatInv'
<1> SUFFICES ASSUME ChatInv, [ChatNext]_chatVars PROVE ChatInv'
  OBVIOUS
<1>1. CASE UNCHANGED chatVars
  BY <1>1, ChatsStay DEF chatVars
<1>2. ASSUME NEW p, NEW layer, NEW given, ConsentSet(p, layer, given) PROVE ChatInv'
  BY <1>2, ChatsStay DEF ConsentSet
<1> QED BY <1>1, <1>2, ChatAskedKeeps, ChatBeginsKeeps, ChatRecollectsKeeps, ChatAnsweredKeeps, ChatFailsKeeps,
           ChatGeneratedKeeps DEF ChatNext

\* For any people, questions, answers of the model and limits: what was said in private is told to the
\* same person in the same conversation in private and to nobody else, and no text of hers that is
\* displayed, kept or told again says that she is a model.
THEOREM PrivateTurnsStayPrivate == ChatSpec => [](PrivateStaysPrivate /\ SheIsNoModel)
<1>1. ChatInv => PrivateStaysPrivate /\ SheIsNoModel
  <2> SUFFICES ASSUME ChatInv PROVE PrivateStaysPrivate /\ SheIsNoModel
    OBVIOUS
  <2>1. \A i \in DOMAIN chats : TextIsGuarded(chats[i]) /\ SeesItsOwn(i, chats[i].seen)
    BY DEF ChatInv, ChatIsWell
  <2>2. \A i \in DOMAIN chats : \A t \in ToSet(chats[i].seen) :
           /\ TurnIsTold(t)
           /\ Private(t.nth) => Private(i) /\ PartitionOf(t.nth) = PartitionOf(i)
    BY <2>1 DEF SeesItsOwn, ToSet
  <2>3. \A t \in ToSet(stored) : ~Private(t.nth)
    BY DEF ChatInv, StoreIsPublic, ToSet
  <2>4. PrivateStaysPrivate
    BY <2>2, <2>3 DEF PrivateStaysPrivate, SameTalk, PartitionOf, ChatInv, FamiliarAreMet
  <2>5. SheIsNoModel
    BY <2>1, <2>2 DEF SheIsNoModel, TextIsGuarded, TurnIsTold
  <2> QED BY <2>4, <2>5
<1> QED BY <1>1, ChatInvInit, ChatStep, PTL DEF ChatSpec

-----------------------------------------------------------------------------
(* All of it                                                               *)

\* One user of one model that is loaded, whatever is abandoned; a conversation is answered from the
\* history that is displayed; private turns stay private and she is no model; what is said to her is
\* heard in its language, and what she says is the text, whole.
TurnsStayGrounded ==
    /\ BrokerTypeOK /\ UseIsExclusive /\ InFlightAccounted /\ ReadyIsLoaded /\ ServersAreKnown
    /\ SessionTypeOK /\ AnswersFromDisplayed /\ NoTurnDrifts /\ OnlyNamedTurnsAreCancelled
    /\ PrivateStaysPrivate /\ SheIsNoModel
    /\ TranscriptionTypeOK /\ HealthyMeansLoaded /\ ToldAsAsked
    /\ SynthesisTypeOK /\ OneVoiceIsMade /\ SpokenWhole

\* chat, transcribe, synthesize and use_model, beside one another.
THEOREM TurnsAlwaysGrounded ==
    BrokerSpec /\ SessionSpec /\ ChatSpec /\ TranscriptionSpec /\ SynthesisSpec => []TurnsStayGrounded
<1> DEFINE Broker == /\ BrokerTypeOK /\ UseIsExclusive /\ InFlightAccounted
                     /\ ReadyIsLoaded /\ ServersAreKnown
           Session == SessionTypeOK /\ AnswersFromDisplayed /\ NoTurnDrifts /\ OnlyNamedTurnsAreCancelled
           Privacy == PrivateStaysPrivate /\ SheIsNoModel
           Heard == TranscriptionTypeOK /\ HealthyMeansLoaded /\ ToldAsAsked
           Spoken == SynthesisTypeOK /\ OneVoiceIsMade /\ SpokenWhole
<1>1. Broker /\ Session /\ Privacy /\ Heard /\ Spoken => TurnsStayGrounded
  BY DEF TurnsStayGrounded
<1> QED BY <1>1, ModelsStayExclusive, TurnsAnswerFromDisplayed, PrivateTurnsStayPrivate, WordsAreToldAsAsked,
           AnswersAreSpokenWhole, PTL
=============================================================================
