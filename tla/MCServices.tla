----------------------------- MODULE MCServices -----------------------------
(***************************************************************************)
(* The services that must come to an end of what they began, one at a      *)
(* time: a behaviour is of one of them, and the others stay as they        *)
(* started.  The instances are as small as the waits they are about:       *)
(*   worker    two processes that start and stop their supervisors;        *)
(*   broker    a chat, a scene request and close() on one broker;          *)
(*   phase     two turns and a visual phase before the speech engine;      *)
(*   turns     one turn of each of two sessions;                           *)
(*   sleep     days of three hours, a window of one, one restart;          *)
(*   notice    one notification by webhook and by its channel, one crash;  *)
(*   session   two deliveries of one message, and another's.               *)
(* Of the first and the third the safety is checked here as well:          *)
(* LoopsAreOwned and HeavyWorkIsExclusive, of their modules.               *)
(***************************************************************************)
EXTENDS SupervisorWorker, ModelBroker, HeavyPhase, LiteRTSession, SleepCycle,
        KarakuriNotices, TLC

CONSTANTS p1, p2, c1, v1, t1, t2, h1, r1, r2, s1, s2, n1, d1, d2, d3, m1, m2

MCProcesses  == {p1, p2}
MCChats      == {c1}
MCScenes     == {v1}
MCTurns      == {t1, t2}
MCPhases     == {h1}
MCTurnIds    == {r1, r2}
MCSessions   == {s1, s2}
MCSessionOf  == r1 :> s1 @@ r2 :> s2
MCPasses     == {[mode |-> "deep", remain |-> FALSE]}
MCWindow     == {0}
MCNotices    == {n1}
MCDeliveries == {d1, d2, d3}
MCMessages   == {m1, m2}

VARIABLE service

Services == {"worker", "broker", "phase", "turns", "sleep", "notice", "session"}

servicesVars == <<service, workerVars, brokerVars, phaseVars, turnVars, sleepVars,
                  deliveryVars, karakuriVars>>

ServicesInit ==
    /\ service \in Services
    /\ IF service = "notice" THEN TRUE ELSE byWebhook = FALSE
    /\ WorkerInit /\ BrokerInit /\ PhaseInit /\ SessionInit /\ SleepInit
    /\ DeliveryInit /\ KarakuriInit

OthersRest ==
    /\ UNCHANGED service
    /\ IF service = "worker" THEN TRUE ELSE UNCHANGED workerVars
    /\ IF service = "broker" THEN TRUE ELSE UNCHANGED brokerVars
    /\ IF service = "phase" THEN TRUE ELSE UNCHANGED phaseVars
    /\ IF service = "turns" THEN TRUE ELSE UNCHANGED turnVars
    /\ IF service = "sleep" THEN TRUE ELSE UNCHANGED sleepVars
    /\ IF service = "notice" THEN TRUE ELSE UNCHANGED deliveryVars
    /\ IF service = "session" THEN TRUE ELSE UNCHANGED karakuriVars

ServicesNext ==
    \/ service = "worker" /\ WorkerNext /\ OthersRest
    \/ service = "broker" /\ BrokerNext /\ OthersRest
    \/ service = "phase" /\ PhaseNext /\ OthersRest
    \/ service = "turns" /\ SessionNext /\ OthersRest
    \/ service = "sleep" /\ SleepNext /\ OthersRest
    \/ service = "notice" /\ DeliveryNext /\ OthersRest
    \/ service = "session" /\ KarakuriNext /\ OthersRest

\* The fairness of each module.  A behaviour is of one service: where a disjunction takes
\* one step of each, to be fair to it is to be fair to the step of that service.
Weakly1 == CASE service = "worker" -> RunLoop(p1)
               [] service = "broker" -> BrokerSteps(Worker)
               [] service = "phase" -> LeaseSteps(t1)
               [] service = "turns" -> TurnProceeds(r1)
               [] service = "sleep" -> RunSteps("scheduler")
               [] service = "notice" -> TurnSteps
               [] service = "session" -> KarakuriSteps(d1)
               [] OTHER -> FALSE
Weakly2 == CASE service = "worker" -> RunLoop(p2)
               [] service = "broker" -> BrokerSteps(v1)
               [] service = "phase" -> LeaseSteps(t2)
               [] service = "turns" -> TurnProceeds(r2)
               [] service = "sleep" -> RunSteps("operator")
               [] service = "notice" -> NoticeTaken
               [] service = "session" -> KarakuriSteps(d2)
               [] OTHER -> FALSE
Weakly3 == CASE service = "broker" -> BrokerSteps(Closer)
               [] service = "phase" -> LeaseSteps(h1)
               [] service = "sleep" -> RunSteps("supervisor")
               [] service = "notice" -> Later(n1)
               [] service = "session" -> KarakuriSteps(d3)
               [] OTHER -> FALSE
Weakly4 == CASE service = "phase" -> phaseLock = "probe" /\ Probes
               [] service = "turns" -> TurnLocks(r1)
               [] service = "sleep" -> ThreadEnds
               [] OTHER -> FALSE
Weakly5 == CASE service = "phase" -> VoiceEnds
               [] service = "turns" -> TurnLocks(r2)
               [] OTHER -> FALSE
Strongly1 == CASE service = "broker" -> ActivationTimesOut(Worker)
                 [] service = "phase" -> VoiceStarts
                 [] service = "sleep" -> Begins("scheduler")
                 [] service = "notice" -> TurnBegins(n1)
                 [] OTHER -> FALSE
Strongly2 == CASE service = "broker" -> ActivationTimesOut(v1)
                 [] service = "sleep" -> Begins("operator")
                 [] service = "notice" -> RetryFires(n1)
                 [] OTHER -> FALSE
Strongly3 == CASE service = "sleep" -> Begins("supervisor")
                 [] OTHER -> FALSE
Strongly4 == CASE service = "sleep" -> CircadianWake
                 [] OTHER -> FALSE
Strongly5 == CASE service = "sleep" -> HourPasses
                 [] OTHER -> FALSE

ActiveVars ==
    CASE service = "worker"  -> workerVars
      [] service = "broker"  -> brokerVars
      [] service = "phase"   -> phaseVars
      [] service = "turns"   -> turnVars
      [] service = "sleep"   -> sleepVars
      [] service = "notice"  -> deliveryVars
      [] service = "session" -> karakuriVars

ServicesSpec ==
    /\ ServicesInit /\ [][ServicesNext]_servicesVars
    /\ WF_ActiveVars(UNCHANGED service /\ Weakly1)
    /\ WF_ActiveVars(UNCHANGED service /\ Weakly2)
    /\ WF_ActiveVars(UNCHANGED service /\ Weakly3)
    /\ WF_ActiveVars(UNCHANGED service /\ Weakly4)
    /\ WF_ActiveVars(UNCHANGED service /\ Weakly5)
    /\ SF_ActiveVars(UNCHANGED service /\ Strongly1)
    /\ SF_ActiveVars(UNCHANGED service /\ Strongly2)
    /\ SF_ActiveVars(UNCHANGED service /\ Strongly3)
    /\ SF_ActiveVars(UNCHANGED service /\ Strongly4)
    /\ SF_ActiveVars(UNCHANGED service /\ Strongly5)

\* The waits of a service: one, or one of each worker or turn.
Owed(k) ==
    CASE service = "worker"  -> awaiting[p1][k] > 0
      [] service = "broker"  -> k = 1
      [] service = "phase"   -> k = 1 /\ voiceEngine = "queued"
      [] service = "turns"   -> turn[<<r1, r2>>[k]] = "queued"
      [] service = "sleep"   -> k = 1 /\ mind # "AWAKE" /\ asleep # None
      [] service = "notice"  -> k = 1 /\ \E n \in Notices : BeingSettled(n)
      [] service = "session" -> k = 1 /\ \E d \in Deliveries : call[d].at = "waiting"

Paid(k) ==
    CASE service = "worker"  -> awaiting[p1][k] = 0
      [] service = "broker"  -> BrokerRests
      [] service = "phase"   -> voiceEngine = "active"
      [] service = "turns"   -> turn[<<r1, r2>>[k]] \in Endings
      [] service = "sleep"   -> mind = "AWAKE"
      [] service = "notice"  -> \A n \in Notices : Settled(row[n])
      [] service = "session" -> \A d \in Deliveries : call[d].at # "waiting"

\* Whoever waits for a service is answered, under the fairness of its module: a stop, a
\* request to the broker, a reply for the speech engine, a queued turn, a sleeper, a
\* notification, a second delivery of a message.
EveryWaitEnds == \A k \in 1..2 : Owed(k) ~> Paid(k)
=============================================================================
