----------------------------- MODULE HeavyPhase -----------------------------
(***************************************************************************)
(* lumina_next/visual_phase.py: one advisory file lock keeps the language  *)
(* and vision models of this process and the voice model of the speech     *)
(* engine from working at the same time.  The chat provider takes its own  *)
(* asyncio lock around the lease.                                          *)
(*                                                                         *)
(* The engine is another program: its worker waits for the same lock,      *)
(* loads the voice, and should unload it before it gives the lock back.    *)
(* Its health answer is external, and so is what it does with the lock.    *)
(***************************************************************************)
EXTENDS Naturals, FiniteSets, Absent, TLAPS

CONSTANTS
    Turns,     \* chat turns: inference under the provider's lock
    Phases,    \* phases of a visual job: inference outside it
    MaxVoices  \* how often the engine synthesises (bound)

ASSUME HeavyPhaseAssumption ==
    /\ Turns \cap Phases = {} /\ MaxVoices \in Nat
    /\ {None, "engine", "probe"} \cap (Turns \cup Phases) = {}
    /\ None \notin {"engine", "probe"}

VARIABLES
    where,     \* the await of each user of the lease
    providerLock,  \* holder of the provider's lock
    phaseLock,     \* holder of the file lock
    cancelled, \* users whose task was cancelled while their record was written
    voiceEngine,    \* the engine's worker: "idle", "queued" or "active"
    resident,  \* the voice model is loaded
    voices,    \* how often the engine's worker was queued
    tripped,   \* the shared epoch is latched
    answered   \* users whose inference result was delivered

phaseVars == <<where, providerLock, phaseLock, cancelled, voiceEngine, resident, voices, tripped, answered>>

Users == Turns \cup Phases
Leased == {"health", "opening", "inference", "closing"}

PhaseInit ==
    /\ where = [u \in Users |-> "idle"] /\ providerLock = None /\ phaseLock = None
    /\ cancelled = {} /\ answered = {}
    /\ voiceEngine = "idle" /\ resident = FALSE /\ voices = 0 /\ tripped = FALSE

Moves(u, location) == where' = [where EXCEPT ![u] = location]
EngineUnchanged == UNCHANGED <<voiceEngine, resident, voices>>

\* Every exit of the lease closes its descriptor, and the provider's lock is around it.
Leave(u) ==
    /\ Moves(u, "done")
    /\ phaseLock' = IF phaseLock = u THEN None ELSE phaseLock
    /\ providerLock' = IF providerLock = u THEN None ELSE providerLock
    /\ cancelled' = cancelled \ {u}

-----------------------------------------------------------------------------

\* A chat turn asks for the provider's lock, a visual phase for the lease itself.
PhaseAsked(u) ==
    /\ where[u] = "idle"
    /\ \/ u \in Phases /\ UNCHANGED providerLock
       \/ u \in Turns /\ providerLock = None /\ providerLock' = u
    /\ Moves(u, "polling")
    /\ UNCHANGED <<phaseLock, cancelled, tripped, answered>> /\ EngineUnchanged

\* The lock is polled until the deadline, which raises visual_heavy_phase_busy.
Polls(u) ==
    /\ where[u] = "polling"
    /\ \/ phaseLock = None /\ phaseLock' = u /\ Moves(u, "health") /\ UNCHANGED <<providerLock, cancelled>>
       \/ phaseLock # None /\ Leave(u)
    /\ UNCHANGED <<tripped, answered>> /\ EngineUnchanged

\* Mutant of HealthRead: only the engine's active worker counts, not what it left loaded.
HealthOfWorkers(u) ==
    /\ where[u] = "health"
    /\ \/ voiceEngine # "active" /\ Moves(u, "opening") /\ UNCHANGED <<phaseLock, providerLock, cancelled>>
       \/ Leave(u)
    /\ UNCHANGED <<tripped, answered>> /\ EngineUnchanged

\* _check_tts_health under the lease: no worker is active and nothing is loaded, or the
\* lease is refused, as it is when the answer is missing or does not match its contract.
HealthRead(u) ==
    /\ where[u] = "health"
    /\ \/ ~resident /\ voiceEngine # "active" /\ Moves(u, "opening")
          /\ UNCHANGED <<phaseLock, providerLock, cancelled>>
       \/ Leave(u)
    /\ UNCHANGED <<tripped, answered>> /\ EngineUnchanged

\* A record is written by a thread and awaited to its end, whoever is cancelled meanwhile:
\* it may trip the epoch, and a tripped epoch raises, as does one that is not the engine's.
EpochRecorded(u) ==
    /\ where[u] = "opening"
    /\ tripped' \in {tripped, TRUE}
    /\ \/ Leave(u)
       \/ /\ ~tripped' /\ u \notin cancelled /\ Moves(u, "inference")
          /\ UNCHANGED <<phaseLock, providerLock, cancelled>>
    /\ UNCHANGED answered /\ EngineUnchanged

\* The body ends, well or not, or is cancelled; the finally clause records once more.
InferenceEnds(u) ==
    /\ where[u] = "inference"
    /\ Moves(u, "closing")
    /\ cancelled' \in {cancelled, cancelled \cup {u}}
    /\ UNCHANGED <<phaseLock, providerLock, tripped, answered>> /\ EngineUnchanged

\* A trip of the last record suppresses the result; the body may have failed as well.
LeaseEnds(u) ==
    /\ where[u] = "closing"
    /\ tripped' \in {tripped, TRUE}
    /\ answered' \in IF tripped' \/ u \in cancelled THEN {answered} ELSE {answered, answered \cup {u}}
    /\ Leave(u)
    /\ EngineUnchanged

\* Cancellation at once while it polls or asks the engine, after the record while it writes.
Cancelled(u) ==
    /\ \/ where[u] \in {"polling", "health"} /\ Leave(u)
       \/ /\ where[u] \in {"opening", "closing"} /\ u \notin cancelled
          /\ cancelled' = cancelled \cup {u}
          /\ UNCHANGED <<where, phaseLock, providerLock>>
    /\ UNCHANGED <<tripped, answered>> /\ EngineUnchanged

\* _lock_status of the status probe holds a shared lock for a moment: a poll then fails.
Probes ==
    /\ \/ phaseLock = None /\ phaseLock' = "probe"
       \/ phaseLock = "probe" /\ phaseLock' = None
    /\ UNCHANGED <<where, providerLock, cancelled, tripped, answered>> /\ EngineUnchanged

-----------------------------------------------------------------------------
(* The speech engine                                                       *)

VoiceQueued ==
    /\ voiceEngine = "idle" /\ voices < MaxVoices
    /\ voiceEngine' = "queued" /\ voices' = voices + 1
    /\ UNCHANGED <<where, providerLock, phaseLock, cancelled, resident, tripped, answered>>

VoiceStarts ==
    /\ voiceEngine = "queued" /\ phaseLock = None
    /\ phaseLock' = "engine" /\ voiceEngine' = "active" /\ resident' = TRUE
    /\ UNCHANGED <<where, providerLock, cancelled, voices, tripped, answered>>

\* The worker unloads the voice, or fails to, and gives the lock back either way; the epoch
\* is shared with it.
VoiceEnds ==
    /\ voiceEngine = "active"
    /\ voiceEngine' = "idle" /\ resident' \in BOOLEAN /\ phaseLock' = None
    /\ tripped' \in {tripped, TRUE}
    /\ UNCHANGED <<where, providerLock, cancelled, voices, answered>>

-----------------------------------------------------------------------------

LeaseSteps(u) ==
    \/ Polls(u)
    \/ HealthRead(u)
    \/ EpochRecorded(u)
    \/ InferenceEnds(u)
    \/ LeaseEnds(u)

PhaseNext ==
    \/ \E u \in Users : PhaseAsked(u) \/ LeaseSteps(u) \/ Cancelled(u)
    \/ Probes
    \/ VoiceQueued \/ VoiceStarts \/ VoiceEnds

PhaseSpec == PhaseInit /\ [][PhaseNext]_phaseVars

\* Each await of a lease ends: the poll at its deadline, the request by its timeout, the
\* record when its thread has written, inference by the limits of its client.  The engine's
\* wait for the lock blocks, so the kernel wakes it in its turn whenever the lock is free
\* again and again (strong fairness).
PhaseFairness ==
    /\ \A u \in Users : WF_phaseVars(LeaseSteps(u))
    /\ WF_phaseVars(phaseLock = "probe" /\ Probes)
    /\ WF_phaseVars(VoiceEnds) /\ SF_phaseVars(VoiceStarts)

PhaseTypeOK ==
    /\ where \in [Users -> {"idle", "polling", "done"} \cup Leased]
    /\ providerLock \in Turns \cup {None}
    /\ phaseLock \in Users \cup {None, "engine", "probe"}
    /\ cancelled \subseteq {u \in Users : where[u] \in {"opening", "closing"}}
    /\ voiceEngine \in {"idle", "queued", "active"}
    /\ resident \in BOOLEAN /\ voices \in 0..MaxVoices
    /\ tripped \in BOOLEAN /\ answered \subseteq Users

\* "The previous native worker must have actually dropped its model residency before this
\* process wakes Qwen" (visual_phase.py:117-118): one inference at a time, never beside a
\* loaded voice, also when the engine failed to unload it.
OneHeavyModel ==
    \A u \in Users : where[u] \in {"opening", "inference", "closing"} =>
       ~resident /\ \A v \in Users \ {u} : where[v] \notin {"opening", "inference", "closing"}

\* The file lock is held exactly by the user between its acquisition and its end, on every
\* path of failure and cancellation, or by the engine while its worker is active.
LeaseIsOwned ==
    /\ \A u \in Users : phaseLock = u <=> where[u] \in Leased
    /\ phaseLock = "engine" <=> voiceEngine = "active"

\* "A postphase trip suppresses a successful result" (visual_phase.py:165-167): no result
\* is delivered once the epoch is latched, by whichever program.
NoResultAfterTrip == [][answered' # answered => ~tripped']_phaseVars

\* The engine's worker gets the lock in the end, whatever was cancelled meanwhile.
VoiceGetsItsTurn == (voiceEngine = "queued") ~> (voiceEngine = "active")

\* One heavy model under the lease, the lock with its owner, and no result after a trip.
HeavyWorkIsExclusive ==
    [](PhaseTypeOK /\ OneHeavyModel /\ LeaseIsOwned) /\ NoResultAfterTrip

-----------------------------------------------------------------------------
(* Proofs                                                                  *)

\* The lease alone does not keep the voice out: the engine's health is asked under the
\* lock, and after that only the engine's worker loads a voice, which needs the lock.
PhaseInv == PhaseTypeOK /\ OneHeavyModel /\ LeaseIsOwned

LEMMA PhaseInvInit == PhaseInit => PhaseInv
<1> SUFFICES ASSUME PhaseInit PROVE PhaseInv
  OBVIOUS
<1>1. voices \in 0..MaxVoices
  BY HeavyPhaseAssumption DEF PhaseInit
<1>2. PhaseTypeOK
  BY <1>1 DEF PhaseInit, PhaseTypeOK
<1>3. OneHeavyModel /\ LeaseIsOwned
  BY HeavyPhaseAssumption DEF PhaseInit, OneHeavyModel, LeaseIsOwned, Leased, Users
<1> QED BY <1>2, <1>3 DEF PhaseInv

\* Every exit of a lease gives back what the user held.
LEMMA LeaveKeeps ==
    ASSUME PhaseInv, NEW u \in Users, Leave(u), where[u] # "idle",
           EngineUnchanged, tripped' \in BOOLEAN, answered' \subseteq Users
    PROVE  PhaseInv'
<1>1. \A v \in Users : where'[v] = IF v = u THEN "done" ELSE where[v]
  BY DEF PhaseInv, PhaseTypeOK, Leave, Moves
<1> QED
  BY <1>1, HeavyPhaseAssumption
     DEF PhaseInv, PhaseTypeOK, OneHeavyModel, LeaseIsOwned, Leave, Moves, EngineUnchanged,
         Leased, Users

LEMMA PhaseInvStep == PhaseInv /\ [PhaseNext]_phaseVars => PhaseInv'
<1> SUFFICES ASSUME PhaseInv, [PhaseNext]_phaseVars PROVE PhaseInv'
  OBVIOUS
<1> USE HeavyPhaseAssumption
<1>1. ASSUME NEW u \in Users, PhaseAsked(u) PROVE PhaseInv'
  BY <1>1 DEF PhaseAsked, PhaseInv, PhaseTypeOK, OneHeavyModel, LeaseIsOwned, Moves,
     EngineUnchanged, Leased, Users
<1>2. ASSUME NEW u \in Users, Polls(u) PROVE PhaseInv'
  <2>1. CASE Leave(u)
    BY <1>2, <2>1, LeaveKeeps DEF Polls, PhaseInv, PhaseTypeOK
  <2>2. CASE ~Leave(u)
    BY <1>2, <2>2 DEF Polls, PhaseInv, PhaseTypeOK, OneHeavyModel, LeaseIsOwned, Moves,
       EngineUnchanged, Leased, Users
  <2> QED BY <2>1, <2>2
<1>3. ASSUME NEW u \in Users, HealthRead(u) PROVE PhaseInv'
  <2>1. CASE Leave(u)
    BY <1>3, <2>1, LeaveKeeps DEF HealthRead, PhaseInv, PhaseTypeOK
  <2>2. CASE ~Leave(u)
    BY <1>3, <2>2 DEF HealthRead, PhaseInv, PhaseTypeOK, OneHeavyModel, LeaseIsOwned, Moves,
       EngineUnchanged, Leased, Users
  <2> QED BY <2>1, <2>2
<1>4. ASSUME NEW u \in Users, EpochRecorded(u) PROVE PhaseInv'
  <2>1. CASE Leave(u)
    BY <1>4, <2>1, LeaveKeeps DEF EpochRecorded, PhaseInv, PhaseTypeOK
  <2>2. CASE ~Leave(u)
    <3>1. /\ where[u] = "opening" /\ u \notin cancelled /\ tripped' = FALSE
          /\ where' = [where EXCEPT ![u] = "inference"]
          /\ UNCHANGED <<phaseLock, providerLock, cancelled, answered>> /\ EngineUnchanged
      BY <1>4, <2>2 DEF EpochRecorded, Moves, PhaseInv, PhaseTypeOK
    <3> QED BY <3>1 DEF PhaseInv, PhaseTypeOK, OneHeavyModel, LeaseIsOwned, EngineUnchanged,
               Leased, Users
  <2> QED BY <2>1, <2>2
<1>5. ASSUME NEW u \in Users, InferenceEnds(u) PROVE PhaseInv'
  BY <1>5 DEF InferenceEnds, PhaseInv, PhaseTypeOK, OneHeavyModel, LeaseIsOwned, Moves,
     EngineUnchanged, Leased, Users
<1>6. ASSUME NEW u \in Users, LeaseEnds(u) PROVE PhaseInv'
  BY <1>6, LeaveKeeps DEF LeaseEnds, PhaseInv, PhaseTypeOK
<1>7. ASSUME NEW u \in Users, Cancelled(u) PROVE PhaseInv'
  <2>1. CASE Leave(u)
    BY <1>7, <2>1, LeaveKeeps DEF Cancelled, PhaseInv, PhaseTypeOK
  <2>2. CASE ~Leave(u)
    BY <1>7, <2>2 DEF Cancelled, PhaseInv, PhaseTypeOK, OneHeavyModel, LeaseIsOwned,
       EngineUnchanged, Leased, Users
  <2> QED BY <2>1, <2>2
<1>8. CASE Probes
  BY <1>8 DEF Probes, PhaseInv, PhaseTypeOK, OneHeavyModel, LeaseIsOwned, EngineUnchanged,
     Leased, Users
<1>9. CASE VoiceQueued
  BY <1>9 DEF VoiceQueued, PhaseInv, PhaseTypeOK, OneHeavyModel, LeaseIsOwned, Leased, Users
<1>10. CASE VoiceStarts
  BY <1>10 DEF VoiceStarts, PhaseInv, PhaseTypeOK, OneHeavyModel, LeaseIsOwned, Leased, Users
<1>11. CASE VoiceEnds
  BY <1>11 DEF VoiceEnds, PhaseInv, PhaseTypeOK, OneHeavyModel, LeaseIsOwned, Leased, Users
<1>12. CASE UNCHANGED phaseVars
  BY <1>12 DEF phaseVars, PhaseInv, PhaseTypeOK, OneHeavyModel, LeaseIsOwned
<1> QED BY <1>1, <1>2, <1>3, <1>4, <1>5, <1>6, <1>7, <1>8, <1>9, <1>10, <1>11, <1>12
        DEF PhaseNext, LeaseSteps

LEMMA PhaseInvariant == PhaseSpec => []PhaseInv
<1> QED BY PhaseInvInit, PhaseInvStep, PTL DEF PhaseSpec

\* Only the end of a lease delivers a result, and it looks at its own last record.
LEMMA ResultsAreUntripped ==
    ASSUME PhaseInv, [PhaseNext]_phaseVars, answered' # answered
    PROVE  ~tripped'
<1>1. PICK u \in Users : LeaseEnds(u)
  BY DEF PhaseNext, PhaseAsked, LeaseSteps, Polls, HealthRead, EpochRecorded, InferenceEnds,
         Cancelled, Probes, VoiceQueued, VoiceStarts, VoiceEnds, phaseVars
<1> QED BY <1>1 DEF LeaseEnds

\* For any turns, phases and number of voices: however they are refused, fail, time out and
\* are cancelled, one of them infers at a time, never beside a loaded voice, the lock is with
\* its user, and a latched epoch lets no result out.
THEOREM LeaseExcludes == PhaseSpec => HeavyWorkIsExclusive
<1>1. PhaseInv /\ [PhaseNext]_phaseVars => [answered' # answered => ~tripped']_phaseVars
  BY ResultsAreUntripped
<1>2. PhaseInv => PhaseTypeOK /\ OneHeavyModel /\ LeaseIsOwned
  BY DEF PhaseInv
<1> QED BY <1>1, <1>2, PhaseInvariant, PTL DEF PhaseSpec, HeavyWorkIsExclusive, NoResultAfterTrip
=============================================================================
