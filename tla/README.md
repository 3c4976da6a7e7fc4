# Formal models of Lumina

Lumina (`src/`) is a local AI agent: Python services that talk, listen, remember, decide and
look, and an avatar in a Godot scene that they move.  This directory holds TLA+ models of the
parts of that program that decide something, TLC instances that check them, and TLAPS proofs.
Names follow the source; `PROJECT.json` maps every definition to the lines it stands for and
lists components, runs, mutants, findings, hazards and theorems.

    tlc -workers 2 -config X.cfg M      check a run (module M, configuration X)
    tlapm M.tla                         check the proofs of module M (section 7)

1 The system - 2 The modules - 3 The runs - 4 Bounds - 5 Fairness - 6 Where the code and its
comments disagree - 7 What is proved - 8 What the models show besides - 9 Not modelled -
10 Plan

## 1. The system

Sources are under `src/lumina_next/` unless a directory is given.

| Component | Source | State it keeps | Modelled by |
|---|---|---|---|
| Job service | `visual_navigation.py` | jobs, active id, unconfirmed stop, the job task, one lock | `VisualJob`, `ArrivalEvidence` |
| Portable adapter | `godot_portable_navigation_adapter_v1.py`, `portable_navigation_contract_v1.py` | commands, tombstones, captures, maps, targets | `PortableAdapter`, `PortableFrames` |
| Avatar controller | `godot/scripts/si_demo_avatar_controller.gd` | the active command, the route, cancelled ids | in `VisualJob` and `PortableAdapter` |
| Autonomy supervisor | `autonomy_supervisor.py` | pending action, memories of a while, task, event, process lock | `Autonomy`, `SupervisorWorker`, `LifeTick` |
| Resource epoch | `services/lumina_resource_epoch.py` | journal, pending file, lock file | `ResourceEpoch` |
| Resource budget | `visual_resource_budget.py` | cached epoch, sticky error | `ResourceEpoch`, `HeavyPhase`, trips in `VisualJob` |
| Heavy-phase lease | `visual_phase.py` | a file lock, a shared status probe | `HeavyPhase` |
| Model broker | `model_broker.py`, `circuit_breaker.py`, `preintegration_runtime.py` | queue, two locks, active model, breaker, processes | `ModelBroker` |
| Turn orchestrator | `orchestrator.py`, `providers/litert_persistent.py` | registry, turn lock, displayed and private histories, resident conversation | `LiteRTSession`, `PrivateTurns` |
| Sleep and cognition | `sleep_cycle.py`, `cognitive_state.py`, `memory_sleep.py` | state of mind, run lock, consolidation rows | `SleepCycle`, `MemorySleep` |
| Memory | `sqlite_memory.py`, `memory.py`, `speaking_style_growth.py`, `memory_control_service_v1.py`, `memory_consent_v1.py`, `memory_repair_v1.py` | rows and their indexes, consent ledger, sealed bundles | `MemoryStore`, `MemoryGovernance` |
| Portable navigation core | `portable_navigation_core_v1.py` | none | `PortableGrid`, `PortableGrounding` |
| Arrival fast path | `arrival_pose_epoch_fast_path_v1.py` | none | `ArrivalEvidence` |
| Visual perception | `visual_perception.py` | none | `VisualPerception` |
| Karakuri world | `karakuri_world.py`, `karakuri_discord.py`, `karakuri_session.py` | ledger rows, queue, timers, remembered answers | `KarakuriNotices`, `KarakuriDecision` |
| Actions and permissions | `embodied_action_api_v1.py`, `permission_modes_v1.py`, `risk_policy_v1.py` | modes, grants, receipts, idempotency | `ActionPermission`, `EmbodiedAction` |
| State reconciliation | `state_reconciliation_v1.py` | projections | `Reconciliation` |
| Rooms and people | `multi_user_identity_v1.py`, `social_interaction_protocol_v1.py`, `role_packs_v1.py`, `community_safety_v1.py` | token ids, floor and queue, decisions, incidents | `ScopeToken`, `SocialTurns`, `CommunityRules` |
| Goals and initiative | `goal_intent_model_v1.py`, `autonomy_orchestrator_v1.py`, `autonomy_watchdog_v1.py`, `relationship_model_v1.py`, `proactive_trigger_v1.py` | active goal, watchdog counters, events, triggers | `AutonomyLoop`, `Initiative` |
| Planner of the bridge | `si_godot_bridge/autonomy_llm.py`, `autonomy_planner.py` | none | `AutonomyPlan` |
| Speech | `stt_gateway.py`, `kokoro_tts_gateway.py`, `tts_streaming.py` | recognizer and language, voice model, last error | `SpeechGateways` |
| Text, UI, reports, scripts | see `PROJECT.json` | - | not modelled (section 9) |

The HTTP bridge server between the services and the Godot project, the models' own servers,
the speech engine and the language models are not in the repository or are programs of their
own.  They are modelled from how the code uses them and marked external; a language model may
answer anything the parser lets through.

**How they interact.**  The routes of `app.py` call the job service, the supervisor, the
orchestrator and the memory services.  The supervisor calls the job service
(`only_if_idle=True`) and reads its fields without its lock.  The job service moves the avatar
through the adapter, polls for events, and runs each job under the resource budget, which
cancels the job's coroutine when it trips.  The budget records into the epoch's journal, which
other processes share.  A chat turn and a visual phase take the heavy-phase lock, and so does
the speech engine, a program of its own.  Rooms, roles and incidents share one-time tokens.

**What is hard here.**

- One event loop, many awaits: cancellations interrupt coroutines at every await, also inside
  `except` clauses and while a shielded thread writes.
- A command may be delivered after its caller gave up, or be lost; so may its answer and the
  stop that follows.  Events and live state are two reads of two moments.
- Locks in two orders, locks of files beside locks of a loop, callbacks that look for a field
  another call has exchanged meanwhile.
- Processes die between two writes; notifications come twice; effects are retried.
- What is carried out is not always what was checked: plans, targets and choices of language
  models are repaired, redirected and replaced by rule after rule.
- Geometry: what is seen in part, between frames, or exactly on the line of a grid.

**What makes each part correct** is what its properties say; each is stated in words above its
definition, and section 3 lists them by run.

## 2. The modules

    OwnedMotion                     what is promised of commands that move the avatar
      ^ implemented by    ^ implemented by
    VisualJob           PortableAdapter
      ^ extended by
    Autonomy                        the supervisor's tick beside the job service
    VisualJobProofs, PortableAdapterProofs, ResourceEpochProofs
                                    each extends the module it is named for
    AutonomyProofs                  extends Autonomy, SupervisorWorker, VisualJobProofs
    ServiceProofs                   extends ScopeToken, ActionPermission, EmbodiedAction, SleepCycle,
                                    MemoryGovernance, MemoryStore
    TurnProofs                      extends ModelBroker, LiteRTSession, SpeechGateways, PrivateTurns
    WorldProofs                     extends SocialTurns, KarakuriNotices, CommunityRules, Reconciliation,
                                    PortableFrames, LifeTick, AutonomyLoop, Initiative
    ScopeToken <- CommunityRules -> SocialTurns      tokens shared by engines and a room
    MCServices, MCDurable, MCPolicies                one part at a time
    MCVisualJob, MCPortableAdapter, MCAutonomy

Each module's header says what of its source it leaves out.  What a reader needs to know of
each before its properties:

**The avatar.**  `VisualJob` has a location `at[r]` for each await of the job's coroutine; those
inside the `try` block, inside its `except Exception` clause and around it are kept apart
(`InTry`, `InHandler`, `Outside`), because a cancellation takes another path in each.  A
command has a fate: `sent`, `live`, `adrift`, `completed`, `ended`, `lost`; a `sent` that
outlives its caller is a late delivery.  `PortableAdapter` carries in each call what that call
has read so far; `shown` is the state that `/world-state` serves, at most one step old.
`OwnedMotion` is their common promise: a command is claimed before it moves anything, moves
only while it is held, and is released once.  Both implement it (`KeepsOwnership`) through
different mappings.  `Autonomy` is the tick's awaits beside the whole of `VisualJob`;
`SupervisorWorker` the callbacks of several processes' loops in the order they became ready;
`LifeTick` what one tick sees, proposes, refuses and remembers by itself.

**Seeing and going.**  `VisualPerception` is an inventory made without knowing the request, and
the selection made with it.  `PortableGrounding` turns a box into a surface among depth rays.
`ArrivalEvidence` judges on frames the engine publishes when it likes, the fast path beside
the slow one.  `PortableFrames` is the chain capture - map - target - way, whose steps name
each other by digests, while the engine goes on.  `PortableGrid` has the algorithms (maps,
inflation, pulling a way straight; the cells of a segment; A\*): one loop iteration or one call
an action, compared with a definition by sets.

**Models and voices.**  `ModelBroker` has the chat worker, scene requests and `close()` over two
locks; a wait with a timeout may end at any moment.  `HeavyPhase` is the lease of one file lock
between turns, visual phases, a probe and the speech engine.  `LiteRTSession` keeps three copies
of one conversation: displayed, visible to the provider, and native; `PrivateTurns` what a turn
is told and what is kept of it.  `SpeechGateways` are threads over one model each, for hearing and for speaking.

**Memory.**  `MemoryStore` has rows, two indexes and what retrieval tells; `MemoryGovernance` the
consent ledger, whose write may fail or be the last thing a process does, and repairs of bundles
that fork; `MemorySleep` nights as a reducer with its undoing; `SleepCycle` who runs them when.

**Acting and living together.**  `ActionPermission` (a receipt carries a permission through
time), `EmbodiedAction` (an effect is applied before its outcome is known),
`Reconciliation`, `ScopeToken`, `SocialTurns`, `CommunityRules`; `KarakuriNotices`,
`KarakuriDecision`; `AutonomyLoop`, `Initiative`, `AutonomyPlan`.

**The packs.**  `MCPolicies`, `MCDurable` and `MCServices` instantiate many modules at once: a
variable (`part`, `service`) is chosen in the initial state, only the module of that part takes
steps, and the others rest in an initial state.  A conjunct guarded by `part = "x" =>` is
therefore a property of module x alone, and each disjunct of the next-state relation is a
module's own `Next`.  Properties of several modules with one concern are gathered under one
name; each conjunct has its comment where it is defined.  A property that is also proved is
stated in the module of its proof, without a guard: it holds of a module at rest, too.

## 3. The runs

| Run | Shows |
|---|---|
| `job_safety` | two requests with all flags, portable and monitored: one owner (`OneOwner`), a motion that runs or may still start is owned by the active job or the unconfirmed stop (`MotionAccountedFor`), speech after motion (`SpeechFollowsMotion`), outcomes are true and final (`ArrivalIsReal`, `ReleasedIsFinal`), nothing is admitted otherwise (`AdmissionIsQuiet`), and the service implements `OwnedMotion` (`KeepsOwnership`) |
| `job_progress` | every job is released and every call returns |
| `adapter` | overlapping polls and stops, and two commands that replace each other: a command the avatar may execute stays stoppable, a confirmed stop wins, an arrival is one of the accepted epoch; `KeepsOwnership` |
| `autonomy` | the supervisor beside a human request: a visual action is counted once and truthfully, humans go first, a pending action is collected |
| `durable` | what outlives the process (below) |
| `policies` | what is sequential or served by one lock (below) |
| `services` | `EveryWaitEnds`: a supervisor's stop, a broker request, the speech engine's reply, a queued turn, a sleeper, a notification and a second delivery are answered; `LoopsAreOwned`: one timer loop unless a `start()` raced a `stop()`, in the process that holds the lock; `HeavyWorkIsExclusive`: one heavy model under the lease, the lock with its owner, no result after a trip |
| `job_speech_leak`, `job_false_cancelled`, `job_trip_speech`, `adapter_adrift`, `worker_overlap` | one violation each, see section 6 |

`durable`, by `part`:

| Part | Module | Properties |
|---|---|---|
| epoch | `ResourceEpoch` | `TypeOK`, `JournalStaysRecordable`, `FailureFreezes`, `TowardsDenial`, `CachesFollowTheJournal`, `AdmittedWithinLimits` |
| sleep, consent, repair, recall | `SleepCycle`, `MemoryGovernance`, `MemoryStore` | `MemoryIsGoverned`: one consolidation at a time, one deep pass a day; answers are durable and deletions covered by receipts; repairs are decided on what was seen and views agree; indexes follow rows, embeddings are a row's own, events are told once, a style is asked for |
| night, recall | `MemorySleep`, `MemoryStore` | `MemoriesAreSound`: nights contradict nothing, count once, only the last is undone; what is told is from the store |
| permission, effect, token | `ActionPermission`, `EmbodiedAction`, `ScopeToken` | `PermissionsAreCovered`: what is allowed is covered by a mode, a receipt, a token; an effect takes place once, an answer tells the effect there was when it was given, and a retry is told that it is one |

`policies`, by property:

| Property | Parts | What it gathers |
|---|---|---|
| `TurnsStayGrounded` | broker, turns, private, hear, say | one user of one model that is loaded, servers that are known unless a start was abandoned; answers from what is displayed, only named turns are cancelled; private stays private and she is no model; voices are told in the language that was asked for; what is spoken is the text, whole |
| `NoticesAreClaimed` | notice, session | a notification is claimed before it is worked at and answered by one |
| `RoomsAreFair` | room, rules | the floor passes in order and by consent, a badge is honoured once, incidents and audits are grounded |
| `BeliefsAreUnbeaten` | state, frame | nothing weaker replaces a current belief; a frame keeps its view, a map is of its moment, a way is of one frame |
| `ActsWithinBounds` | life, loop, first | what she says by herself is spaced and no echo, where she goes was seen; goals are warranted, only local plans are done, the watchdog lets her run while all is well; boundaries hold, initiatives are welcome and spaced |
| `PathsAreClear` | walk, search, grid | all cells of a segment, shortest ways, free cells that are clear, ways pulled straight that stay clear |
| `ChoicesAreSound` | choice, plan | nothing unaffordable is bought, a sound answer is kept, something is done, sleep is quiet; of a plan that a model proposes, what is done is allowed |
| `SensesAreEvident` | ground, arrival, eye, hear, private, say | a target is one surface; arrival is evident and connected; no other object could be meant; every word is heard; what a turn said is remembered where it may be; chunks keep the text |

Every property has a mutant: a definition changed the way a slip in the code would change it,
defined next to its original, for which the run reports that property violated.

Distinct states: see the table of section 4.  Deadlock is not checked: each of these systems
may rest when nobody calls it, or when a bound is reached.


## 4. Bounds

| Run | Distinct states | Instance |
|---|---|---|
| `job_safety` | 2,282,954 | two requests, every combination of flags, all calls, portable and monitored |
| `job_progress` | 251,995 | two requests, with fairness |
| `adapter` | 671,468 | two commands, with and without another speaker, interchangeable |
| `autonomy` | 519,238 | one automatic request beside one human one |
| `durable` | 681,715 | the parts of section 3 |
| `policies` | 629,961 | the parts of section 3 |
| `services` | 80,940 | the parts with liveness |

- *Two requests, two commands.*  Every hazard of the job service and of the adapter is between a
  request and its successor, or between a command and the one that replaces it; a third one
  meets a released slot again.  The proofs of section 7 remove this bound for the safety
  properties.  What is bounded beside it are flags of the requests, not their number: with and
  without movement, with and without speech.
- *`ResourceEpoch`.*  Two clients, readings just below, at and above the limits
  (`MCFreeReadings`), one swap reading, `MaximumGrowth` 2, and two initial epochs, so that both
  the growth limit and the free-memory limit are crossed and crossed again; `MaxRevision` 2
  leaves room for a record, its repetition and a late one.
- *`SupervisorWorker`.*  `MaxWorkers` tasks may be created in a process and `MaxReady`
  callbacks be in its queue: 3 and 3 are what the overlap of section 6 needs; `services` has
  queues of 2, which is enough for a stop to be answered and for a second task of a process.
- *`ModelBroker`.*  One chat and one scene in `policies` and `services`; a queue of one, so that
  it can be full; a breaker that opens at two failures.  The inductive invariant was also
  checked with two chats and two scenes (7,172,705 states) before it was proved.
- *Policies without memory* (`AutonomyPlan`, `VisualPerception`, `PortableGrid`,
  `KarakuriDecision` and others) start in any of a set of inputs.  The inputs are chosen per
  rule: at least one that meets it, one that does not, and the values beside each threshold.
  They are named in `MCPolicies.tla` and `MCDurable.tla` with what they are for.
- *Clocks* run to a last moment (`LastTick`, `MaxClock`, `LastSecond`, `LastMinute`, `Hours`)
  that lies at least one step after a validity of the model has run out.  The repairs of
  `MemoryGovernance` have two instants only, and a consent that is too early at the first.
- *`Reconciliation`.*  One claim is ahead of the clock: refused at first, then within
  `MaxFutureSkew`, then of the past.
- *`PortableGrid`.*  The search runs on every map of four cells by three, with a target whose
  surface has points in two corners.
- *`Initiative`.*  Three events before the first moment and five in all, of sayings of every
  category; a correction may name any earlier ones, of its own key or of another, and an event
  may be told after later ones.

The registry's 64 jobs and the 128 tombstones of cancelled commands are not modelled: both
forget what ended long ago.

## 5. Fairness

Fairness is stated where the code's own scheduling gives it, and never on what a model, a
server, an operator or the network does.

- *An await that is not blocked resumes* (weak): each job's `Step`, the `Finishing` of an
  operation (`VisualJob`); `Collect` (`Autonomy`); `BrokerSteps`; `TurnLocks`, `TurnProceeds`;
  `RunSteps`, `ThreadEnds`; `TurnSteps`, `NoticeTaken`, `KarakuriSteps`; `LeaseSteps`, `Probes`,
  `VoiceEnds`.  All of these run on an event loop or a thread of its own.
- *The event loop serves its ready queue in order*: not an assumption in `SupervisorWorker`,
  where the queue is a variable; the fairness is that the loop runs.
- *A lock that is released again and again is passed on in the end* (strong): `VoiceStarts` (the
  kernel wakes the blocked `flock`), `Begins` (asyncio's lock is first come, first served),
  `TurnBegins`.  A timer that is armed again and again fires in the end: `ActivationTimesOut`,
  `HourPasses`, `CircadianWake`, `RetryFires`.
- `MCServices` lets only one service take steps, so each slot `Weakly1`...`Weakly5`,
  `Strongly1`...`Strongly5` names, for each service, one formula of that service's own fairness.
  `VoiceGetsItsTurn`, `WorkedAtIsSettled`, `WaitersHear`, `TurnsEnd`, `BrokerComesToRest`,
  `TimedSleepEnds` and `StopIsAnswered`, defined in the modules, are the conjuncts of
  `EveryWaitEnds`.

`PendingIsCollected` excepts a stop that stays unconfirmed: then the service refuses every new
motion until somebody confirms it, and the code intends that.

## 6. Where the code and its comments disagree

Each is a run whose only property is what the comment, docstring or sibling clause says.

| Run | What happens |
|---|---|
| `job_speech_leak` | The failure clause of `_run_job` speaks the failure and waits.  A cancellation there, or a reply that is not JSON, leaves the coroutine without a stop: the slot is free, the speech plays on and no unconfirmed stop accounts for it (`visual_navigation.py:3535`; comment at 3356-3359). |
| `job_false_cancelled` | A `cancel()` that arrives while the failure clause awaits its stop reports `cancelled` although the stop is unconfirmed (`visual_navigation.py:1633`; the cancel clause at 3507 tells the two apart). |
| `job_trip_speech` | A trip of the budget in the movement keepalive is re-raised as a bare error, whose code the failure clause loses: the failure is spoken, a second heavy stage after a trip (`visual_navigation.py:3518`; comment at 3529). |
| `adapter_adrift` | `feedback` releases a command on its terminal event and one pair of reads when the first already looks inactive; with another's speech in between, the avatar still walks (`godot_portable_navigation_adapter_v1.py:1331`; the docstring at 1312-1314 asks for two).  `KeepsOwnership` of the adapter therefore speaks of motions where nobody else makes the avatar speak (`use.othersSpeak`), and of the adapter's records everywhere. |
| `worker_overlap` | `start()` calls during a `stop()` leave two timer loops, and one of them no later `stop()` reaches (`autonomy_supervisor.py:1477`; docstring at 80).  `LoopsAreOwned` therefore speaks of processes in which no `start()` was served during a `stop()`. |

## 7. What is proved

The theorems hold for every value of the constants, under the named assumption of each module
(`EpochAssumption`, `VisualJobAssumption`, ...): that the sets of readings are of numbers,
that limits are natural numbers, that `None` and the distinguished actors are not members of
the sets they stand beside, and what the code's own validation lets in: priorities from 0 to
100, plans of known risk, sayings whose operation is one of their category (`LawfulSaying`),
questions with a known ask.  TLC evaluates each assumption in the runs.

Hardly any of the properties is inductive as it stands.  For each module an invariant is defined
that is; TLC checked it first; three facts are proved (it holds initially, every action keeps it,
it implies the properties), with a step or a lemma for each action.

**`ResourceEpochProofs`.**  `TypeCorrect`, `AlwaysRecordable`, `FailureIsFinal`, `OnlyTowardsDenial`,
`CachesNeverAhead`, `AdmissionIsSound`.  `IInv` says what the journal, the pending file and the
marker look like during each client's commit, and that only one client is between its first and
its last write (`Exclusive`, `Marker`, `Creation`, `Candidates`, `JournalValid`).  `CacheInv`
adds what each client may know: a snapshot is a state the journal had (`Written`, `Adoptable`),
an answer was given on one (`Attested`, `Admitted`).  The key lemmas:
recording a reading makes a state no laxer (`RecordedNoLaxer`), merging two known states gives a
known state (`AdoptedKnown`), and what is known stays known (`KnownStays`).

**`VisualJobProofs`.**  `JobTypes`, `OneOwnerAlways`, `ArrivalsAreReal`, `OutcomesAreFinal`, and for the
portable path `MotionsAccountedFor`, `SpeechAfterMotion`, `AdmissionsAreQuiet`,
`ImplementsOwnedMotion`.  `IInv == SlotInv /\ Motions /\ Covered`: the slot belongs to the one
coroutine that is not over, requests without a job are untouched and stops name what they
stopped (`SlotInv`); what the record of a job says of its motion's fate, and where the coroutine
then is (`Motions`); whatever may still run is with the job that dispatches or moves, or under
the unconfirmed stop (`Covered`).  `Portable` is assumed where motions are concerned, because on
the direct path a stop is accepted while the avatar may still walk a route that a speech set
adrift: there the properties are false (section 8).  `ImplementsOwnedMotion` maps every step of
the service to a step of `OwnedMotion` or to a stutter.

**`PortableAdapterProofs`.**  `AdapterTypes`, `StoppableAlways`, `ArrivalsAreCompleted`,
`StopsBeatAcceptance`, `ImplementsOwnedMotion`.  `IInv` is one statement per command: its record
agrees with the navigate call that made it (`RecordOf`), the polls and stops under way hold only
what they could have read (`CallsOf`), a terminal report was made by the avatar (`ReportOf`),
and what is retired is over (`RetiredIsOver`).  The commands are independent of each other
except in the engine, so each action is carried for the commands it uses and for the rest.

**`AutonomyProofs`.**  `SupervisorTypes`, `ActionsCountedOnce`, `SuccessesStand`, `HumansGoFirst` (portable).
The invariant of `VisualJobProofs` is kept by the supervisor's own admissions, and `Accounts`
says of each of its requests that it is pending until it is counted, and counted only when
nothing can change its outcome any more.
`LoopsAlwaysOwned` is about the supervisor's worker, for any number of processes and a queue of any
length.  `WorkerInv`: handle, lock and task go together (`LockFollows`), a cancelled task that
is not over has a `stop()` that waits for it, whose wake-up its end puts in the queue
(`DoomedAwaited`), and in a process that did not race, a `stop()` that resumes finds nothing
alive (`ResumesAlone`).  What one callback leaves in the queue is a lemma about sequences (`Ran`).

**`HeavyPhase`.**  `LeaseExcludes`, in the module itself.  `PhaseInv`: whoever holds the file lock
is at a location at which it holds it, and no two heavy models work at once; every exit of a
lease gives back what it held (`LeaveKeeps`), and a result is delivered only by the end of a
lease, which looks at its own last record (`ResultsAreUntripped`).

**`TurnProofs`.**  Five modules, for any callers, limits and answers of the models;
`TurnsAlwaysGrounded` gathers them into `TurnsStayGrounded`.

- `ModelsStayExclusive` (broker).  `BrokerInv`: the two locks follow the actors' locations
  (`LocksFollow`), the counter of chats in flight is the worker (`ChatIsCounted`), broker and
  runtime agree on the model that is loaded, and it is the one that is used (`ModelIsAgreed`),
  nothing is reported ready while somebody switches (`StateIsHonest`), and a server that is not
  the loaded model's is one whose start or stop was abandoned or failed (`StrayIsKnown`).
- `TurnsAnswerFromDisplayed` (session).  Three copies of a conversation can differ; `SessionInv`
  says when they do not: the provider's is the displayed one unless a reset was asked for, the
  sidecar's is the provider's unless a recovery is due or it is not ready (`TranscriptsAgree`),
  and what a turn found is still so at its next step (`ProviderIsTheirs`).
- `PrivateTurnsStayPrivate`.  `ChatInv`: every text that is kept or told is the answer of a turn
  that was given (`TurnIsTold`), in a private history of a private turn of that very partition
  (`HistoriesAreTheirs`), in the store of a public one (`StoreIsPublic`).
- `WordsAreToldAsAsked`.  Only who is inside the lock knows what the recognizer is: absent while
  it is being made, of the language of the take while it decodes (`RecognizerInv`).
- `AnswersAreSpokenWhole`.  What was sent is the beginning of the text's chunks, in their order
  (`SaysItsText`), and an answer is ok only at the end of them, with one rate (`SaysAllOfIt`).

**`ServiceProofs`.**  Services that are called in any order.  `PermissionsAlwaysCovered` and
`MemoryAlwaysGoverned` gather them into `PermissionsAreCovered` and `MemoryIsGoverned`.

- `TokensAuthorizeOnce`: a token that authorized is used up, and `TokensAreShort`,
  `GrantsAreCovered` keep what issuing and presenting it checked.
- `AllowedIsAlwaysCovered`, `PermissionsAreOnTheTrail`: a receipt remembers the grant it was
  issued under (`CoveredReceipt`), and a grant's record is never replaced, only revoked, at a
  time that is not before the receipt's.  `TrailInv`: the trail is in the order of time, modes
  are what it says last, and a receipt of somebody who only proposes is older than that change.
- `EffectsTakePlaceOnce`: the first request of a scope, its effect and its outcome come together
  (`ScopeOf`), and a dispatch id and a receipt belong to the scope that began with them
  (`OwnersBegan`); hence the adapter's own refusal of a second effect is never needed.
- `NightsComeOneByOne`: whoever has begun a pass holds the run lock, and a thread keeps its row
  (`OneThread`), also when its caller is gone.
- `AnswersOutliveTheProcess`: a consent that was confirmed and not disputed since is in the
  process as well as in the file (`ConfirmedIsLive`), and a deletion under way has its receipt
  in the file (`ForgettingIsCovered`), whenever the process stops.
- `RepairsAreDecided`: an audit's entries are of earlier revisions (`AuditIsPast`), so that two
  bundles which fork cannot disagree on a repair both have.
- `RowsAreFoundByTheirOwn`: rowids are given out again, but have a bound (`RowidsAreBounded`), and
  an episode is of events that were consolidated (`EpisodesAreOfThePast`).  `StylesAreAskedFor`: a
  score above zero was raised by a remark that was made (`ScoresAreAskedFor`).

**`WorldProofs`.**  What comes from outside, and what she does by herself.

- `NoticesAlwaysClaimed`, for any notifications, deliveries and bounds.  `NoticeInv`: a
  notification is queued once or is the worker's (`QueuedOnce`), without the webhook only the
  worker takes turns, on rows that have not failed (`ChannelOnly`), and until a crash a row that
  may be retried has its timer, or its place in the queue and is due (`RetryIsArranged`; without
  the second half a notification taken from the queue too early would be lost).  `FirstInv` ties
  the records of a session to the order they are kept in (`KeysAgree`); what trimming removes is
  over (`GoneIsDone`, `TrimKeeps`).
- `RoomsAlwaysFair` (`RoomsAreFair`).  `LineStep` says what an event makes of the line, the old
  line with some taken out and at most one put behind (`Drawn`); the order of the room and both
  action properties, `TurnsAreTakenByConsent` and `NobodyOvertakes`, follow from it.
  `LineWithout` takes out one place, as `list.remove` does; `RoomIsOrderly` makes that the same
  as the comprehension of `LEAVE`.  `DecisionsAreGrounded`: audits are numbered without a gap and
  every incident and appeal is told in one (`RulesInv`).
- `BeliefsAlwaysUnbeaten` (`BeliefsAreUnbeaten`).  Being unbeaten is transitive only through a
  claim that is fresh (`UnbeatenIsTransitive`); hence a projection must be compared while it is.
  `FramesInv`: the id of every entry of the caches is that of its value, so that two steps which
  name the same digest speak of the same frame.
- `AlwaysActsWithinBounds` (`ActsWithinBounds`).  `LifeInv`: what is thought of was in the latest
  picture of that time, and stays so, because pictures are numbered in the order of their time
  (`SeenThen`, `SightsAreInOrder`); the decisions that are remembered line up with the last of
  the chronicle (`DecisionsAreKept`), hence what was said lately is not said again.  `LoopInv`:
  sources have scores that do not overlap, so that an active goal's score tells its source
  (`ActiveIsScored`); the watchdog's counters count the last samples (`Counted`).  `WelcomeInv`:
  an event names only earlier ones (`EventsInOrder`), so that the last of any set of them is
  never superseded in it (`LastStands`), from which it follows that a boundary stays; what an
  initiative was decided on is still so while it is offered (`MaySpeak`).

**What stays with TLC.**

- Liveness under fairness and whatever needs `ENABLED`: `EveryWaitEnds`, `PendingIsCollected`,
  the progress of jobs.
- What recursive definitions and folds compute for all inputs, because induction over data needs
  theorems with operator parameters: `PathsAreClear` (cells of a segment, A\*, inflation,
  pulling straight), the nights of `MemoriesAreSound` (a fold over rows), and of the senses
  `NothingIsUnheard`, `ChunksKeepTheText` and `PrivateIsRemembered` (texts that are cut and kept
  piece by piece).
- Policies that answer one input by a chain of rules, where everything of interest is in the
  inputs and nothing in an invariant: `ChoicesAreSound`, and of `SensesAreEvident` the judgements on
  a box, an inventory and the frames around an arrival.

Of `durable` the parts `epoch`, `sleep`, `consent`, `repair`, `permission`, `effect`, `token` and the
indexes of `recall` are proved; of `policies` the parts `broker`, `turns`, `notice`, `session`,
`state`, `frame`, `room`, `rules`, `life`, `loop`, `first`, and the safety of `private`, `hear` and
`say` except for the three properties of texts above; of `services` the safety of `worker` and
`phase`.

## 8. What the models show besides

Behaviours met while modelling that no comment or test contradicts outright, or that a property
had to be worded around.  They are in the models as they are in the code.

*Avatar.*  On the direct path a speech that was leaked and is delivered late can set a later
job's motion adrift.  The evaluator of feedback fails closed when a role is expected.  A move
that never arrives leaves no event, so its stop is never confirmed (adapter, line 1639).  An
acceptance after its deadline raises `PORTABLE_ACCEPTANCE_TIME_INVALID` after Godot took the
command (about 1224).  A frame's identity omits the room geometry embedded in it (about
539-587), and a capture that is stored again keeps its old place in the eviction order (about
325).

*Geometry* (`portable_navigation_core_v1.py`).  `_continuous_segment_cells` from a corner of the
grid, (1.5, 1.5) to (2.0, 1.0), does not end (about 1349-1375).  `inflate_occupancy` counts the
half-cell diagonal once.  Depth merged into a primitive map occupies cells beside unobserved
ones (about 1488).  With a continuity surface, occluder boxes decide nothing (about 873-898).
In `arrival_pose_epoch_fast_path_v1.py` "All hard-fail conditions are evaluated before any
fallback condition" (about 906) is not so for a contradiction of the surface's role; the slow
path does not look at feedback's collision again.

*Perception* (`visual_perception.py`).  A degenerate row of a kind outside the dictionary is
dropped and is no evidence of ambiguity (about 1216-1223).  In closed mode a row of the same kind
whose color cannot be parsed drops out.  The intent of a selection is not checked, nor a Japanese
noun that is in no dictionary.

*Supervisor and planner.*  A left-over `target_description` rejects a speech that is due
(`autonomy_supervisor.py:855`), and the refused `speak` is remembered for four decisions.  A human
wake in a deep pass may leave Lumina asleep for good (299).  `already_completed` with high fatigue
starves the micro sleep.  `approach_user` is offered without `allow_movement`
(`autonomy_planner.py`, about 222).  Parameters of targets escape redirection
(`autonomy_llm.py`, about 3698 and 3800), the fallback ignores steps of `act_sequence`, sequences
are told apart by their first four steps, and a score of zero counts as 1.0 (4197).

*Services.*  Both model servers can run after an abandoned start, and an admitted chat can be shut
out (`model_broker.py`, 4-5 and 504).  The default scope's turn is recorded before the speech and
the bridge are dispatched, so that a retry is recorded twice.  In `litert_persistent` a turn that is
`session_only` enters the resident conversation of its session.  `transcribe` checks its model
outside the lock and may answer 503 (`stt_gateway.py`, about 613).  A chunk of speech may exceed the
limit by one mark (`kokoro_tts_gateway.py`, about 210-216), and a streamed answer is 200 before it is
validated.

*Memory.*  `[:max_chars]` cuts the newest text (`memory.py`, about 22).  A forgotten fact returns
with the next import.  Forgetting without sqlite-vec leaves an embedding behind.  `import_legacy`
ignores `write_enabled`.  Consolidation writes without `can_save`, and
`POST /memory/{kind}/{id}/forget` deletes without a receipt (`memory_consent_v1.py`, 4-5).  A consent
write that fails leaves the process ahead of its file.

*Acting.*  `evaluate_action_request` does not itself enforce that a grant is for one time.  A retry
after the deadline is told `TIMED_OUT` before its idempotency key is looked up.  An identical retry after a cancel is
told that it is a duplicate of the pending result, although the effect was undone: `cancel` does
not touch what is kept for the key (`embodied_action_api_v1.py`, 731-741, 875 and 878-924), so
`AnswersTellTheEffect` is about an answer when it is given.  `community_safety_v1.py` (188-211)
accepts any role decision whose hash, which has no key, fits: the models have those of the role
engine.  After a conflict or
an eviction, older or weaker claims can be projected (`state_reconciliation_v1.py`).  Scope tokens
are remembered in memory only.  A role's decision is bound to no time or turn, and `exit_role`
holds for ever.

*Goals and initiative.*  RESUME does not recheck its objective (`goal_intent_model_v1.py`, about
600); `reset_safe_idle` also resets a watchdog that was killed; the orchestrator never asks the
watchdog.  Contradictory quiet hours fall back to permissive defaults, named
"fail_closed_default" (`proactive_trigger_v1.py`, about 210-222).  Two candidates of one instant pass
the cooldown; a correction that names one ineligible event supersedes nothing.

*Karakuri.*  A command can be handed over twice, and a crash in the third attempt leaves
"processing" (`karakuri_discord.py:69`).  Recontacts at one time pass the cooldown.  Purchases on
the fallback paths are not priced (`karakuri_world.py`, about 2883), only the four cheapest
actions are.  `_prefer_active_choice` undoes the rule against repetition; nothing is done once all
actions are worn out and the model fails (about 1996).

## 9. Not modelled

- The text of prompts, answers and logs; rendering, animation and the user interface; reports,
  schema documents, launchers and tests.
- Policies over single records without shared state (the component "Other v1 policy and world
  models"): they validate, score or combine what they are handed.
- Servers of the language and vision models, the bridge's HTTP server and the speech engine's
  inside: external, from how the code uses them.
- Deadlines carry no numbers where only their order with an answer matters: a wait with a
  timeout may end at any moment.
- In the arrival model: digests, replayed and foreign envelopes, which the code refuses before
  it looks at the evidence.
- The turns of `sessions.json` that `import_legacy` adds beside the facts; `navigate` called again
  with an id that has its result; a second system prompt for a resident conversation (the
  prompt is read once).
- On the direct path, `MotionAccountedFor`, `SpeechFollowsMotion`, `AdmissionIsQuiet` and
  `KeepsOwnership` are not claimed (section 8).

## 10. Plan

What is left is to prove about inputs rather than states: that a plan which is admitted is allowed
(`PlanIsAllowed`), that a purchase is paid for (`PurchasesArePaid`), that a target is one
surface (`GroundingIsSound`).  Each needs lemmas about the rules one by one, and a model of the
folds in them by recursive functions.  Beside that, the tick of `LifeTick` and the awaits of
`Autonomy` could be put together, so that what a tick refuses is refused between two human
requests.
