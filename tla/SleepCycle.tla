----------------------------- MODULE SleepCycle -----------------------------
(***************************************************************************)
(* lumina_next/sleep_cycle.py and cognitive_state.py with the consolidation *)
(* of sqlite_memory.py: the scheduler, the operator and the autonomy        *)
(* supervisor ask for a memory pass; whoever holds the run lock puts the    *)
(* mind to sleep, waits for a thread to consolidate, and says whether it    *)
(* stays asleep.  The state of mind and the table of consolidation runs are *)
(* in the database, so both outlive the process.                            *)
(*                                                                          *)
(* Hours go round: of a date only "is it today's" is kept, of the time      *)
(* asleep only the hours up to the least duration of a sleep.               *)
(***************************************************************************)
EXTENDS Naturals, FiniteSets, Absent

CONSTANTS
    Hours,        \* hours of the model's day
    SleepWindow,  \* hours between sleep_start_hour and sleep_wake_hour
    SleepRequests,     \* the passes an operator asks for: mode and remain_asleep
    MinSleep,     \* sleep_min_duration_seconds, in hours
    MaxRestarts   \* how often the process is started again (bound)

PassCallers == {"scheduler", "operator", "supervisor"}

ASSUME SleepCycleAssumption ==
    /\ None \notin PassCallers
    /\ Hours \in Nat \ {0} /\ MinSleep \in Nat /\ MaxRestarts \in Nat
    /\ SleepRequests \subseteq [mode : {"deep", "micro"}, remain : BOOLEAN]
    /\ SleepWindow \subseteq 0..(Hours - 1) /\ SleepWindow # 0..(Hours - 1)

VARIABLES
    hour,      \* the hour of the day
    mind,      \* agent_state.cognitive_state
    asleep,    \* hours since sleep_started_at, or None
    deepToday, \* last_deep_sleep_date is today's date
    tired,     \* fatigue and idleness make deep sleep due
    pressed,   \* pending events have reached the threshold of a micro sleep
    run,       \* what each caller of run_once is at
    request,   \* mode and remain_asleep of each caller
    runLock,   \* holder of LuminaSleepCycle._run_lock
    threads,   \* the callers for whom a thread consolidates, "lost" for one that is gone
    dbRun,     \* the row of consolidation_runs that is 'running'
    restarts

sleepVars == <<hour, mind, asleep, deepToday, tired, pressed, run, request, runLock,
               threads, dbRun, restarts>>

NoRequest == [mode |-> "micro", remain |-> FALSE]

SleepInit ==
    /\ hour = 0 /\ mind = "AWAKE" /\ asleep = None
    /\ deepToday = FALSE /\ tired = FALSE /\ pressed = FALSE
    /\ run = [c \in PassCallers |-> "idle"] /\ request = [c \in PassCallers |-> NoRequest]
    /\ runLock = None /\ threads = {} /\ dbRun = "none" /\ restarts = 0

\* within_sleep_window.
InWindow == hour \in SleepWindow

\* should_wake: outside the window, and asleep for long enough.
ShouldWake == mind # "AWAKE" /\ ~InWindow /\ asleep # None /\ asleep >= MinSleep

\* CognitiveController.wake: sleep_started_at is forgotten, fatigue falls to a quarter.
Wakes ==
    /\ mind' = "AWAKE"
    /\ asleep' = IF mind = "AWAKE" THEN asleep ELSE None
    /\ tired' = IF mind = "AWAKE" THEN tired ELSE FALSE

\* deep_sleep_due: the window, once a day; fatigue and idleness, whatever the day.
DeepDue == (InWindow /\ ~deepToday) \/ tired

Idle(c) ==
    /\ run' = [run EXCEPT ![c] = "idle"] /\ request' = [request EXCEPT ![c] = NoRequest]
MindUnchanged == UNCHANGED <<mind, asleep, deepToday, tired>>
PassesOutside == UNCHANGED <<hour, restarts>>

-----------------------------------------------------------------------------
(* LuminaSleepCycle                                                        *)

\* A caller of run_once waits for the run lock.
Asks(c, mode, remain) ==
    /\ run[c] = "idle"
    /\ run' = [run EXCEPT ![c] = "locking"]
    /\ request' = [request EXCEPT ![c] = [mode |-> mode, remain |-> remain]]

\* tick() of the scheduler when the mind is awake: deep sleep if due, else a micro sleep.
SchedulerAsks ==
    /\ mind = "AWAKE"
    /\ \/ DeepDue /\ Asks("scheduler", "deep", TRUE)
       \/ ~DeepDue /\ pressed /\ Asks("scheduler", "micro", FALSE)
    /\ UNCHANGED <<pressed, runLock, threads, dbRun>> /\ MindUnchanged /\ PassesOutside

\* tick() of the scheduler and of the autonomy supervisor when the mind is asleep.
CircadianWake ==
    /\ run["scheduler"] = "idle" \/ run["supervisor"] = "idle"
    /\ ShouldWake /\ Wakes
    /\ UNCHANGED <<deepToday, pressed, run, request, runLock, threads, dbRun>> /\ PassesOutside

\* POST /sleep/start, and the supervisor's own decision or plan to sleep.
OthersAsk ==
    /\ \/ \E r \in SleepRequests : Asks("operator", r.mode, r.remain)
       \/ Asks("supervisor", "deep", TRUE)
    /\ UNCHANGED <<pressed, runLock, threads, dbRun>> /\ MindUnchanged /\ PassesOutside

\* The lock is got: a deep sleep that today has had is refused, else the mind goes to sleep.
Begins(c) ==
    /\ run[c] = "locking" /\ runLock = None
    /\ \/ /\ request[c].mode = "deep" /\ deepToday
          /\ Idle(c) /\ UNCHANGED <<mind, asleep, runLock>>
       \/ /\ ~(request[c].mode = "deep" /\ deepToday)
          /\ runLock' = c /\ run' = [run EXCEPT ![c] = "asleep"]
          /\ mind' = IF request[c].mode = "micro" THEN "MEMORY_AUDIT" ELSE "NREM_CONSOLIDATION"
          /\ asleep' = IF asleep = None THEN 0 ELSE asleep
          /\ UNCHANGED request
    /\ UNCHANGED <<deepToday, tired, pressed, threads, dbRun>> /\ PassesOutside

\* consolidate_memory inserts its row, unless another row is running ("busy").
Consolidates(c) ==
    /\ run[c] = "asleep"
    /\ \/ /\ dbRun = "none" /\ threads' = threads \cup {c} /\ dbRun' = "running"
          /\ run' = [run EXCEPT ![c] = "consolidating"]
       \/ /\ dbRun # "none" /\ run' = [run EXCEPT ![c] = "failed"]
          /\ UNCHANGED <<threads, dbRun>>
    /\ UNCHANGED <<pressed, request, runLock>> /\ MindUnchanged /\ PassesOutside

\* The transaction commits, and every event it read is consolidated, or it is rolled back.
\* A caller that is no longer there does not hear of it.
ThreadEnds ==
    /\ dbRun' = "none"
    /\ \E t \in threads, ok \in BOOLEAN :
          /\ threads' = threads \ {t}
          /\ pressed' \in IF ok THEN {FALSE, pressed} ELSE {pressed}
          /\ run' = IF t = "lost" THEN run
                    ELSE [run EXCEPT ![t] = IF ok THEN "completed" ELSE "failed"]
    /\ UNCHANGED <<request, runLock>> /\ MindUnchanged /\ PassesOutside

\* finish_consolidation: asleep only if it was asked for and the pass succeeded.  It does
\* not look at what the mind was meanwhile: one that was woken goes back to sleep.
Finishes(c) ==
    /\ run[c] \in {"completed", "failed"}
    /\ LET ok == run[c] = "completed"
           deep == request[c].mode = "deep"
       IN /\ deepToday' = (deepToday \/ (ok /\ deep))
          /\ tired' \in IF ok /\ deep THEN {FALSE, tired} ELSE {tired}
          /\ IF ok /\ request[c].remain
             THEN mind' = "SLEEPING" /\ UNCHANGED asleep
             ELSE mind' = "AWAKE" /\ asleep' = None
    /\ runLock' = None /\ Idle(c)
    /\ UNCHANGED <<pressed, threads, dbRun>> /\ PassesOutside

\* A database that stays locked raises out of begin_sleep, consolidate_memory or
\* finish_consolidation; stopping the supervisor cancels its run.  The lock is given back,
\* the state of mind stays what it was, and so does a thread that has begun.
RunBreaks(c) ==
    /\ \/ run[c] \in {"asleep", "completed", "failed"}
       \/ c = "supervisor" /\ run[c] \in {"locking", "consolidating"}
    /\ Idle(c)
    /\ runLock' = IF runLock = c THEN None ELSE runLock
    /\ threads' = IF c \in threads THEN (threads \ {c}) \cup {"lost"} ELSE threads
    /\ UNCHANGED <<pressed, dbRun>> /\ MindUnchanged /\ PassesOutside

-----------------------------------------------------------------------------
(* The world around it                                                     *)

\* observe_human_interaction, POST /sleep/wake: nobody asks whether a pass is running.
HumanWakes ==
    /\ Wakes
    /\ UNCHANGED <<deepToday, pressed, run, request, runLock, threads, dbRun>> /\ PassesOutside

\* Drives rise with the hours, actions and turns are recorded as events.
LifeGoesOn ==
    /\ tired' \in {tired, TRUE} /\ pressed' \in {pressed, TRUE}
    /\ UNCHANGED <<mind, asleep, deepToday, run, request, runLock, threads, dbRun>> /\ PassesOutside

\* Midnight makes a new date.  A pass takes less than an hour, so that what is still
\* running after one belongs to a process that is gone: the next pass abandons it.
HourPasses ==
    /\ threads = {}
    /\ hour' = (hour + 1) % Hours
    /\ deepToday' = (deepToday /\ hour' # 0)
    /\ asleep' = IF asleep = None \/ asleep = MinSleep THEN asleep ELSE asleep + 1
    /\ dbRun' = "none"
    /\ UNCHANGED <<mind, tired, pressed, run, request, runLock, threads, restarts>>

\* The process ends and starts again: callers, lock and thread are gone, the database stays.
Restarts ==
    /\ restarts < MaxRestarts /\ restarts' = restarts + 1
    /\ run' = [c \in PassCallers |-> "idle"] /\ request' = [c \in PassCallers |-> NoRequest]
    /\ runLock' = None /\ threads' = {}
    /\ UNCHANGED <<hour, mind, asleep, deepToday, tired, pressed, dbRun>>

-----------------------------------------------------------------------------

RunSteps(c) == Consolidates(c) \/ Finishes(c)

SleepNext ==
    \/ SchedulerAsks \/ OthersAsk
    \/ \E c \in PassCallers : Begins(c) \/ RunSteps(c) \/ RunBreaks(c)
    \/ ThreadEnds \/ CircadianWake \/ HumanWakes \/ LifeGoesOn
    \/ HourPasses \/ Restarts

SleepSpec == SleepInit /\ [][SleepNext]_sleepVars

\* Threads and their callers go on, the run lock is first come first served, hours go by,
\* and the scheduler, whose interval is much shorter than an hour, sees each of them: the
\* wake-up that is due in hour after hour happens (strong fairness).
SleepFairness ==
    /\ \A c \in PassCallers : WF_sleepVars(RunSteps(c)) /\ SF_sleepVars(Begins(c))
    /\ WF_sleepVars(ThreadEnds) /\ SF_sleepVars(HourPasses) /\ SF_sleepVars(CircadianWake)

SleepTypeOK ==
    /\ hour \in 0..(Hours - 1)
    /\ mind \in {"AWAKE", "NREM_CONSOLIDATION", "MEMORY_AUDIT", "SLEEPING"}
    /\ asleep \in 0..MinSleep \cup {None}
    /\ deepToday \in BOOLEAN /\ tired \in BOOLEAN /\ pressed \in BOOLEAN
    /\ run \in [PassCallers -> {"idle", "locking", "asleep", "consolidating", "completed", "failed"}]
    /\ request \in [PassCallers -> [mode : {"deep", "micro"}, remain : BOOLEAN]]
    /\ \A c \in PassCallers : runLock = c <=> run[c] \notin {"idle", "locking"}
    /\ runLock \in PassCallers \cup {None} /\ threads \subseteq PassCallers \cup {"lost"}
    /\ dbRun \in {"none", "running"} /\ restarts \in 0..MaxRestarts

\* A pass and its row belong together: while a thread consolidates, its row keeps every
\* other pass out, also the one that follows a cancelled caller whose thread goes on.
OneConsolidation ==
    /\ Cardinality(threads) =< 1 /\ (threads # {} => dbRun = "running")
    /\ \A c \in PassCallers : run[c] = "consolidating" <=> c \in threads

\* last_deep_sleep_date: whoever asked, in whatever order, and across midnight, no deep
\* pass is under way on a date that has had one.
DeepOnceADay ==
    \A c \in PassCallers : (run[c] \in {"asleep", "consolidating", "completed"}
                        /\ request[c].mode = "deep") => ~deepToday

\* A mind that sleeps, and knows since when, is awake again, whatever broke the pass that
\* put it to sleep.
TimedSleepEnds == (mind # "AWAKE" /\ asleep # None) ~> (mind = "AWAKE")

=============================================================================
