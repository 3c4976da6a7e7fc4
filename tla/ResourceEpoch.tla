--------------------------- MODULE ResourceEpoch ---------------------------
(***************************************************************************)
(* The persistent exhibition resource budget of                            *)
(* services/lumina_resource_epoch.py and its in-process cache,             *)
(* SharedResourceEpoch of lumina_next/visual_resource_budget.py.           *)
(*                                                                         *)
(* Several clients (the visual budget, the phase lease, the voice engine)  *)
(* record memory readings in one journal file.  A record runs under an     *)
(* exclusive flock: read and validate the file, compute the successor      *)
(* state, stage it in a pending file, rename it over the journal, fsync    *)
(* the directory.  Every one of these steps may fail, and the process may  *)
(* die between any two of them.  The pending file doubles as a denial      *)
(* marker: while it exists nobody reads or writes the journal.             *)
(*                                                                         *)
(* Abstractions: readings are small integers, Unread stands for a sensor   *)
(* that returned nothing usable; the wall clock is left out (updated_unix  *)
(* only grows and nothing is decided on it) except that it may be          *)
(* unavailable; file identity checks (symlinks, hard links, owners) are    *)
(* left out because no program of the repository replaces these files.     *)
(***************************************************************************)
EXTENDS Integers

CONSTANTS
    Clients,        \* the SharedResourceEpoch objects and epoch operators
    MinimumFree,    \* MINIMUM_FREE_PERCENT
    MaximumGrowth,  \* MAXIMUM_SWAP_GROWTH_MIB
    FreeReadings,   \* readings of the free-memory sensor
    SwapReadings,   \* readings of the swap sensor
    InitialEpochs,  \* arguments an operator may call initialize_epoch with
    MaxRevision     \* bound: number of records of a behaviour

Unread == -1        \* None: the sensor had no usable value

NoClient == "no client"

ASSUME EpochAssumption ==
    /\ NoClient \notin Clients
    /\ MinimumFree \in Nat
    /\ MaximumGrowth \in Nat
    /\ FreeReadings \subseteq Nat
    /\ SwapReadings \subseteq Nat
    /\ InitialEpochs \subseteq
          [baseline : Nat, peak : Nat, blockedReason : {"none", "operator"}]
    /\ MaxRevision \in Nat

VARIABLES
    lockFile,    \* the ".lock" file exists
    journal,     \* what the journal path holds: "absent", "empty" (reserved), "state"
    state,       \* the journal's content while journal = "state"
    pending,     \* the ".pending" file exists
    flock,       \* holder of the exclusive flock, or NoClient
    pc,          \* where each client is inside record() or initialize_epoch()
    candidate,   \* the successor state a client computed and has not adopted
    snapshot,    \* SharedResourceEpoch.snapshot (revision -1: None)
    error,       \* SharedResourceEpoch.error is set
    result,      \* outcome of the client's last record(): "none", "ok", "raised"
    writeFailed, \* history: some commit failed or was interrupted half way
    markerLost   \* history: storage refused the denial marker of a failed commit

vars == <<lockFile, journal, state, pending, flock, pc, candidate,
          snapshot, error, result, writeFailed, markerLost>>

durable == <<lockFile, journal, state, pending>>
cache   == <<snapshot, error, result>>
history == <<writeFailed, markerLost>>

Reasons  == {"none", "reading_unavailable", "free_below_limit",
             "swap_growth_above_limit", "clock_unavailable", "operator"}
Steps    == {"idle", "created_lock", "stage", "rename", "sync", "adopt", "reread"}

Maximum(a, b) == IF a >= b THEN a ELSE b
Minimum(a, b) == IF a <= b THEN a ELSE b

\* The minimum of two optional readings: "min(minima) if minima else None".
KnownMinimum(a, b) ==
    IF a = Unread THEN b ELSE IF b = Unread THEN a ELSE Minimum(a, b)

EpochState == [baseline : Nat, peak : Nat, minFree : Nat \cup {Unread},
               lastFree : Nat \cup {Unread}, lastSwap : Nat \cup {Unread},
               sampled : BOOLEAN, valid : BOOLEAN,
               blocked : Reasons, revision : Nat \cup {-1}]

NoState == [baseline |-> 0, peak |-> 0, minFree |-> Unread,
            lastFree |-> Unread, lastSwap |-> Unread, sampled |-> FALSE,
            valid |-> FALSE, blocked |-> "none", revision |-> -1]

\* The state initialize_epoch writes; an operator may create it already latched.
FreshState(e) ==
    [baseline |-> e.baseline, peak |-> e.peak, minFree |-> Unread,
     lastFree |-> Unread, lastSwap |-> Unread, sampled |-> FALSE, valid |-> FALSE,
     blocked  |-> IF e.blockedReason = "none" /\ e.peak > MaximumGrowth
                  THEN "swap_growth_above_limit" ELSE e.blockedReason,
     revision |-> 0]

\* Mutants of Recorded: the last growth instead of the peak; the minimum taken over
\* a missing value; the latest reason replaces the first latch.
RecordedLastGrowth(s, free, swap, clock) ==
    [s EXCEPT !.peak = swap - s.baseline, !.minFree = KnownMinimum(s.minFree, free),
              !.lastFree = free, !.lastSwap = swap,
              !.sampled = TRUE, !.valid = (free # Unread /\ swap # Unread),
              !.blocked = "reading_unavailable", !.revision = s.revision + 1]

RecordedMinimumOfNone(s, free, swap, clock) ==
    [s EXCEPT !.minFree = Minimum(s.minFree, free), !.lastFree = free, !.lastSwap = swap,
              !.peak = Maximum(s.peak, swap - s.baseline),
              !.sampled = TRUE, !.valid = (free # Unread /\ swap # Unread),
              !.blocked = "reading_unavailable", !.revision = s.revision + 1]

RecordedLatestReason(s, free, swap, clock) ==
    [s EXCEPT !.minFree = KnownMinimum(s.minFree, free), !.lastFree = free,
              !.peak = IF swap # Unread THEN Maximum(s.peak, swap - s.baseline) ELSE s.peak,
              !.lastSwap = swap,
              !.sampled = TRUE, !.valid = (free # Unread /\ swap # Unread),
              !.blocked = IF free = Unread \/ swap = Unread THEN "reading_unavailable"
                          ELSE IF free < MinimumFree THEN "free_below_limit"
                          ELSE IF swap - s.baseline > MaximumGrowth
                          THEN "swap_growth_above_limit" ELSE @,
              !.revision = s.revision + 1]

\* What record_resources makes of a validated state and one reading.
Recorded(s, free, swap, clock) ==
    LET peak   == IF swap # Unread THEN Maximum(s.peak, swap - s.baseline) ELSE s.peak
        reason == IF free = Unread \/ swap = Unread THEN "reading_unavailable"
                  ELSE IF free < MinimumFree THEN "free_below_limit"
                  ELSE IF peak > MaximumGrowth THEN "swap_growth_above_limit"
                  ELSE "none"
        \* An unavailable clock replaces the reason of the reading itself.
        fresh  == IF clock THEN reason ELSE "clock_unavailable"
    IN [baseline |-> s.baseline, peak |-> peak,
        minFree  |-> KnownMinimum(s.minFree, free),
        lastFree |-> free, lastSwap |-> swap,
        sampled  |-> TRUE, valid |-> (free # Unread /\ swap # Unread),
        blocked  |-> IF s.blocked # "none" THEN s.blocked ELSE fresh,
        revision |-> s.revision + 1]

\* _validate: what a reader accepts as a journal, beyond its types.
Valid(s) ==
    /\ s.revision >= 0
    /\ s.valid => s.lastFree # Unread /\ s.lastSwap # Unread
    /\ s.sampled <=> s.revision > 0
    /\ ~s.sampled => /\ ~s.valid
                     /\ s.lastFree = Unread /\ s.lastSwap = Unread
                     /\ s.minFree = Unread
    /\ s.sampled /\ ~s.valid => s.lastFree = Unread \/ s.lastSwap = Unread
    /\ s.lastFree # Unread => s.minFree # Unread /\ s.minFree <= s.lastFree
    /\ s.lastSwap # Unread => s.peak >= s.lastSwap - s.baseline
    /\ s.blocked = "none" => /\ s.peak <= MaximumGrowth
                             /\ s.minFree # Unread => s.minFree >= MinimumFree
                             /\ s.sampled => s.valid

\* SharedResourceEpoch._adopt: an older completion never lowers a peak, clears
\* the first latch or replaces a newer sample.
Adopted(old, new) ==
    IF old.revision = -1 THEN new
    ELSE [(IF new.revision < old.revision THEN old ELSE new) EXCEPT
            !.peak = Maximum(old.peak, new.peak),
            !.minFree = KnownMinimum(old.minFree, new.minFree),
            !.blocked = IF old.blocked # "none" THEN old.blocked ELSE new.blocked]

-----------------------------------------------------------------------------
Init ==
    /\ lockFile = FALSE /\ journal = "absent" /\ pending = FALSE
    /\ state = NoState
    /\ flock = NoClient
    /\ pc = [c \in Clients |-> "idle"]
    /\ candidate = [c \in Clients |-> NoState]
    /\ snapshot = [c \in Clients |-> NoState]
    /\ error = [c \in Clients |-> FALSE]
    /\ result = [c \in Clients |-> "none"]
    /\ writeFailed = FALSE /\ markerLost = FALSE

\* initialize_epoch: refuse any existing file, create the lock file exclusively.
InitializeLock(c) ==
    /\ pc[c] = "idle"
    /\ ~lockFile /\ journal = "absent" /\ ~pending
    /\ lockFile' = TRUE
    /\ pc' = [pc EXCEPT ![c] = "created_lock"]
    /\ UNCHANGED <<journal, state, pending, flock, candidate, cache, history>>

\* ... take the flock and reserve an empty journal.
InitializeReserve(c) ==
    /\ pc[c] = "created_lock" /\ flock = NoClient /\ ~pending
    /\ flock' = c
    /\ journal' = "empty"
    /\ \E e \in InitialEpochs : candidate' = [candidate EXCEPT ![c] = FreshState(e)]
    /\ pc' = [pc EXCEPT ![c] = "stage"]
    /\ UNCHANGED <<lockFile, state, pending, cache, history>>

\* _locked and _read accept the files: no denial marker, a complete journal.
Readable == lockFile /\ ~pending /\ journal = "state" /\ Valid(state)

\* record_resources up to the staged write: take the flock, refuse a denial
\* marker or a journal that is not a validated state, compute the successor and
\* validate it too.
RecordBegin(c, free, swap, clock) ==
    /\ pc[c] = "idle" /\ flock = NoClient
    /\ state.revision < MaxRevision
    /\ IF Readable /\ Valid(Recorded(state, free, swap, clock))
       THEN /\ flock' = c
            /\ candidate' = [candidate EXCEPT ![c] = Recorded(state, free, swap, clock)]
            /\ pc' = [pc EXCEPT ![c] = "stage"]
       ELSE /\ pc' = [pc EXCEPT ![c] = "reread"]
            /\ UNCHANGED <<flock, candidate>>
    /\ result' = [result EXCEPT ![c] = "none"]
    /\ UNCHANGED <<durable, snapshot, error, history>>

\* The bounded wait for the flock ran out while another client worked.
RecordLockTimeout(c) ==
    /\ pc[c] = "idle" /\ lockFile /\ flock \notin {NoClient, c}
    /\ pc' = [pc EXCEPT ![c] = "reread"]
    /\ result' = [result EXCEPT ![c] = "none"]
    /\ UNCHANGED <<durable, flock, candidate, snapshot, error, history>>

\* _write: create the pending file exclusively, write and fsync it.
Stage(c) ==
    /\ pc[c] = "stage"
    /\ pending' = TRUE
    /\ pc' = [pc EXCEPT ![c] = "rename"]
    /\ UNCHANGED <<lockFile, journal, state, flock, candidate, cache, history>>

\* _write: the pending file replaces the journal.
Rename(c) ==
    /\ pc[c] = "rename"
    /\ pending' = FALSE
    /\ journal' = "state" /\ state' = candidate[c]
    /\ pc' = [pc EXCEPT ![c] = "sync"]
    /\ UNCHANGED <<lockFile, flock, candidate, cache, history>>

\* initialize_epoch is called by an operator, not through a cache: its caller is
\* the one whose candidate is revision 0, and it is simply done afterwards.
Initializing(c) == candidate[c].revision = 0

\* The directory fsync succeeded: the flock is released, and the call returns the
\* new state or, when the state is latched, raises EpochError with it.
SyncDirectory(c) ==
    /\ pc[c] = "sync"
    /\ flock' = NoClient
    /\ pc' = [pc EXCEPT ![c] = IF Initializing(c) THEN "idle"
                              ELSE IF candidate[c].blocked = "none" THEN "adopt"
                              ELSE "reread"]
    /\ UNCHANGED <<durable, candidate, cache, history>>

\* Mutant of CommitFails: the error path tidies its temporary file away.
CommitFailsTidily(c) ==
    /\ pc[c] \in {"stage", "rename", "sync"}
    /\ pending' = FALSE
    /\ writeFailed' = TRUE
    /\ flock' = NoClient
    /\ pc' = [pc EXCEPT ![c] = IF candidate[c].revision = 0 THEN "idle" ELSE "reread"]
    /\ UNCHANGED <<lockFile, journal, state, candidate, cache, markerLost>>

\* A failed commit step of _write.  The pending file stays, or is recreated best
\* effort by _preserve_failure_marker; only storage that also refuses the marker
\* loses it.  Staging can fail before the pending file exists.
CommitFails(c) ==
    /\ pc[c] \in {"stage", "rename", "sync"}
    /\ \/ pending' = TRUE /\ UNCHANGED markerLost
       \/ /\ pc[c] \in {"stage", "sync"}
          /\ pending' = FALSE /\ markerLost' = TRUE
    /\ writeFailed' = TRUE
    /\ flock' = NoClient
    /\ pc' = [pc EXCEPT ![c] = IF Initializing(c) THEN "idle" ELSE "reread"]
    /\ UNCHANGED <<lockFile, journal, state, candidate, cache>>

\* SharedResourceEpoch.record after a successful write: adopt what was written.
\* record() raises whenever the sticky error is set, whatever this call did.
Adopt(c) ==
    /\ pc[c] = "adopt"
    /\ LET now == Adopted(snapshot[c], candidate[c])
           bad == error[c] \/ ~candidate[c].valid \/ now.blocked # "none"
       IN /\ snapshot' = [snapshot EXCEPT ![c] = now]
          /\ error' = [error EXCEPT ![c] = bad]
          /\ result' = [result EXCEPT ![c] = IF bad THEN "raised" ELSE "ok"]
    /\ pc' = [pc EXCEPT ![c] = "idle"]
    /\ candidate' = [candidate EXCEPT ![c] = NoState]
    /\ UNCHANGED <<durable, flock, history>>

\* Mutants of Reread: the candidate of the failed write is adopted; a journal that
\* can be read again is taken for success.
RereadCandidate(c) ==
    /\ pc[c] = "reread"
    /\ snapshot' = [snapshot EXCEPT ![c] = Adopted(@, candidate[c])]
    /\ error' = [error EXCEPT ![c] = TRUE]
    /\ result' = [result EXCEPT ![c] = "raised"]
    /\ pc' = [pc EXCEPT ![c] = "idle"]
    /\ candidate' = [candidate EXCEPT ![c] = NoState]
    /\ UNCHANGED <<durable, flock, history>>

RereadForgives(c) ==
    /\ pc[c] = "reread" /\ flock = NoClient /\ Readable
    /\ snapshot' = [snapshot EXCEPT ![c] = Adopted(@, state)]
    /\ result' = [result EXCEPT ![c] = "ok"]
    /\ pc' = [pc EXCEPT ![c] = "idle"]
    /\ candidate' = [candidate EXCEPT ![c] = NoState]
    /\ UNCHANGED <<durable, flock, error, history>>

\* SharedResourceEpoch.record after an EpochError: only a fresh read_epoch may
\* attest a snapshot, never the candidate of the failed write.
Reread(c) ==
    /\ pc[c] = "reread"
    /\ \/ /\ flock = NoClient /\ Readable
          /\ snapshot' = [snapshot EXCEPT ![c] = Adopted(@, state)]
       \/ UNCHANGED snapshot      \* read_epoch failed as well
    /\ error' = [error EXCEPT ![c] = TRUE]
    /\ result' = [result EXCEPT ![c] = "raised"]
    /\ pc' = [pc EXCEPT ![c] = "idle"]
    /\ candidate' = [candidate EXCEPT ![c] = NoState]
    /\ UNCHANGED <<durable, flock, history>>

\* The client's process dies: the kernel drops its flock, files stay as they are,
\* and a restarted client begins with an empty cache.
Crash(c) ==
    /\ flock' = IF flock = c THEN NoClient ELSE flock
    /\ writeFailed' = (writeFailed \/ pc[c] = "rename")
    /\ pc' = [pc EXCEPT ![c] = "idle"]
    /\ candidate' = [candidate EXCEPT ![c] = NoState]
    /\ snapshot' = [snapshot EXCEPT ![c] = NoState]
    /\ error' = [error EXCEPT ![c] = FALSE]
    /\ result' = [result EXCEPT ![c] = "none"]
    /\ UNCHANGED <<durable, markerLost>>

Record(c) ==
    \/ \E free \in FreeReadings \cup {Unread}, swap \in SwapReadings \cup {Unread},
          clock \in BOOLEAN : RecordBegin(c, free, swap, clock)
    \/ RecordLockTimeout(c)

Initialize(c) == InitializeLock(c) \/ InitializeReserve(c)

Next ==
    \E c \in Clients :
        \/ Initialize(c) \/ Record(c)
        \/ Stage(c) \/ Rename(c) \/ SyncDirectory(c) \/ CommitFails(c)
        \/ Adopt(c) \/ Reread(c) \/ Crash(c)

Spec == Init /\ [][Next]_vars

-----------------------------------------------------------------------------
\* Types of the files, the clients' caches and their calls.
TypeOK ==
    /\ lockFile \in BOOLEAN /\ pending \in BOOLEAN
    /\ journal \in {"absent", "empty", "state"}
    /\ state \in EpochState
    /\ flock \in Clients \cup {NoClient}
    /\ pc \in [Clients -> Steps]
    /\ candidate \in [Clients -> EpochState]
    /\ snapshot \in [Clients -> EpochState]
    /\ error \in [Clients -> BOOLEAN]
    /\ result \in [Clients -> {"none", "ok", "raised"}]
    /\ writeFailed \in BOOLEAN /\ markerLost \in BOOLEAN

\* Whatever the readings, the clock and the interleaving, the journal on disk is
\* one that the next record accepts, and what record_resources computes from it
\* is accepted again (_validate is called on both sides of every write): a
\* fail-closed journal that no reading can brick.
JournalStaysRecordable ==
    journal = "state" =>
        /\ Valid(state)
        /\ \A free \in FreeReadings \cup {Unread}, swap \in SwapReadings \cup {Unread},
              clock \in BOOLEAN : Valid(Recorded(state, free, swap, clock))

\* A commit that failed, or that a crash cut between staging and rename, closes
\* the epoch: as long as storage kept the denial marker, no later call of any
\* client changes the journal or removes the marker ("Never retry, remove it,
\* reset or restore an old state").
FailureFreezes ==
    [][writeFailed /\ ~markerLost => pending' /\ UNCHANGED <<journal, state>>]_vars

\* The journal only ever moves towards denial: the baseline is fixed, the peak and
\* the observed minimum are extreme values, the first latch stays, and revisions
\* grow by one, also when two clients race or a client restarts half way.
NoLaxer(s, t) ==
    /\ t.baseline = s.baseline
    /\ t.peak >= s.peak
    /\ s.minFree # Unread => t.minFree # Unread /\ t.minFree <= s.minFree
    /\ s.blocked # "none" => t.blocked = s.blocked
    /\ t # s => t.revision = s.revision + 1

TowardsDenial ==
    [][journal = "state" => journal' = "state" /\ NoLaxer(state, state')]_vars

\* A cache never runs ahead of the disk: what a client believes was committed, and
\* a latch or a peak it knows is on the disk too.  A failed write leaves an
\* uncommitted candidate behind, which must not reach the cache.
CachesFollowTheJournal ==
    \A c \in Clients :
        /\ snapshot[c].revision <= state.revision
        /\ snapshot[c].revision >= 0 =>
              /\ snapshot[c].baseline = state.baseline
              /\ snapshot[c].peak <= state.peak
              /\ snapshot[c].blocked # "none" => snapshot[c].blocked = state.blocked

\* record() returns normally only on evidence within the limits: a committed valid
\* sample, no latch up to that revision, peak and lowest reading inside bounds.
AdmittedWithinLimits ==
    \A c \in Clients : result[c] = "ok" =>
        /\ 0 < snapshot[c].revision /\ snapshot[c].revision <= state.revision
        /\ snapshot[c].valid /\ snapshot[c].blocked = "none"
        /\ snapshot[c].peak <= MaximumGrowth
        /\ MinimumFree <= snapshot[c].minFree
        /\ (state.blocked # "none" /\ state.revision > 0) =>
              snapshot[c].revision < state.revision
=============================================================================
