------------------------ MODULE ResourceEpochProofs ------------------------
(***************************************************************************)
(* What ResourceEpoch promises for every number of clients, every limit    *)
(* and every set of readings: types, a journal that stays recordable, a    *)
(* failed commit that closes the epoch for good, and a journal that only   *)
(* moves towards denial.                                                   *)
(***************************************************************************)
EXTENDS ResourceEpoch, TLAPS

Reading == Nat \cup {Unread}

\* A reading turns an epoch state into an epoch state.
LEMMA RecordedType ==
    ASSUME NEW s \in EpochState, s.revision >= 0,
           NEW free \in Reading, NEW swap \in Reading, NEW clock \in BOOLEAN
    PROVE  /\ Recorded(s, free, swap, clock) \in EpochState
           /\ Recorded(s, free, swap, clock).revision = s.revision + 1
  BY EpochAssumption
     DEF Recorded, EpochState, Reading, Reasons, Unread, Maximum, Minimum, KnownMinimum

\* _validate accepts what record_resources computes from a validated state.
LEMMA RecordedValid ==
    ASSUME NEW s \in EpochState, Valid(s),
           NEW free \in Reading, NEW swap \in Reading, NEW clock \in BOOLEAN
    PROVE  Valid(Recorded(s, free, swap, clock))
<1> DEFINE t == Recorded(s, free, swap, clock)
<1>1. /\ s.baseline \in Nat /\ s.peak \in Nat /\ s.revision \in Nat
      /\ s.minFree \in Reading
  BY DEF EpochState, Valid, Reading, Unread
<1>2. /\ t.baseline = s.baseline
      /\ t.peak = (IF swap # Unread THEN Maximum(s.peak, swap - s.baseline) ELSE s.peak)
      /\ t.minFree = KnownMinimum(s.minFree, free)
      /\ t.lastFree = free /\ t.lastSwap = swap
      /\ t.sampled /\ (t.valid <=> free # Unread /\ swap # Unread)
      /\ t.revision = s.revision + 1
  BY DEF Recorded
<1>3. ASSUME t.blocked = "none"
      PROVE  /\ s.blocked = "none" /\ free # Unread /\ swap # Unread
             /\ free >= MinimumFree /\ t.peak <= MaximumGrowth
  <2>1. s.blocked = "none" /\ free # Unread /\ swap # Unread
    BY <1>3 DEF Recorded
  <2>2. ~(free < MinimumFree) /\ ~(t.peak > MaximumGrowth)
    BY <1>3, <2>1 DEF Recorded
  <2> QED BY <2>1, <2>2, <1>1, <1>2, EpochAssumption DEF Reading, Unread, Maximum
<1> HIDE DEF t
<1>4. /\ free # Unread => t.minFree # Unread /\ t.minFree <= free
      /\ s.minFree # Unread /\ s.minFree >= MinimumFree /\ free >= MinimumFree
            => t.minFree >= MinimumFree
  BY <1>1, <1>2, EpochAssumption DEF KnownMinimum, Minimum, Reading, Unread
<1>5. swap # Unread => t.peak >= swap - s.baseline
  BY <1>1, <1>2 DEF Maximum, Reading, Unread
<1>6. ASSUME t.blocked = "none" PROVE t.minFree >= MinimumFree
  <2>1. s.blocked = "none" /\ free >= MinimumFree
    BY <1>3, <1>6
  <2>2. CASE s.minFree = Unread
    BY <2>1, <2>2, <1>2 DEF KnownMinimum
  <2>3. CASE s.minFree # Unread
    <3>1. s.minFree >= MinimumFree
      BY <2>1, <2>3 DEF Valid
    <3> QED BY <2>1, <2>3, <3>1, <1>4
  <2> QED BY <2>2, <2>3
<1>7. Valid(t)
  BY <1>1, <1>2, <1>3, <1>4, <1>5, <1>6 DEF Valid, Reading, Unread
<1> QED BY <1>7 DEF t

\* initialize_epoch writes a typed state that _validate accepts.
LEMMA FreshStateValid ==
    ASSUME NEW e \in InitialEpochs
    PROVE  /\ FreshState(e) \in EpochState
           /\ FreshState(e).revision = 0
           /\ Valid(FreshState(e))
  BY EpochAssumption DEF FreshState, NoState, EpochState, Reasons, Unread, Valid

LEMMA NoStateType == NoState \in EpochState
  BY DEF NoState, EpochState, Reasons, Unread

LEMMA AdoptedType ==
    ASSUME NEW old \in EpochState, NEW new \in EpochState
    PROVE  Adopted(old, new) \in EpochState
<1>1. Maximum(old.peak, new.peak) \in Nat
  BY DEF EpochState, Maximum
<1>2. KnownMinimum(old.minFree, new.minFree) \in Nat \cup {Unread}
  BY DEF EpochState, KnownMinimum, Minimum, Unread
<1>3. (IF old.blocked # "none" THEN old.blocked ELSE new.blocked) \in Reasons
  BY DEF EpochState
<1> QED BY <1>1, <1>2, <1>3 DEF Adopted, EpochState

-----------------------------------------------------------------------------
(* The inductive invariant                                                 *)

Committing == {"stage", "rename", "sync"}

\* The flock is held exactly by the client between its read and its commit.
Exclusive == \A c \in Clients : pc[c] \in Committing <=> flock = c

\* The pending file exists exactly between staging and rename, or it is the denial
\* marker of a failed commit, and then nobody is inside the critical section.
Marker ==
    /\ \A c \in Clients : pc[c] = "rename" => pending
    /\ writeFailed /\ ~markerLost => pending /\ flock = NoClient

\* One initialisation per set of files: the lock file is created once, and the
\* journal is still absent when its creator reserves it.
Creation ==
    /\ ~lockFile => journal = "absent" /\ flock = NoClient
    /\ \A c \in Clients : pc[c] = "created_lock" => lockFile /\ journal = "absent"
    /\ \A c, d \in Clients : pc[c] = "created_lock" /\ pc[d] = "created_lock" => c = d

\* What a client is about to commit is valid, and it succeeds the journal that is on
\* disk now: nobody else has written since the client read it.
Candidates ==
    \A c \in Clients : pc[c] \in {"stage", "rename"} =>
        /\ Valid(candidate[c])
        /\ \/ candidate[c].revision = 0 /\ journal = "empty"
           \/ journal = "state" /\ NoLaxer(state, candidate[c])

JournalValid == journal = "state" => Valid(state)

IInv == TypeOK /\ Exclusive /\ Marker /\ Creation /\ Candidates /\ JournalValid

-----------------------------------------------------------------------------
(* Types                                                                   *)

LEMMA TypeInit == Init => TypeOK
  BY NoStateType, EpochAssumption DEF Init, TypeOK, Steps

LEMMA TypeStep == TypeOK /\ [Next]_vars => TypeOK'
<1> SUFFICES ASSUME TypeOK, [Next]_vars PROVE TypeOK'
  OBVIOUS
<1> USE DEF TypeOK, Steps
<1>1. ASSUME NEW c \in Clients, Initialize(c) PROVE TypeOK'
  <2>1. CASE InitializeLock(c)
    BY <2>1 DEF InitializeLock, cache, history
  <2>2. CASE InitializeReserve(c)
    <3>1. PICK e \in InitialEpochs :
             candidate' = [candidate EXCEPT ![c] = FreshState(e)]
      BY <2>2 DEF InitializeReserve
    <3>2. FreshState(e) \in EpochState
      BY FreshStateValid
    <3> QED BY <2>2, <3>1, <3>2 DEF InitializeReserve, cache, history
  <2> QED BY <1>1, <2>1, <2>2 DEF Initialize
<1>2. ASSUME NEW c \in Clients, Record(c) PROVE TypeOK'
  <2>1. ASSUME NEW free \in FreeReadings \cup {Unread},
               NEW swap \in SwapReadings \cup {Unread}, NEW clock \in BOOLEAN,
               RecordBegin(c, free, swap, clock)
        PROVE  TypeOK'
    <3>1. CASE Readable /\ Valid(Recorded(state, free, swap, clock))
      <4>1. free \in Reading /\ swap \in Reading /\ state.revision >= 0
        BY <3>1, EpochAssumption DEF Reading, Readable, Valid
      <4>2. Recorded(state, free, swap, clock) \in EpochState
        BY <4>1, RecordedType
      <4> QED BY <2>1, <3>1, <4>2 DEF RecordBegin, durable, history
    <3>2. CASE ~(Readable /\ Valid(Recorded(state, free, swap, clock)))
      BY <2>1, <3>2 DEF RecordBegin, durable, history
    <3> QED BY <3>1, <3>2
  <2>2. CASE RecordLockTimeout(c)
    BY <2>2 DEF RecordLockTimeout, durable, history
  <2> QED BY <1>2, <2>1, <2>2 DEF Record
<1>3. ASSUME NEW c \in Clients, Stage(c) PROVE TypeOK'
  BY <1>3 DEF Stage, cache, history
<1>4. ASSUME NEW c \in Clients, Rename(c) PROVE TypeOK'
  BY <1>4 DEF Rename, cache, history
<1>5. ASSUME NEW c \in Clients, SyncDirectory(c) PROVE TypeOK'
  BY <1>5 DEF SyncDirectory, durable, cache, history
<1>6. ASSUME NEW c \in Clients, CommitFails(c) PROVE TypeOK'
  BY <1>6 DEF CommitFails, cache
<1>7. ASSUME NEW c \in Clients, Adopt(c) PROVE TypeOK'
  <2>1. Adopted(snapshot[c], candidate[c]) \in EpochState
    BY AdoptedType
  <2>2. /\ snapshot' = [snapshot EXCEPT ![c] = Adopted(snapshot[c], candidate[c])]
        /\ error' \in [Clients -> BOOLEAN]
        /\ result' \in [Clients -> {"none", "ok", "raised"}]
    BY <1>7 DEF Adopt, EpochState
  <2> QED BY <1>7, <2>1, <2>2, NoStateType DEF Adopt, durable, history
<1>8. ASSUME NEW c \in Clients, Reread(c) PROVE TypeOK'
  <2>1. Adopted(snapshot[c], state) \in EpochState
    BY AdoptedType
  <2> QED BY <1>8, <2>1, NoStateType DEF Reread, durable, history
<1>9. ASSUME NEW c \in Clients, Crash(c) PROVE TypeOK'
  BY <1>9, NoStateType DEF Crash, durable
<1>10. CASE UNCHANGED vars
  BY <1>10 DEF vars
<1> QED BY <1>1, <1>2, <1>3, <1>4, <1>5, <1>6, <1>7, <1>8, <1>9, <1>10 DEF Next

\* Every step of every client, crashes and failed commits included, keeps the files,
\* the caches and the program counters within their types.
THEOREM TypeCorrect == Spec => []TypeOK
<1> QED BY TypeInit, TypeStep, PTL DEF Spec

-----------------------------------------------------------------------------
(* Commit discipline                                                       *)

\* What record_resources computes is never laxer than what it read.
LEMMA RecordedNoLaxer ==
    ASSUME NEW s \in EpochState, s.revision >= 0,
           NEW free \in Reading, NEW swap \in Reading, NEW clock \in BOOLEAN
    PROVE  NoLaxer(s, Recorded(s, free, swap, clock))
  BY EpochAssumption
     DEF Recorded, EpochState, Reading, Unread, Maximum, Minimum, KnownMinimum, NoLaxer

LEMMA InvInit == Init => IInv
  BY TypeInit, EpochAssumption
     DEF Init, IInv, Exclusive, Marker, Creation, Candidates, JournalValid, Committing

LEMMA InvStep == IInv /\ [Next]_vars => IInv'
<1> SUFFICES ASSUME IInv, [Next]_vars PROVE IInv'
  OBVIOUS
<1>0. TypeOK' /\ TypeOK
  BY TypeStep DEF IInv
<1> DEFINE Rest == Exclusive /\ Marker /\ Creation /\ Candidates /\ JournalValid
<1> USE <1>0, EpochAssumption
        DEF IInv, TypeOK, Exclusive, Marker, Creation, Candidates, JournalValid, Committing
<1>1. ASSUME NEW c \in Clients, Initialize(c) PROVE Rest'
  <2>1. CASE InitializeLock(c)
    BY <2>1 DEF InitializeLock, cache, history
  <2>2. CASE InitializeReserve(c)
    <3>1. PICK e \in InitialEpochs :
             candidate' = [candidate EXCEPT ![c] = FreshState(e)]
      BY <2>2 DEF InitializeReserve
    <3>2. candidate'[c].revision = 0 /\ Valid(candidate'[c])
      BY <3>1, FreshStateValid
    <3> QED BY <2>2, <3>1, <3>2 DEF InitializeReserve, cache, history
  <2> QED BY <1>1, <2>1, <2>2 DEF Initialize
<1>2. ASSUME NEW c \in Clients, Record(c) PROVE Rest'
  <2>1. ASSUME NEW free \in FreeReadings \cup {Unread},
               NEW swap \in SwapReadings \cup {Unread}, NEW clock \in BOOLEAN,
               RecordBegin(c, free, swap, clock)
        PROVE  Rest'
    <3>1. CASE Readable /\ Valid(Recorded(state, free, swap, clock))
      <4>1. free \in Reading /\ swap \in Reading /\ state.revision >= 0
        BY <3>1 DEF Reading, Readable, Valid
      <4>2. candidate' = [candidate EXCEPT ![c] = Recorded(state, free, swap, clock)]
        BY <2>1, <3>1 DEF RecordBegin
      <4>3. NoLaxer(state, candidate'[c]) /\ Valid(candidate'[c])
        BY <4>1, <4>2, <3>1, RecordedNoLaxer
      <4> QED BY <2>1, <3>1, <4>2, <4>3 DEF RecordBegin, Readable, durable, history
    <3>2. CASE ~(Readable /\ Valid(Recorded(state, free, swap, clock)))
      BY <2>1, <3>2 DEF RecordBegin, durable, history
    <3> QED BY <3>1, <3>2
  <2>2. CASE RecordLockTimeout(c)
    BY <2>2 DEF RecordLockTimeout, durable, history
  <2> QED BY <1>2, <2>1, <2>2 DEF Record
<1>3. ASSUME NEW c \in Clients, Stage(c) PROVE Rest'
  BY <1>3 DEF Stage, cache, history
<1>4. ASSUME NEW c \in Clients, Rename(c) PROVE Rest'
  BY <1>4 DEF Rename, cache, history
<1>5. ASSUME NEW c \in Clients, SyncDirectory(c) PROVE Rest'
  BY <1>5 DEF SyncDirectory, durable, cache, history
<1>6. ASSUME NEW c \in Clients, CommitFails(c) PROVE Rest'
  BY <1>6 DEF CommitFails, cache
<1>7. ASSUME NEW c \in Clients, Adopt(c) PROVE Rest'
  BY <1>7 DEF Adopt, durable, history
<1>8. ASSUME NEW c \in Clients, Reread(c) PROVE Rest'
  BY <1>8 DEF Reread, durable, history
<1>9. ASSUME NEW c \in Clients, Crash(c) PROVE Rest'
  BY <1>9 DEF Crash, durable
<1>10. CASE UNCHANGED vars
  BY <1>10 DEF vars
<1> QED BY <1>1, <1>2, <1>3, <1>4, <1>5, <1>6, <1>7, <1>8, <1>9, <1>10 DEF Next

LEMMA Invariant == Spec => []IInv
<1> QED BY InvInit, InvStep, PTL DEF Spec

-----------------------------------------------------------------------------
(* The properties of the runs, for every instance                          *)

\* No reading can brick the journal: it is always one that _read accepts, and what
\* record_resources makes of it is accepted again.
THEOREM AlwaysRecordable == Spec => []JournalStaysRecordable
<1>1. IInv => JournalStaysRecordable
  <2> SUFFICES ASSUME IInv, journal = "state",
                      NEW free \in FreeReadings \cup {Unread},
                      NEW swap \in SwapReadings \cup {Unread}, NEW clock \in BOOLEAN
               PROVE  Valid(state) /\ Valid(Recorded(state, free, swap, clock))
    BY DEF JournalStaysRecordable, IInv, JournalValid
  <2>1. free \in Reading /\ swap \in Reading /\ state \in EpochState /\ Valid(state)
    BY EpochAssumption DEF Reading, IInv, TypeOK, JournalValid
  <2> QED BY <2>1, RecordedValid
<1> QED BY <1>1, Invariant, PTL

\* After a failed or interrupted commit the journal and its denial marker never
\* change again, whatever the other clients do.
THEOREM FailureIsFinal == Spec => FailureFreezes
<1>1. IInv /\ [Next]_vars =>
        [writeFailed /\ ~markerLost => pending' /\ UNCHANGED <<journal, state>>]_vars
  <2> SUFFICES ASSUME IInv, Next, writeFailed, ~markerLost
               PROVE  pending' /\ UNCHANGED <<journal, state>>
    OBVIOUS
  <2>1. /\ pending /\ flock = NoClient
        /\ \A c \in Clients : pc[c] \notin Committing
    BY EpochAssumption DEF IInv, Marker, Exclusive
  <2> QED BY <2>1 DEF Next, Initialize, InitializeLock, InitializeReserve, Record,
            RecordBegin, RecordLockTimeout, Readable, Stage, Rename, SyncDirectory,
            CommitFails, Adopt, Reread, Crash, Committing, durable
<1> QED BY <1>1, Invariant, PTL DEF Spec, FailureFreezes

\* A step either leaves the journal's content alone or is a rename, which commits a
\* successor that is no laxer.
LEMMA JournalStep ==
    IInv /\ [Next]_vars /\ journal = "state"
        => journal' = "state" /\ NoLaxer(state, state')
<1> SUFFICES ASSUME IInv, [Next]_vars, journal = "state"
             PROVE  journal' = "state" /\ NoLaxer(state, state')
  OBVIOUS
<1>1. NoLaxer(state, state)
  BY DEF IInv, TypeOK, EpochState, NoLaxer, Unread
<1>2. ASSUME NEW c \in Clients, Rename(c)
      PROVE  journal' = "state" /\ NoLaxer(state, state')
  BY <1>2 DEF Rename, IInv, Candidates
<1>3. ASSUME NEW c \in Clients, InitializeReserve(c) PROVE FALSE
  BY <1>3 DEF InitializeReserve, IInv, Creation
<1>4. ASSUME NEW c \in Clients,
             \/ InitializeLock(c) \/ Record(c) \/ Stage(c) \/ SyncDirectory(c)
             \/ CommitFails(c) \/ Adopt(c) \/ Reread(c) \/ Crash(c)
      PROVE  UNCHANGED <<journal, state>>
  BY <1>4 DEF InitializeLock, Record, RecordBegin, RecordLockTimeout, Stage,
       SyncDirectory, CommitFails, Adopt, Reread, Crash, durable
<1>5. CASE UNCHANGED vars
  BY <1>1, <1>5 DEF vars
<1> QED BY <1>1, <1>2, <1>3, <1>4, <1>5 DEF Next, Initialize

\* No interleaving of records, failures and restarts loosens the journal.
THEOREM OnlyTowardsDenial == Spec => TowardsDenial
<1>1. IInv /\ [Next]_vars =>
        [journal = "state" => journal' = "state" /\ NoLaxer(state, state')]_vars
  BY JournalStep
<1> QED BY <1>1, Invariant, PTL DEF Spec, TowardsDenial

-----------------------------------------------------------------------------
(* The caches                                                              *)

\* State t of the journal is not behind s, and has moved on if it is latched and s
\* is not.
Behind(s, t) ==
    /\ s.revision <= t.revision
    /\ s.baseline = t.baseline
    /\ s.peak <= t.peak
    /\ s.blocked # "none" => s.blocked = t.blocked
    /\ s.blocked = "none" /\ t.blocked # "none" => s.revision < t.revision

\* An unlatched state, once sampled, carries evidence within the limits.
Sound(s) ==
    s.blocked = "none" =>
        /\ s.peak <= MaximumGrowth
        /\ s.minFree # Unread => s.minFree >= MinimumFree
        /\ s.revision > 0 => s.valid /\ s.minFree # Unread

\* A state that was committed, or merged from committed ones, when journal file j
\* holds t.
Known(s, j, t) == j = "state" /\ Behind(s, t) /\ Sound(s)

\* Until the flock is released, the journal holds what its holder renamed.
Written ==
    \A c \in Clients : pc[c] = "sync" => journal = "state" /\ candidate[c] = state

\* Only an unlatched, committed record is adopted.
Adoptable ==
    \A c \in Clients : pc[c] = "adopt" =>
        /\ Known(candidate[c], journal, state)
        /\ candidate[c].revision > 0 /\ candidate[c].blocked = "none"

Attested == \A c \in Clients : snapshot[c].revision >= 0 => Known(snapshot[c], journal, state)

Admitted ==
    \A c \in Clients : result[c] = "ok" =>
        snapshot[c].revision > 0 /\ snapshot[c].blocked = "none"

CacheInv == Written /\ Adoptable /\ Attested /\ Admitted

\* What _validate accepts is sound evidence.
LEMMA ValidSound ==
    ASSUME NEW s \in EpochState, Valid(s)
    PROVE  Sound(s)
  BY DEF Valid, Sound, EpochState

\* Merging two known states, as _adopt does, gives a known state; it is no older
\* than either of them, and unlatched only if both are.
LEMMA AdoptedKnown ==
    ASSUME NEW j, NEW t \in EpochState, NEW old \in EpochState, NEW new \in EpochState,
           old.revision >= 0 => Known(old, j, t), new.revision >= 0, Known(new, j, t)
    PROVE  /\ Known(Adopted(old, new), j, t)
           /\ Adopted(old, new).revision >= new.revision
<1> DEFINE u == Adopted(old, new)
<1>1. CASE old.revision = -1
  BY <1>1 DEF Adopted, EpochState
<1>2. CASE old.revision # -1
  <2>1. Known(old, j, t)
    BY <1>2 DEF EpochState
  <2>2. /\ u.peak = Maximum(old.peak, new.peak)
        /\ u.minFree = KnownMinimum(old.minFree, new.minFree)
        /\ u.blocked = IF old.blocked # "none" THEN old.blocked ELSE new.blocked
        /\ u.revision = IF new.revision < old.revision THEN old.revision ELSE new.revision
        /\ u.baseline = IF new.revision < old.revision THEN old.baseline ELSE new.baseline
        /\ u.valid = IF new.revision < old.revision THEN old.valid ELSE new.valid
    BY <1>2 DEF Adopted, EpochState
  <2> HIDE DEF u
  <2>3. Behind(u, t) /\ u.revision >= new.revision
    BY <2>1, <2>2 DEF Known, Behind, EpochState, Maximum
  <2>4. Sound(u)
    <3> SUFFICES ASSUME u.blocked = "none"
                 PROVE  /\ u.peak <= MaximumGrowth
                        /\ u.minFree # Unread => u.minFree >= MinimumFree
                        /\ u.revision > 0 => u.valid /\ u.minFree # Unread
      BY DEF Sound
    <3>1. old.blocked = "none" /\ new.blocked = "none"
      BY <2>2
    <3> QED BY <2>1, <2>2, <3>1, EpochAssumption
            DEF Known, Sound, EpochState, Maximum, KnownMinimum, Minimum, Unread
  <2> QED BY <2>1, <2>3, <2>4 DEF Known, u
<1> QED BY <1>1, <1>2

\* What is known stays known, since the journal only moves towards denial.
LEMMA KnownStays ==
    ASSUME IInv, [Next]_vars, NEW s \in EpochState, Known(s, journal, state)
    PROVE  Known(s, journal', state')
<1>1. state \in EpochState /\ state' \in EpochState
  BY TypeStep DEF IInv, TypeOK
<1>2. journal' = "state" /\ NoLaxer(state, state')
  BY JournalStep DEF Known
<1>3. Behind(s, state')
  BY <1>1, <1>2 DEF Known, Behind, NoLaxer, EpochState
<1> QED BY <1>2, <1>3 DEF Known

LEMMA CacheInit == Init => CacheInv
  BY DEF Init, CacheInv, Written, Adoptable, Attested, Admitted, NoState

LEMMA CacheStep == IInv /\ CacheInv /\ [Next]_vars => CacheInv'
<1> SUFFICES ASSUME IInv, CacheInv, [Next]_vars PROVE CacheInv'
  OBVIOUS
<1>0. TypeOK /\ TypeOK'
  BY TypeStep DEF IInv
<1>a. \A s \in EpochState : Known(s, journal, state) => Known(s, journal', state')
  BY KnownStays
<1>1. ASSUME NEW c \in Clients, Initialize(c) PROVE CacheInv'
  BY <1>0, <1>a, <1>1
     DEF Initialize, InitializeLock, InitializeReserve, cache, TypeOK, IInv, Creation,
         CacheInv, Written, Adoptable, Attested, Admitted
<1>2. ASSUME NEW c \in Clients, Record(c) PROVE CacheInv'
  BY <1>0, <1>a, <1>2
     DEF Record, RecordBegin, RecordLockTimeout, durable, TypeOK,
         CacheInv, Written, Adoptable, Attested, Admitted
<1>3. ASSUME NEW c \in Clients, Stage(c) PROVE CacheInv'
  BY <1>0, <1>a, <1>3
     DEF Stage, cache, TypeOK, CacheInv, Written, Adoptable, Attested, Admitted
\* Only the holder of the flock renames, so nobody else is between rename and release.
<1>4. ASSUME NEW c \in Clients, Rename(c) PROVE CacheInv'
  BY <1>0, <1>a, <1>4
     DEF Rename, cache, TypeOK, IInv, Exclusive, Committing,
         CacheInv, Written, Adoptable, Attested, Admitted
<1>5. ASSUME NEW c \in Clients, SyncDirectory(c) PROVE CacheInv'
  <2>1. /\ candidate[c] = state /\ journal = "state" /\ Valid(state)
        /\ UNCHANGED <<journal, state, candidate, snapshot, result>>
    BY <1>5 DEF SyncDirectory, durable, cache, IInv, JournalValid, CacheInv, Written
  <2>2. Known(candidate[c], journal, state) /\ state.revision >= 0
    BY <1>0, <2>1, ValidSound DEF Known, Behind, TypeOK, EpochState, Valid
  <2>3. ASSUME NEW d \in Clients, pc'[d] = "adopt"
        PROVE  \/ pc[d] = "adopt"
               \/ d = c /\ ~Initializing(c) /\ candidate[c].blocked = "none"
    BY <1>0, <1>5, <2>3 DEF SyncDirectory, TypeOK
  <2>4. \A d \in Clients : pc'[d] = "sync" => pc[d] = "sync"
    BY <1>0, <1>5 DEF SyncDirectory, TypeOK
  <2>5. Adoptable'
    BY <1>0, <1>a, <2>1, <2>2, <2>3 DEF Adoptable, CacheInv, Initializing, TypeOK, EpochState
  <2> QED BY <1>0, <1>a, <2>1, <2>4, <2>5 DEF CacheInv, Written, Attested, Admitted, TypeOK
<1>6. ASSUME NEW c \in Clients, CommitFails(c) PROVE CacheInv'
  BY <1>0, <1>a, <1>6
     DEF CommitFails, cache, TypeOK, CacheInv, Written, Adoptable, Attested, Admitted
<1>7. ASSUME NEW c \in Clients, Adopt(c) PROVE CacheInv'
  <2> DEFINE now == Adopted(snapshot[c], candidate[c])
  <2>1. /\ snapshot' = [snapshot EXCEPT ![c] = now]
        /\ result'[c] = "ok" => now.blocked = "none"
        /\ \A d \in Clients \ {c} : UNCHANGED <<pc[d], candidate[d], result[d]>>
        /\ pc'[c] = "idle" /\ UNCHANGED <<journal, state>>
    BY <1>0, <1>7 DEF Adopt, durable, TypeOK
  <2>2. /\ snapshot[c] \in EpochState /\ candidate[c] \in EpochState
        /\ state \in EpochState
    BY <1>0 DEF TypeOK
  <2>3. /\ snapshot[c].revision >= 0 => Known(snapshot[c], journal, state)
        /\ Known(candidate[c], journal, state) /\ candidate[c].revision > 0
    BY <1>7 DEF Adopt, CacheInv, Adoptable, Attested
  <2>4. candidate[c].revision \in Nat
    BY <2>2, <2>3 DEF EpochState
  <2>5. Known(now, journal, state) /\ now.revision >= candidate[c].revision
    BY <2>2, <2>3, <2>4, AdoptedKnown
  <2>6. now \in EpochState
    BY <2>2, AdoptedType
  <2> HIDE DEF now
  <2>7. now.revision > 0
    BY <2>3, <2>4, <2>5, <2>6 DEF EpochState
  <2>8. Attested' /\ Admitted'
    BY <1>0, <2>1, <2>5, <2>7 DEF TypeOK, CacheInv, Attested, Admitted
  <2>9. Written' /\ Adoptable'
    BY <1>0, <2>1 DEF TypeOK, CacheInv, Written, Adoptable
  <2> QED BY <2>8, <2>9 DEF CacheInv
\* Only the journal itself is adopted here, and only a validated one.
<1>8. ASSUME NEW c \in Clients, Reread(c) PROVE CacheInv'
  <2> DEFINE now == Adopted(snapshot[c], state)
  <2>1. /\ \/ Readable /\ snapshot' = [snapshot EXCEPT ![c] = now]
           \/ UNCHANGED snapshot
        /\ result'[c] = "raised"
        /\ \A d \in Clients \ {c} : UNCHANGED <<pc[d], candidate[d], result[d]>>
        /\ pc'[c] = "idle" /\ UNCHANGED <<journal, state>>
    BY <1>0, <1>8 DEF Reread, durable, TypeOK
  <2>2. ASSUME Readable PROVE Known(now, journal, state)
    <3>1. Known(state, journal, state) /\ state.revision >= 0
      <4>1. state \in EpochState /\ Valid(state) /\ journal = "state"
        BY <1>0, <2>2 DEF TypeOK, Readable
      <4>2. Sound(state)
        BY <4>1, ValidSound
      <4>3. Behind(state, state) /\ state.revision >= 0
        BY <4>1 DEF Behind, EpochState, Valid
      <4> QED BY <4>1, <4>2, <4>3 DEF Known
    <3>2. snapshot[c] \in EpochState /\ state \in EpochState
      BY <1>0 DEF TypeOK
    <3>3. snapshot[c].revision >= 0 => Known(snapshot[c], journal, state)
      BY DEF CacheInv, Attested
    <3> QED BY <3>1, <3>2, <3>3, AdoptedKnown
  <2> HIDE DEF now
  <2> QED BY <1>0, <1>a, <2>1, <2>2
          DEF TypeOK, CacheInv, Written, Adoptable, Attested, Admitted
<1>9. ASSUME NEW c \in Clients, Crash(c) PROVE CacheInv'
  BY <1>0, <1>a, <1>9
     DEF Crash, durable, NoState, TypeOK, CacheInv, Written, Adoptable, Attested, Admitted
<1>10. CASE UNCHANGED vars
  BY <1>0, <1>a, <1>10
     DEF vars, TypeOK, CacheInv, Written, Adoptable, Attested, Admitted
<1> QED BY <1>1, <1>2, <1>3, <1>4, <1>5, <1>6, <1>7, <1>8, <1>9, <1>10 DEF Next

\* A cache never runs ahead of the journal, whichever of several racing clients wrote
\* last, which writes failed and which client restarted.
THEOREM CachesNeverAhead == Spec => []CachesFollowTheJournal
<1>1. IInv /\ CacheInv => CachesFollowTheJournal
  <2> SUFFICES ASSUME IInv, CacheInv, NEW c \in Clients
               PROVE  /\ snapshot[c].revision <= state.revision
                      /\ snapshot[c].revision >= 0 => Behind(snapshot[c], state)
    BY DEF CachesFollowTheJournal, Behind
  <2>1. snapshot[c].revision \in Nat \cup {-1} /\ state.revision \in Nat \cup {-1}
    BY DEF IInv, TypeOK, EpochState
  <2>2. snapshot[c].revision >= 0 => Behind(snapshot[c], state)
    BY DEF CacheInv, Attested, Known
  <2> QED BY <2>1, <2>2 DEF Behind
<1>2. Init => IInv /\ CacheInv
  BY InvInit, CacheInit
<1>3. IInv /\ CacheInv /\ [Next]_vars => (IInv /\ CacheInv)'
  BY InvStep, CacheStep
<1> QED BY <1>1, <1>2, <1>3, PTL DEF Spec

\* record() returns normally only on committed evidence within the limits.
THEOREM AdmissionIsSound == Spec => []AdmittedWithinLimits
<1>1. IInv /\ CacheInv => AdmittedWithinLimits
  BY EpochAssumption
     DEF IInv, TypeOK, EpochState, CacheInv, Attested, Admitted, Known, Behind, Sound,
         AdmittedWithinLimits, Unread
<1>2. Init => IInv /\ CacheInv
  BY InvInit, CacheInit
<1>3. IInv /\ CacheInv /\ [Next]_vars => (IInv /\ CacheInv)'
  BY InvStep, CacheStep
<1> QED BY <1>1, <1>2, <1>3, PTL DEF Spec
=============================================================================
