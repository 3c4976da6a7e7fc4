---------------------------- MODULE MemorySleep ----------------------------
(***************************************************************************)
(* lumina_next/memory_sleep.py: a night consolidates the events of a day   *)
(* into an immutable state of memory and returns the plan that undoes it.  *)
(* A night's id is derived from its events, so that the events stand for   *)
(* it.  An item's id is derived from the event it came from; the text of   *)
(* an item is its value.                                                   *)
(***************************************************************************)
EXTENDS Naturals, Sequences, FiniteSets, Absent
LOCAL INSTANCE SequencesExt

CONSTANTS
    Nights,      \* the nights a caller asks for: sequences of events
    MaxWorking,  \* capacity of working memory
    MaxEpisodic, \* capacity of episodic memory
    MaxResults   \* results a caller keeps (bound)

Kinds == {"working", "episodic", "semantic", "relationship", "identity"}
Consistent == {"semantic", "relationship"}

\* Distinct events differ in the time they occurred at.
ASSUME MemorySleepAssumption ==
    /\ MaxWorking \in Nat /\ MaxEpisodic \in Nat /\ MaxResults \in Nat
    /\ \A n \in Nights : n \in Seq([kind : Kinds, key : STRING, value : STRING,
                                    at : Nat, salient : BOOLEAN, episode : {FALSE}])

VARIABLES
    memory,  \* MemorySleep.state
    results  \* the results the callers hold, each with its RollbackPlan

memoryVars == <<memory, results>>

MemoryInit ==
    /\ memory = [items |-> {}, quarantine |-> {}, applied |-> <<>>]
    /\ results = {}

-----------------------------------------------------------------------------
(* sleep_once                                                              *)

\* _event_key: an event without a key is known by its value.
KeyOf(e) == IF e.key = "" THEN e.value ELSE e.key

\* _item_matches_event.
Matches(i, e) == i.kind = e.kind /\ KeyOf(i) = KeyOf(e) /\ i.value = e.value

\* _conflicting_items: the same key, another value.
Contradicts(i, e) == i.kind = e.kind /\ e.key # "" /\ i.key = e.key /\ i.value # e.value

Quarantined(m, e) == [m EXCEPT !.quarantine = @ \cup {e}]

\* A salient event of working memory is kept as an episode as well.
Accepted(m, e) ==
    [m EXCEPT !.items = @ \cup {e} \cup
        IF e.kind = "working" /\ e.salient
        THEN {[e EXCEPT !.kind = "episodic", !.episode = TRUE]} ELSE {}]

\* One event: what is known is not stored twice, identity is never written, and a fact
\* that contradicts an active one is quarantined.
Considered(m, e) ==
    IF \E i \in m.items : Matches(i, e) THEN m
    ELSE IF e.kind = "identity" \/ (e.kind \in Consistent /\ \E i \in m.items : Contradicts(i, e))
    THEN Quarantined(m, e)
    ELSE Accepted(m, e)

\* apply_capacity_decay: working memory keeps the latest, episodic memory the most salient.
Decayed(items) ==
    LET after(j, i) == j.at > i.at \/ (j.at = i.at /\ j.episode /\ ~i.episode)
        above(j, i) == \/ j.salient /\ ~i.salient
                       \/ j.salient = i.salient /\ after(j, i)
    IN {i \in items :
          /\ i.kind = "working" =>
                Cardinality({j \in items : j.kind = "working" /\ after(j, i)}) < MaxWorking
          /\ i.kind = "episodic" =>
                Cardinality({j \in items : j.kind = "episodic" /\ above(j, i)}) < MaxEpisodic}

Slept(m, night) ==
    LET taken == FoldLeft(Considered, m, night)
    IN [taken EXCEPT !.items = Decayed(@), !.applied = Append(@, night)]

\* sleep_once: a night that was applied changes nothing, and its plan neither.
Sleep(night) ==
    /\ memory' = IF night \in ToSet(memory.applied) THEN memory ELSE Slept(memory, night)
    /\ results' = results \cup {[before |-> memory, after |-> memory']}

\* Mutant of RollsBack: the state is restored whatever became of it.
RollsBackBlindly(r) == memory' = r.before /\ UNCHANGED results

\* RollbackPlan.apply: refused unless the state is the one the night left.
RollsBack(r) ==
    /\ memory = r.after
    /\ memory' = r.before
    /\ UNCHANGED results

MemoryNext ==
    \/ \E night \in Nights : Cardinality(results) < MaxResults /\ Sleep(night)
    \/ \E r \in results : RollsBack(r)

MemorySpec == MemoryInit /\ [][MemoryNext]_memoryVars

-----------------------------------------------------------------------------

\* No layer outgrows its capacity, and no two items are the same event.
MemoryTypeOK ==
    /\ Cardinality({i \in memory.items : i.kind = "working"}) =< MaxWorking
    /\ Cardinality({i \in memory.items : i.kind = "episodic"}) =< MaxEpisodic
    /\ \A n \in ToSet(memory.applied) : n \in Nights
    /\ Cardinality(results) =< MaxResults

\* Whatever the nights and their order, also when the contradiction is within one night:
\* what is active in the semantic and relationship layers is consistent, and nothing is
\* quarantined there without the active fact it contradicts.
NoActiveContradiction ==
    /\ \A i, j \in memory.items : i.kind \in Consistent => ~Contradicts(i, j)
    /\ \A q \in memory.quarantine : q.kind \in Consistent =>
          \E i \in memory.items : Contradicts(i, q)

\* A night counts once, however often it is asked for and whatever was undone in between.
NightsCountOnce == IsInjective(memory.applied)

\* "restore before only if the current snapshot matches" (memory_sleep.py:399): what a
\* rollback takes back is the last night and nothing else.
OnlyTheLastIsUndone ==
    [][memory.applied # memory'.applied =>
          \/ Front(memory'.applied) = memory.applied
          \/ memory'.applied = Front(memory.applied)]_memoryVars
=============================================================================
