-------------------------- MODULE MemoryGovernance --------------------------
(***************************************************************************)
(* Consent, deletion and repair: what a user decides about the memories.   *)
(* Two machines that share no state.                                       *)
(*                                                                         *)
(* lumina_next/memory_control_service_v1.py and memory_consent_v1.py: the  *)
(* consent of each user and the receipts of exports and deletions live in  *)
(* the process and in a ledger file that is replaced after every change;   *)
(* the memories are in the database.  The handlers do not await, so that   *)
(* only a failing write and the end of the process come between the steps  *)
(* of one.                                                                 *)
(*                                                                         *)
(* lumina_next/memory_repair_v1.py: a correction or a forgetting of one    *)
(* lineage of memories, applied to a sealed bundle of the user's records.  *)
(* A bundle is a value: whoever holds one can compose a request on it or   *)
(* apply a request to it, at any time, so that bundles fork.  The hash of  *)
(* a bundle is the bundle itself here.                                     *)
(***************************************************************************)
EXTENDS Naturals, FiniteSets, Absent

CONSTANTS
    People,    \* user ids
    MaxItems,  \* memories that come to be (bound)
    MaxSeq     \* events of the ledger (bound)

ASSUME MemoryControlAssumption == MaxItems \in Nat /\ MaxSeq \in Nat

VARIABLES
    live,      \* the controller: consent, consumed receipts and the event sequence
    ledger,    \* the controller as the file has it
    told,      \* the consent each user's last request was acknowledged with, None after an error
    acknowledged,  \* receipts of the requests that were acknowledged with success
    items,     \* memories in the store
    nextItem,  \* memories that ever came to be
    recorded,   \* users of turns that were recorded and not yet consolidated
    forgetting,\* the receipt of a deletion whose items are being deleted
    gone       \* memories that a deletion of forget_all removed

controlVars == <<live, ledger, told, acknowledged, items, nextItem, recorded, forgetting, gone>>

NoForget == [id |-> 0, operation |-> "DELETE", items |-> {}]
Empty == [consent |-> [p \in People |-> "denied"], consumed |-> {}, seq |-> 0]

ControlInit ==
    /\ live = Empty /\ ledger = Empty
    /\ told = [p \in People |-> "denied"] /\ acknowledged = {}
    /\ items = {} /\ nextItem = 0 /\ recorded = {} /\ forgetting = NoForget /\ gone = {}

StoreUnchanged == UNCHANGED <<items, nextItem, recorded, forgetting, gone>>

\* Mutant of SetConsent: the answer is given although the ledger could not be written.
SetConsentAnyway(p, consent) ==
    /\ forgetting = NoForget
    /\ live' = [live EXCEPT !.consent[p] = consent, !.seq = @ + 1]
    /\ ledger' \in {ledger, live'}
    /\ told' = [told EXCEPT ![p] = consent]
    /\ UNCHANGED acknowledged /\ StoreUnchanged

\* set_consent: explicit, kept in the process, and written; a write that fails is acknowledged
\* with an error and leaves the process ahead of its file.
SetConsent(p, consent) ==
    /\ forgetting = NoForget
    /\ live' = [live EXCEPT !.consent[p] = consent, !.seq = @ + 1]
    /\ \/ ledger' = live' /\ told' = [told EXCEPT ![p] = consent]
       \/ UNCHANGED ledger /\ told' = [told EXCEPT ![p] = None]
    /\ UNCHANGED acknowledged /\ StoreUnchanged

\* _record_turn_with_consent: can_save is asked when the turn is written.
RecordTurn(p) ==
    /\ forgetting = NoForget /\ live.consent[p] = "granted"
    /\ recorded' = recorded \cup {p}
    /\ UNCHANGED <<live, ledger, told, acknowledged, items, nextItem, forgetting, gone>>

\* consolidate_memory makes a memory of what is recorded; it does not ask can_save again.
Consolidate ==
    /\ recorded # {} /\ nextItem < MaxItems
    /\ nextItem' = nextItem + 1 /\ items' = items \cup {nextItem'} /\ recorded' = {}
    /\ UNCHANGED <<live, ledger, told, acknowledged, forgetting, gone>>

\* issue_control_receipt and consume_control_receipt: bound to the operation and its items.
Receipt(operation, wanted) == [id |-> live.seq + 1, operation |-> operation, items |-> wanted]
Consumes(receipt) == live' = [live EXCEPT !.consumed = @ \cup {receipt}, !.seq = @ + 2]

\* export_memory: what is asked for is there, or nothing is exported.
Export(wanted) ==
    /\ forgetting = NoForget /\ wanted # {} /\ wanted \subseteq items
    /\ Consumes(Receipt("EXPORT", wanted))
    /\ \/ ledger' = live' /\ acknowledged' = acknowledged \cup {Receipt("EXPORT", wanted)}
       \/ UNCHANGED <<ledger, acknowledged>>
    /\ UNCHANGED told /\ StoreUnchanged

\* forget_all up to the write of the ledger.
ForgetBegins(wanted) ==
    /\ forgetting = NoForget /\ wanted # {} /\ wanted \subseteq items
    /\ Consumes(Receipt("DELETE", wanted))
    /\ \/ ledger' = live' /\ forgetting' = Receipt("DELETE", wanted)
       \/ UNCHANGED <<ledger, forgetting>>
    /\ UNCHANGED <<told, acknowledged, items, nextItem, recorded, gone>>

\* One item is deleted, in a transaction of its own.
ForgetOne ==
    /\ \E i \in forgetting.items \cap items : items' = items \ {i} /\ gone' = gone \cup {i}
    /\ UNCHANGED <<live, ledger, told, acknowledged, nextItem, recorded, forgetting>>

\* A deletion raises, or the store still has an item: an error; else the answer.
ForgetEnds ==
    /\ forgetting # NoForget
    /\ \/ UNCHANGED acknowledged
       \/ forgetting.items \cap items = {} /\ acknowledged' = acknowledged \cup {forgetting}
    /\ forgetting' = NoForget
    /\ UNCHANGED <<live, ledger, told, items, nextItem, recorded, gone>>

\* The process ends and starts again: from_snapshot reads what the ledger has.
ControlRestart ==
    /\ live' = ledger /\ forgetting' = NoForget
    /\ UNCHANGED <<ledger, told, acknowledged, items, nextItem, recorded, gone>>

ControlNext ==
    \/ /\ live.seq + 2 =< MaxSeq
       /\ \/ \E p \in People, consent \in {"granted", "denied"} : SetConsent(p, consent)
          \/ \E wanted \in SUBSET items : Export(wanted) \/ ForgetBegins(wanted)
    \/ \E p \in People : RecordTurn(p)
    \/ Consolidate \/ ForgetOne \/ ForgetEnds \/ ControlRestart

ControlSpec == ControlInit /\ [][ControlNext]_controlVars

-----------------------------------------------------------------------------

\* The file is never ahead of the process, and no two receipts share an id.
ControlTypeOK ==
    /\ live.consent \in [People -> {"granted", "denied"}]
    /\ ledger.seq =< live.seq /\ live.seq =< MaxSeq /\ ledger.consumed \subseteq live.consumed
    /\ \A r, s \in live.consumed : r.id = s.id => r = s
    /\ items \subseteq 1..nextItem /\ nextItem \in 0..MaxItems /\ recorded \subseteq People

\* What a user was told outlives the process: the consent that was confirmed, by the last
\* request that was not an error, is the one the ledger has, and every acknowledged request left
\* its receipt there.
AnswersAreDurable ==
    /\ \A p \in People : told[p] # None => told[p] = ledger.consent[p]
    /\ acknowledged \subseteq ledger.consumed

\* A deletion that was acknowledged is complete and stays so, and no memory is gone without the
\* receipt that allowed it, wherever the process ended.
DeletionsAreCovered ==
    /\ \A r \in acknowledged : r.operation = "DELETE" => r.items \cap items = {}
    /\ \A i \in gone : \E r \in ledger.consumed : r.operation = "DELETE" /\ i \in r.items

-----------------------------------------------------------------------------
(* Repairs                                                                 *)

CONSTANTS
    Projections,  \* PROJECTIONS, the active views of a user's memory
    Lineages,     \* lineage ids
    Values,       \* values of a record
    RequestIds,   \* request ids, chosen by the caller
    RepairClock,  \* the instants there are (bound)
    ConsentTimes, \* when a receipt for a forgetting may be issued, and expire (bound)
    MaxRequests,  \* repairRequests composed (bound)
    MaxBundles    \* bundles sealed (bound)

ASSUME RepairAssumption ==
    /\ RepairClock \subseteq Nat /\ 0 \in RepairClock /\ MaxRequests \in Nat /\ MaxBundles \in Nat
    /\ None \notin Values /\ \A t \in ConsentTimes : t[1] < t[2]

VARIABLES
    bundles,   \* the sealed states that exist
    repairRequests,  \* the sealed repairRequests that exist
    instant    \* the clock of the callers

repairVars == <<bundles, repairRequests, instant>>

\* create_memory_state: a first bundle, with any records a lineage may have in each view.
RepairInit ==
    /\ \E held \in [Projections -> [Lineages -> Values \cup {None}]] :
          bundles = {[rev |-> 1, asOf |-> 0, held |-> held, tombstones |-> {}, audit |-> {}]}
    /\ repairRequests = {} /\ instant = 0

\* create_forget_consent_receipt: bound to one request, for a time that need not have come.
Receipts == [id : RequestIds, lineage : Lineages, for : ConsentTimes]

Composes(q) ==
    /\ Cardinality(repairRequests) < MaxRequests
    /\ repairRequests' = repairRequests \cup {q} /\ UNCHANGED <<bundles, instant>>

\* create_correction_request, on the bundle the caller looks at.
ComposeCorrection(b, id, lineage, value) ==
    Composes([id |-> id, op |-> "correct", lineage |-> lineage, at |-> instant, seen |-> b,
              value |-> value, receipt |-> None])

\* create_forget_request; the receipt is bound when it is applied, not here.
ComposeForget(b, id, lineage, receipt) ==
    Composes([id |-> id, op |-> "forget", lineage |-> lineage, at |-> instant, seen |-> b,
              value |-> None, receipt |-> receipt])

\* The consent is for this request and this lineage, and the request was made in its time.
Consented(q) ==
    q.op = "forget" => /\ q.receipt.id = q.id /\ q.receipt.lineage = q.lineage
                       /\ q.receipt.for[1] =< q.at /\ q.at =< q.receipt.for[2]

\* The guards of apply.
Applicable(q, b) ==
    /\ \A a \in b.audit : a.id # q.id
    /\ q.seen = b /\ b.asOf =< q.at
    /\ \A t \in b.tombstones : t.lineage # q.lineage
    /\ Consented(q) /\ \E p \in Projections : b.held[p][q.lineage] # None

\* Every view that holds the lineage is rewritten: a forgetting's value is no record at all.
Rewritten(q, b) ==
    [p \in Projections |->
        IF b.held[p][q.lineage] = None THEN b.held[p] ELSE [b.held[p] EXCEPT ![q.lineage] = q.value]]

Tombstones(q, b) ==
    IF q.op = "forget" THEN b.tombstones \cup {[id |-> q.id, lineage |-> q.lineage]} ELSE b.tombstones

\* MemoryRepairEngine.apply, with the validation of its result.
Repaired(q, b) ==
    [rev |-> b.rev + 1, asOf |-> q.at, held |-> Rewritten(q, b), tombstones |-> Tombstones(q, b),
     audit |-> b.audit \cup {[id |-> q.id, op |-> q.op, lineage |-> q.lineage, value |-> q.value, rev |-> b.rev]}]

\* validate_memory_state: what was forgotten is not held, and one tombstone per lineage.
ValidBundle(b) ==
    /\ \A t \in b.tombstones, p \in Projections : b.held[p][t.lineage] = None
    /\ \A t, u \in b.tombstones : t.lineage = u.lineage => t = u

\* validate_repair_result: a forgetting has its tombstone and is in no view.
ValidResult(q, b) ==
    q.op = "forget" => /\ \E t \in b.tombstones : t.id = q.id
                       /\ \A p \in Projections : b.held[p][q.lineage] = None

Repair(q, b) ==
    /\ Applicable(q, b) /\ Cardinality(bundles) < MaxBundles
    /\ ValidBundle(Repaired(q, b)) /\ ValidResult(q, Repaired(q, b))
    /\ bundles' = bundles \cup {Repaired(q, b)} /\ UNCHANGED <<repairRequests, instant>>

RepairTick ==
    /\ instant + 1 \in RepairClock
    /\ instant' = instant + 1 /\ UNCHANGED <<bundles, repairRequests>>

RepairNext ==
    \/ \E b \in bundles, id \in RequestIds, lineage \in Lineages :
          \/ \E value \in Values : ComposeCorrection(b, id, lineage, value)
          \/ \E receipt \in Receipts : ComposeForget(b, id, lineage, receipt)
    \/ \E q \in repairRequests, b \in bundles : Repair(q, b)
    \/ RepairTick

RepairSpec == RepairInit /\ [][RepairNext]_repairVars

-----------------------------------------------------------------------------

\* Every revision of a bundle is accounted for by one entry of its audit, of its own request.
RepairTypeOK ==
    \A b \in bundles :
        /\ b.rev = 1 + Cardinality(b.audit) /\ b.asOf \in RepairClock
        /\ \A a, c \in b.audit : a.id = c.id \/ a.rev = c.rev => a = c
        /\ \A p \in Projections : b.held[p] \in [Lineages -> Values \cup {None}]

\* Whatever forks and is applied late, a repair that is in a bundle was decided by someone who
\* had seen exactly the repairs that precede it there.
DecidedOnWhatWasSeen ==
    \A b \in bundles : \A a \in b.audit :
        \E q \in repairRequests :
            /\ q.id = a.id /\ q.lineage = a.lineage /\ q.op = a.op
            /\ q.seen.audit = {c \in b.audit : c.rev < a.rev}

\* The views of a lineage agree on its last repair: a correction reached every view that held
\* it, and what was forgotten is in none and has its tombstone.
ViewsAgreeOnRepairs ==
    \A b \in bundles : \A a \in b.audit :
        (\A c \in b.audit : c.lineage = a.lineage => c.rev =< a.rev) =>
            /\ \A p \in Projections : b.held[p][a.lineage] \in {None, a.value}
            /\ a.op = "correct" => \E p \in Projections : b.held[p][a.lineage] # None
            /\ a.op = "forget" => \E t \in b.tombstones : t.id = a.id /\ t.lineage = a.lineage
=============================================================================
