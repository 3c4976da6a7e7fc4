---------------------------- MODULE EmbodiedAction ----------------------------
(***************************************************************************)
(* The embodied action service (lumina_next/embodied_action_api_v1.py):    *)
(* dispatch and cancel over LocalFakeEmbodiedAdapter.  An effect is applied *)
(* by the adapter before its outcome is known, so a failure or a timeout is *)
(* rolled back, and a retry must never apply an effect again.               *)
(*                                                                         *)
(* A request is a record: its dispatch id, its idempotency scope (tenant,   *)
(* user and idempotency key), its intent and target, its deadline, its      *)
(* cancel_requested flag, the world it was made in, its risk request and    *)
(* the one-time receipt it carries.  The record stands for its hash.        *)
(***************************************************************************)
EXTENDS Naturals, FiniteSets, Absent

CONSTANTS ActionRequests,  \* [dispatch, scope, intent, target, deadline, withdrawn, undoable, world, risk, receipt]
          LastSecond       \* bound of the time

VARIABLES owner,      \* _dispatch_owners: the scope a dispatch id belongs to
          first,      \* _idempotency: the request first accepted in a scope
          receiptUse, \* _receipt_uses: the dispatch a receipt was spent on
          dispatching,    \* _pending: the dispatches that may still be cancelled
          effect,     \* the adapter's effect of each scope: [by, state]
          outcome,    \* result_sha256: the result kept of the first request of a scope
          answered,   \* the last answer of dispatch, what it answers and what it repeats
          second      \* the time the caller passes as now

actionVars == <<owner, first, receiptUse, dispatching, effect, outcome, answered, second>>

Dispatches == {q.dispatch : q \in ActionRequests}
Scopes == {q.scope : q \in ActionRequests}
ActionReceipts == {q.receipt.id : q \in ActionRequests}
Intents == {"look", "gesture", "point", "sit", "stand", "approach"}
Movements == {"sit", "stand", "approach"}

\* What is recorded for a request that was accepted, what a refused one is told, and what the
\* adapter keeps of an effect.
Outcomes == {"COMPLETED", "PENDING", "FAILED_ROLLED_BACK", "TIMED_OUT_ROLLED_BACK"}
Refusals == {"BLOCKED", "TIMED_OUT", "CANCELLED", "IDEMPOTENCY_CONFLICT", "DUPLICATE"}
ActionEffects == [by : Dispatches, state : {"applied", "rolled_back"}]

ASSUME EmbodiedAssumption ==
    /\ None \notin Dispatches \cup Scopes \cup ActionReceipts
    /\ None \notin ActionRequests /\ None \notin Outcomes \cup Refusals /\ None \notin ActionEffects

ActionInit ==
    /\ owner = [d \in Dispatches |-> None]
    /\ first = [s \in Scopes |-> None]
    /\ receiptUse = [r \in ActionReceipts |-> None]
    /\ dispatching = {}
    /\ effect = [s \in Scopes |-> None]
    /\ outcome = [s \in Scopes |-> None]
    /\ answered = None /\ second = 0

\* _normalize_intent: an intent of the table, with a target where it takes one.
IntentIsKnown(q) ==
    /\ q.intent \in Intents
    /\ q.target = None <=> q.intent \in {"gesture", "stand"}

\* validate_embodied_action_request: and a way to restore the pose.
RequestIsRight(q) == IntentIsKnown(q) /\ q.undoable

\* _validate_world_preconditions: a fresh snapshot of this tenant, no kill
\* switch, privacy, a certain actor and target, and what each intent needs.
WorldAllows(q) ==
    LET w == q.world
    IN /\ w.safe /\ second < w.until
       /\ q.target # None => w.sure /\ (q.intent \in {"point", "sit"} => w.kind = "object")
       /\ q.intent \in {"look", "point"} => w.visible
       /\ q.intent \in Movements => w.navigable
       /\ q.intent = "sit" => w.posture = "standing" /\ w.free
       /\ q.intent = "stand" => w.posture = "seated"
       /\ q.intent = "approach" => w.near

\* What a receipt and a risk request are about.
Subject(q) == <<q.dispatch, q.scope, q.intent, q.target>>

\* _validate_permission_receipt: a receipt about this very dispatch, of a mode that lets it
\* act, and in force.
ReceiptAllows(q) ==
    /\ q.receipt.about = Subject(q) /\ q.receipt.mode # "PROPOSE_ONLY"
    /\ second < q.receipt.until

\* _validate_risk_and_permission: the risk request is about the dispatch, and permitted.
RiskAllows(q) == q.risk.about = Subject(q) /\ q.risk.permitted /\ ReceiptAllows(q)

\* Mutant of Refusal: the checks of a new request come first.
RefusalLate(q) ==
    IF ~RequestIsRight(q) THEN "BLOCKED"
    ELSE IF second >= q.deadline THEN "TIMED_OUT"
    ELSE IF q.withdrawn THEN "CANCELLED"
    ELSE IF ~WorldAllows(q) \/ ~RiskAllows(q) \/ receiptUse[q.receipt.id] # None THEN "BLOCKED"
    ELSE IF owner[q.dispatch] \notin {None, q.scope} THEN "IDEMPOTENCY_CONFLICT"
    ELSE IF first[q.scope] # None THEN IF first[q.scope] = q THEN "DUPLICATE" ELSE "IDEMPOTENCY_CONFLICT"
    ELSE None

\* dispatch, before the adapter is called: the first check that fails tells the answer.  A
\* request that was accepted before is a duplicate, whatever has become of the world since.
Refusal(q) ==
    IF ~RequestIsRight(q) THEN "BLOCKED"
    ELSE IF second >= q.deadline THEN "TIMED_OUT"
    ELSE IF q.withdrawn THEN "CANCELLED"
    ELSE IF owner[q.dispatch] \notin {None, q.scope} THEN "IDEMPOTENCY_CONFLICT"
    ELSE IF first[q.scope] # None THEN IF first[q.scope] = q THEN "DUPLICATE" ELSE "IDEMPOTENCY_CONFLICT"
    ELSE IF ~WorldAllows(q) \/ ~RiskAllows(q) \/ receiptUse[q.receipt.id] # None THEN "BLOCKED"
    ELSE None

\* _finish: every dispatch is answered; a duplicate is told which result it repeats.
AnswersWith(q, status) ==
    answered' = [to |-> q, status |-> status,
                 of |-> IF status = "DUPLICATE" THEN outcome[q.scope] ELSE None]

DispatchRefused(q) ==
    /\ Refusal(q) # None /\ AnswersWith(q, Refusal(q))
    /\ UNCHANGED <<owner, first, receiptUse, dispatching, effect, outcome, second>>

\* The owner, the receipt and the key are taken before the adapter is called.
Accepts(q, status) ==
    /\ Refusal(q) = None
    /\ owner' = [owner EXCEPT ![q.dispatch] = q.scope]
    /\ first' = [first EXCEPT ![q.scope] = q]
    /\ receiptUse' = [receiptUse EXCEPT ![q.receipt.id] = q.dispatch]
    /\ outcome' = [outcome EXCEPT ![q.scope] = status]
    /\ AnswersWith(q, status) /\ UNCHANGED second

\* LocalFakeEmbodiedAdapter.dispatch keeps one effect per scope and applies it,
\* whatever comes of it; rollback undoes it by its handle.
Applies(q, state) ==
    /\ effect[q.scope] = None
    /\ effect' = [effect EXCEPT ![q.scope] = [by |-> q.dispatch, state |-> state]]

DispatchCompletes(q) ==
    Accepts(q, "COMPLETED") /\ Applies(q, "applied") /\ UNCHANGED dispatching

DispatchPends(q) ==
    Accepts(q, "PENDING") /\ Applies(q, "applied") /\ dispatching' = dispatching \cup {q.dispatch}

\* The adapter fails or times out after it applied the effect, which the
\* service rolls back before it answers.
DispatchFails(q) ==
    /\ \E status \in {"FAILED_ROLLED_BACK", "TIMED_OUT_ROLLED_BACK"} : Accepts(q, status)
    /\ Applies(q, "rolled_back") /\ UNCHANGED dispatching

\* LocalFakeEmbodiedAdapter.cancel and rollback: undone once, by the handle of the dispatch.
RolledBack(e) == [e EXCEPT !.state = "rolled_back"]

\* cancel: a pending dispatch, named with its tenant, user and correlation id,
\* is cancelled by the adapter and then rolled back; it is pending no more.  The
\* result kept of its request is not touched: it goes on saying PENDING.
CancelDispatch(d) ==
    /\ d \in dispatching
    /\ dispatching' = dispatching \ {d}
    /\ effect' = [effect EXCEPT ![owner[d]] = RolledBack(@)]
    /\ UNCHANGED <<owner, first, receiptUse, outcome, answered, second>>

SecondPasses ==
    /\ second < LastSecond /\ second' = second + 1
    /\ UNCHANGED <<owner, first, receiptUse, dispatching, effect, outcome, answered>>

ActionNext ==
    \/ \E q \in ActionRequests : DispatchRefused(q) \/ DispatchCompletes(q) \/ DispatchPends(q) \/ DispatchFails(q)
    \/ \E d \in Dispatches : CancelDispatch(d)
    \/ SecondPasses

ActionSpec == ActionInit /\ [][ActionNext]_actionVars

-----------------------------------------------------------------------------
(* Properties.                                                              *)

\* Types; a dispatch id stays with the scope of the request it came with.
ActionTypeOK ==
    /\ owner \in [Dispatches -> Scopes \cup {None}]
    /\ first \in [Scopes -> ActionRequests \cup {None}]
    /\ receiptUse \in [ActionReceipts -> Dispatches \cup {None}]
    /\ effect \in [Scopes -> ActionEffects \cup {None}] /\ outcome \in [Scopes -> Outcomes \cup {None}]
    /\ dispatching \subseteq Dispatches /\ (answered # None => answered.to \in ActionRequests)
    /\ \A s \in Scopes : first[s] # None => first[s].scope = s /\ owner[first[s].dispatch] = s

\* dispatch and cancel: the result kept of a scope tells of its effect.  One that completed
\* stands, one that failed or ran late is undone, and what may still be cancelled is kept as
\* PENDING.  That result stays when the dispatch is cancelled: a PENDING effect stands for as
\* long as its dispatch is pending, and is undone from then on.
AnswersTellTheEffect ==
    \A s \in Scopes :
        /\ outcome[s] = None <=> effect[s] = None
        /\ outcome[s] = "COMPLETED" => effect[s].state = "applied"
        /\ outcome[s] = "PENDING" => (effect[s].state = "applied" <=> effect[s].by \in dispatching)
        /\ (effect[s] # None /\ effect[s].by \in dispatching) => outcome[s] = "PENDING"
        /\ outcome[s] \in {"FAILED_ROLLED_BACK", "TIMED_OUT_ROLLED_BACK"} => effect[s].state = "rolled_back"

\* dispatch: whatever has become of the world, the receipt and the other requests since, a
\* request whose effect there is is never told that it was blocked, withdrawn or in conflict,
\* and only such a one is told that it is a duplicate, of the result that its first dispatch got.
RetriesAreRecognised ==
    answered # None =>
        LET accepted == first[answered.to.scope] = answered.to
        IN /\ answered.status \in {"BLOCKED", "CANCELLED", "IDEMPOTENCY_CONFLICT"} => ~accepted
           /\ answered.status = "DUPLICATE" =>
                 accepted /\ effect[answered.to.scope] # None /\ answered.of = outcome[answered.to.scope]

\* A one-time receipt is behind one effect at most.
ReceiptSpentOnce ==
    \A s, t \in Scopes :
        (effect[s] # None /\ effect[t] # None /\ first[s].receipt.id = first[t].receipt.id) => s = t

\* Whatever is retried, failed or cancelled, the effect of a scope is applied
\* once: it is never replaced, nor applied again after it was undone.
NeverAppliedAgain ==
    [][\A s \in Scopes : effect[s] # None =>
          /\ effect'[s] # None /\ effect'[s].by = effect[s].by
          /\ effect[s].state = "rolled_back" => effect'[s].state = "rolled_back"]_actionVars

=============================================================================
