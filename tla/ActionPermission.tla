--------------------------- MODULE ActionPermission ---------------------------
(***************************************************************************)
(* Permission modes, limited grants and approval receipts                  *)
(* (lumina_next/permission_modes_v1.py) and the risk policy that consumes   *)
(* the receipts (lumina_next/risk_policy_v1.py).  The registry is stateful, *)
(* the policy is not: a receipt carries the permission from the moment it   *)
(* is issued to the moment it is used, while modes change and grants are    *)
(* revoked or run out.                                                      *)
(*                                                                         *)
(* Only receipts of the registry exist; identifiers, hashes and wording are *)
(* left out.  A request names its user, its effect class, its target scope, *)
(* whether it can be rolled back and whether its action type is prohibited. *)
(***************************************************************************)
EXTENDS Integers, Sequences, Absent

CONSTANTS PermittedUsers, Grants,
          Effects,        \* a function from the effect classes to [risk, approval, rollback]
          LimitedAuto,    \* LIMITED_AUTO_EFFECTS
          AlwaysConfirm,  \* ALWAYS_CONFIRM_EFFECTS
          RiskRequests,   \* a set of [user, effect, scope, rollback, prohibited]
          ReceiptTtl,     \* MAX_RECEIPT_TTL_SECONDS
          GrantTtl,       \* ttl_seconds
          MaxClock,       \* bound on time
          MaxAudit        \* bound on the audit trail

\* A grant: for a user, an effect and a target, until it expires or is revoked.
GrantRecords ==
    [user : PermittedUsers, effect : LimitedAuto, scope : {q.scope : q \in RiskRequests},
     expires : Nat, revoked : Nat \cup {None}]

ASSUME PermissionAssumption ==
    /\ ReceiptTtl \in Nat \ {0} /\ GrantTtl \in Nat \ {0}
    /\ LimitedAuto \cap AlwaysConfirm = {}
    /\ \A e \in AlwaysConfirm \cup LimitedAuto : e \in DOMAIN Effects /\ Effects[e].approval
    /\ None \notin Grants \cup GrantRecords \cup Nat /\ MaxClock \in Nat
    /\ \A q \in RiskRequests : q.user \in PermittedUsers

VARIABLES clock, mode, grants,
          audit,     \* _events
          receipts   \* the receipts issued: [request, issued, grant, confirmed]

permissionVars == <<clock, mode, grants, audit, receipts>>

Modes == {"PROPOSE_ONLY", "CONFIRM_EACH", "LIMITED_AUTO"}

PermissionInit ==
    /\ clock = 0
    /\ mode = [u \in PermittedUsers |-> "PROPOSE_ONLY"]
    /\ grants = [g \in Grants |-> None]
    /\ audit = <<>>
    /\ receipts = {}

Event(kind, u, detail) ==
    /\ Len(audit) < MaxAudit
    /\ audit' = Append(audit, [kind |-> kind, user |-> u, at |-> clock, detail |-> detail])

SetMode(u, m) ==
    /\ mode' = [mode EXCEPT ![u] = m]
    /\ Event("MODE_CHANGED", u, m)
    /\ UNCHANGED <<clock, grants, receipts>>

\* grant: an id is used once, and only the limited-auto effects are granted.
GrantCreated(g, u, e, scope) ==
    /\ grants[g] = None /\ e \in LimitedAuto
    /\ grants' = [grants EXCEPT ![g] =
                    [user |-> u, effect |-> e, scope |-> scope,
                     expires |-> clock + GrantTtl, revoked |-> None]]
    /\ Event("GRANT_CREATED", u, g)
    /\ UNCHANGED <<clock, mode, receipts>>

\* revoke, by the owner of the grant only.
GrantRevoked(g, u) ==
    /\ grants[g] # None /\ grants[g].user = u /\ grants[g].revoked = None
    /\ grants' = [grants EXCEPT ![g].revoked = clock]
    /\ Event("GRANT_REVOKED", u, g)
    /\ UNCHANGED <<clock, mode, receipts>>

ActiveGrant(g, q) ==
    /\ grants[g] # None
    /\ grants[g].user = q.user /\ grants[g].effect = q.effect /\ grants[g].scope = q.scope
    /\ grants[g].revoked = None /\ grants[g].expires > clock

\* issue_receipt: for the effects that need an approval, on the user's own
\* confirmation, or under a grant of LIMITED_AUTO.
ReceiptIssued(q, confirmed, g) ==
    /\ Effects[q.effect].approval
    /\ mode[q.user] # "PROPOSE_ONLY"
    /\ IF \E h \in Grants : ActiveGrant(h, q) THEN g \in Grants /\ ActiveGrant(g, q)
                                              ELSE g = None
    /\ \/ confirmed
       \/ /\ mode[q.user] = "LIMITED_AUTO" /\ g # None
          /\ q.effect \in LimitedAuto \ AlwaysConfirm
    /\ receipts' = receipts \cup {[request |-> q, issued |-> clock, grant |-> g,
                                   confirmed |-> confirmed]}
    /\ Event("RECEIPT_ISSUED", q.user, q)
    /\ UNCHANGED <<clock, mode, grants>>

\* _validate_receipt: bound to the request, issued and not yet expired.
ReceiptValid(q, rc) ==
    /\ rc # None /\ rc.request = q
    /\ rc.issued <= clock /\ clock < rc.issued + ReceiptTtl

\* evaluate_action_request, with the receipt the caller attached, if any.
Decision(q, rc) ==
    CASE q.prohibited -> "BLOCK"
      [] ~q.prohibited /\ Effects[q.effect].rollback /\ ~q.rollback -> "BLOCK"
      [] ~q.prohibited /\ (Effects[q.effect].rollback => q.rollback) ->
           IF ~Effects[q.effect].approval \/ ReceiptValid(q, rc) THEN "ALLOW"
           ELSE IF rc = None THEN "REQUIRE_CONFIRMATION" ELSE "BLOCK"

PermissionTick ==
    /\ clock < MaxClock
    /\ clock' = clock + 1
    /\ UNCHANGED <<mode, grants, audit, receipts>>

PermissionNext ==
    \/ \E u \in PermittedUsers, m \in Modes : SetMode(u, m)
    \/ \E g \in Grants, q \in RiskRequests : GrantCreated(g, q.user, q.effect, q.scope)
    \/ \E g \in Grants, u \in PermittedUsers : GrantRevoked(g, u)
    \/ \E q \in RiskRequests, confirmed \in BOOLEAN, g \in Grants \cup {None} :
         ReceiptIssued(q, confirmed, g)
    \/ PermissionTick

PermissionSpec == PermissionInit /\ [][PermissionNext]_permissionVars

-----------------------------------------------------------------------------
(* Properties.                                                              *)

\* Types; nothing is recorded before its time.
PermissionTypeOK ==
    /\ clock \in 0..MaxClock /\ mode \in [PermittedUsers -> Modes]
    /\ grants \in [Grants -> GrantRecords \cup {None}]
    /\ \A g \in Grants : grants[g] # None => grants[g].revoked \in 0..clock \cup {None}
    /\ \A rc \in receipts : rc.issued \in 0..clock
    /\ \A i \in DOMAIN audit : audit[i].at <= clock /\ (i > 1 => audit[i - 1].at <= audit[i].at)

\* What the policy allows after an approval was confirmed by the user, or stood
\* under a grant for exactly this user, effect and target that was neither
\* revoked nor expired when the receipt was issued, less than its lifetime ago.
\* Destructive, financial and privilege effects were confirmed.
AllowedIsCovered ==
    \A q \in RiskRequests, rc \in receipts \cup {None} :
        (Effects[q.effect].approval /\ Decision(q, rc) = "ALLOW") =>
        /\ rc.issued > clock - ReceiptTtl
        /\ \/ rc.confirmed
           \/ /\ q.effect \notin AlwaysConfirm
              /\ LET g == grants[rc.grant] IN
                 /\ <<g.user, g.effect, g.scope>> = <<q.user, q.effect, q.scope>>
                 /\ g.expires > rc.issued
                 /\ g.revoked = None \/ g.revoked >= rc.issued

\* The last announcement of a user's mode, if there is one.
ChangesMode(u, i) == audit[i].kind = "MODE_CHANGED" /\ audit[i].user = u
LastChange(u, i) ==
    ChangesMode(u, i) /\ \A j \in DOMAIN audit : ChangesMode(u, j) => j =< i

\* A user who has been in PROPOSE_ONLY for the lifetime of a receipt is allowed
\* nothing that needs an approval: receipts do not carry permissions further.
ProposeOnlyTakesHold ==
    \A q \in RiskRequests, rc \in receipts \cup {None} :
        /\ Effects[q.effect].approval
        /\ \A i \in DOMAIN audit :
              LastChange(q.user, i) => /\ audit[i].detail = "PROPOSE_ONLY"
                                       /\ audit[i].at =< clock - ReceiptTtl
        => Decision(q, rc) # "ALLOW"

\* The append-only audit trail alone determines who may do what: the mode of
\* each user is the last one announced, the grants in force are the ones
\* announced and not announced as revoked.
ModesAreTold ==
    \A u \in PermittedUsers :
        /\ \A i \in DOMAIN audit : LastChange(u, i) => mode[u] = audit[i].detail
        /\ mode[u] # "PROPOSE_ONLY" => \E i \in DOMAIN audit : LastChange(u, i)
Told(kind, g) == \E i \in DOMAIN audit : audit[i].kind = kind /\ audit[i].detail = g
AuditDeterminesState ==
    /\ ModesAreTold
    /\ \A g \in Grants :
         /\ (grants[g] # None) <=> Told("GRANT_CREATED", g)
         /\ (grants[g] # None /\ grants[g].revoked # None) <=> Told("GRANT_REVOKED", g)

=============================================================================
