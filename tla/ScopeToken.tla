------------------------------ MODULE ScopeToken ------------------------------
(***************************************************************************)
(* lumina_next/multi_user_identity_v1.py: one-time tokens that bind an     *)
(* identity to one kind of request.  The issuer keeps the ids it issued    *)
(* and the ids that were used; everything else travels in the token, which *)
(* its holder presents with a request, perhaps of somebody else, at a time *)
(* that the caller names.  Sealed tokens cannot be altered.                *)
(***************************************************************************)
EXTENDS Naturals, FiniteSets, Absent

CONSTANTS
    Subjects,         \* tenant, user and session of an identity
    RolePermissions,  \* ROLE_PERMISSIONS: a set of operations for each role
    TokenIds,         \* ids the callers choose
    TokenClock,       \* instants (bound)
    MaxTtl,           \* MAX_TOKEN_TTL_SECONDS
    MaxGrants         \* authorizations (bound)

ASSUME TokenAssumption ==
    /\ TokenClock \subseteq Nat /\ MaxTtl \in Nat \ {0} /\ MaxGrants \in Nat
    /\ \A r \in DOMAIN RolePermissions : RolePermissions[r] \subseteq {"memory", "action", "world"}

VARIABLES
    tokens,     \* the tokens that were issued; their ids are _issued
    consumed,   \* _consumed
    granted,    \* the authorizations, in the order they were given
    refused     \* the last answer was an error

tokenVars == <<tokens, consumed, granted, refused>>

TokenInit == tokens = {} /\ consumed = {} /\ granted = {} /\ refused = FALSE

\* validate_identity_context: the permissions asked for are some of the role's.
Identities ==
    {c \in [subject : Subjects, role : DOMAIN RolePermissions, may : SUBSET {"memory", "action", "world"}] :
        c.may # {} /\ c.may \subseteq RolePermissions[c.role]}

\* issue_scope_token: one operation of the identity's, for a short time.
IssueToken(id, who, operation, at, until) ==
    /\ \A t \in tokens : t.id # id
    /\ operation \in {"memory", "action"} \cap who.may
    /\ at < until /\ until - at =< MaxTtl
    /\ tokens' = tokens \cup {[id |-> id, who |-> who, operation |-> operation, at |-> at, until |-> until]}
    /\ refused' = FALSE /\ UNCHANGED <<consumed, granted>>

\* validate_scope_token.
TokenAccepted(t, operation, now) ==
    /\ t.operation = operation /\ operation \in t.who.may
    /\ t.at =< now /\ now < t.until
    /\ t.id \notin consumed

Refuse == refused' = TRUE /\ UNCHANGED <<tokens, consumed, granted>>

Grant(t, request, now, outcome) ==
    /\ Cardinality(granted) < MaxGrants
    /\ consumed' = consumed \cup {t.id} /\ refused' = FALSE
    /\ granted' = granted \cup {[token |-> t, for |-> request, at |-> now, outcome |-> outcome, nth |-> Cardinality(granted)]}
    /\ UNCHANGED tokens

\* authorize_memory_retrieval: the token, the request against the token, the token again and
\* used up, then the retrieval, whose failure leaves the token used up.
RetrieveMemory(t, request, now) ==
    LET granting == TokenAccepted(t, "memory", now) /\ request = t.who.subject
    IN \/ granting /\ Grant(t, request, now, "read")
       \/ granting /\ refused' = TRUE /\ consumed' = consumed \cup {t.id} /\ UNCHANGED <<tokens, granted>>
       \/ ~granting /\ Refuse

\* authorize_action: the same, and a policy that blocks the action uses the token up too.
Evaluate(t, request, now) ==
    LET granting == TokenAccepted(t, "action", now) /\ request = t.who.subject
    IN \/ \E outcome \in {"ALLOW", "BLOCK"} : granting /\ Grant(t, request, now, outcome)
       \/ ~granting /\ Refuse

TokenNext ==
    \/ \E id \in TokenIds, who \in Identities, operation \in {"memory", "action"}, at, until \in TokenClock :
          IssueToken(id, who, operation, at, until)
    \/ \E t \in tokens, request \in Subjects, now \in TokenClock :
          RetrieveMemory(t, request, now) \/ Evaluate(t, request, now)

TokenSpec == TokenInit /\ [][TokenNext]_tokenVars

-----------------------------------------------------------------------------

\* Ids name tokens, and only tokens that were issued are used.
TokenTypeOK ==
    /\ \A t, u \in tokens : t.id = u.id => t = u
    /\ consumed \subseteq {t.id : t \in tokens}
    /\ \A g \in granted : g.token \in tokens /\ g.token.id \in consumed

\* One token, one authorization: whoever presents it again, for whichever request, at
\* whichever time the caller names, it authorizes nothing more.
OneGrantPerToken == \A g, h \in granted : g.token.id = h.token.id => g = h

\* No authorization reaches beyond its identity: it is for the subject the token was issued
\* to, for what the role of that subject may do, and not for world state.
GrantsStayInScope ==
    \A g \in granted :
        /\ g.for = g.token.who.subject
        /\ (IF g.outcome = "read" THEN "memory" ELSE "action") \in RolePermissions[g.token.who.role]
        /\ g.at < g.token.at + MaxTtl
=============================================================================
