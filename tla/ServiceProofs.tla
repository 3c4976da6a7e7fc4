--------------------------- MODULE ServiceProofs ---------------------------
(***************************************************************************)
(* Proofs about services that are called in any order: tokens that         *)
(* authorize once, receipts that carry a permission through time, actions  *)
(* whose effects take place once, nights that are consolidated one at a    *)
(* time, a consent that outlives the process, repairs that are decided on  *)
(* what was seen, and rows that are found by what is their own.  Their     *)
(* variables have nothing to do with each other.                           *)
(***************************************************************************)
EXTENDS ScopeToken, ActionPermission, EmbodiedAction, SleepCycle, MemoryGovernance, MemoryStore,
        FiniteSetTheorems, SequenceTheorems, WellFoundedInduction, TLAPS

-----------------------------------------------------------------------------
(* ScopeToken                                                              *)

\* A token is for something its identity may do, for a short time.
TokensAreShort ==
    \A t \in tokens :
        /\ t.who \in Identities /\ t.operation \in t.who.may
        /\ t.at \in Nat /\ t.until \in Nat /\ t.until - t.at =< MaxTtl

\* An authorization was given for the operation its token names, within its time.
GrantsAreCovered ==
    \A g \in granted :
        /\ g.for = g.token.who.subject /\ g.at \in Nat /\ g.at < g.token.until
        /\ g.token.operation = IF g.outcome = "read" THEN "memory" ELSE "action"

TokenInv == TokenTypeOK /\ TokensAreShort /\ OneGrantPerToken /\ GrantsAreCovered

LEMMA TokenInvInit == TokenInit => TokenInv
  BY DEF TokenInit, TokenInv, TokenTypeOK, TokensAreShort, OneGrantPerToken, GrantsAreCovered

\* A grant uses its token up, which nobody had used before.
LEMMA GrantKeeps ==
    ASSUME TokenInv, NEW t \in tokens, NEW asked, NEW now \in TokenClock, NEW outcome0,
           TokenAccepted(t, IF outcome0 = "read" THEN "memory" ELSE "action", now),
           asked = t.who.subject, Grant(t, asked, now, outcome0)
    PROVE  TokenInv'
<1> DEFINE new == [token |-> t, for |-> asked, at |-> now, outcome |-> outcome0,
                   nth |-> Cardinality(granted)]
<1>1. /\ tokens' = tokens /\ consumed' = consumed \cup {t.id} /\ granted' = granted \cup {new}
      /\ new.token = t /\ new.for = asked /\ new.at = now /\ new.outcome = outcome0
  BY DEF Grant
<1>2. now \in Nat /\ now < t.until /\ t.id \notin consumed
      /\ t.operation = IF outcome0 = "read" THEN "memory" ELSE "action"
  BY TokenAssumption DEF TokenAccepted
<1> HIDE DEF new
<1>3. TokenTypeOK' /\ OneGrantPerToken'
  BY <1>1, <1>2 DEF TokenInv, TokenTypeOK, OneGrantPerToken
<1>4. TokensAreShort' /\ GrantsAreCovered'
  BY <1>1, <1>2 DEF TokenInv, TokensAreShort, GrantsAreCovered
<1> QED BY <1>3, <1>4 DEF TokenInv

LEMMA TokenInvStep == TokenInv /\ [TokenNext]_tokenVars => TokenInv'
<1> SUFFICES ASSUME TokenInv, [TokenNext]_tokenVars PROVE TokenInv'
  OBVIOUS
<1>1. ASSUME NEW id \in TokenIds, NEW who \in Identities, NEW operation \in {"memory", "action"},
             NEW at \in TokenClock, NEW until \in TokenClock,
             IssueToken(id, who, operation, at, until)
      PROVE  TokenInv'
  <2> DEFINE t == [id |-> id, who |-> who, operation |-> operation, at |-> at, until |-> until]
  <2>1. /\ tokens' = tokens \cup {t} /\ consumed' = consumed /\ granted' = granted
        /\ t.id = id /\ t.who = who /\ t.operation = operation /\ t.at = at /\ t.until = until
        /\ \A u \in tokens : u.id # id
        /\ operation \in who.may /\ at \in Nat /\ until \in Nat /\ until - at =< MaxTtl
    BY <1>1, TokenAssumption DEF IssueToken
  <2> HIDE DEF t
  <2> QED BY <2>1 DEF TokenInv, TokenTypeOK, TokensAreShort, OneGrantPerToken, GrantsAreCovered
<1>2. ASSUME NEW t \in tokens, NEW asked \in Subjects, NEW now \in TokenClock,
             RetrieveMemory(t, asked, now)
      PROVE  TokenInv'
  <2>1. CASE Grant(t, asked, now, "read") /\ TokenAccepted(t, "memory", now)
             /\ asked = t.who.subject
    BY <2>1, GrantKeeps
  <2>2. CASE UNCHANGED <<tokens, granted>> /\ consumed' \in {consumed, consumed \cup {t.id}}
    BY <2>2 DEF TokenInv, TokenTypeOK, TokensAreShort, OneGrantPerToken, GrantsAreCovered
  <2> QED BY <1>2, <2>1, <2>2 DEF RetrieveMemory, Refuse
<1>3. ASSUME NEW t \in tokens, NEW asked \in Subjects, NEW now \in TokenClock,
             Evaluate(t, asked, now)
      PROVE  TokenInv'
  <2>1. ASSUME NEW outcome0 \in {"ALLOW", "BLOCK"}, Grant(t, asked, now, outcome0),
               TokenAccepted(t, "action", now), asked = t.who.subject
        PROVE  TokenInv'
    BY <2>1, GrantKeeps
  <2>2. CASE UNCHANGED <<tokens, consumed, granted>>
    BY <2>2 DEF TokenInv, TokenTypeOK, TokensAreShort, OneGrantPerToken, GrantsAreCovered
  <2> QED BY <1>3, <2>1, <2>2 DEF Evaluate, Refuse
<1>4. CASE UNCHANGED tokenVars
  BY <1>4 DEF tokenVars, TokenInv, TokenTypeOK, TokensAreShort, OneGrantPerToken, GrantsAreCovered
<1> QED BY <1>1, <1>2, <1>3, <1>4 DEF TokenNext

\* Whoever presents a token again, in whichever request and at whichever time the caller
\* names (authorize_memory_retrieval, authorize_action), it authorizes once, and nothing
\* beyond its identity.
THEOREM TokensAuthorizeOnce ==
    TokenSpec => [](TokenTypeOK /\ OneGrantPerToken /\ GrantsStayInScope)
<1>1. TokenInv => GrantsStayInScope
  <2> SUFFICES ASSUME TokenInv, NEW g \in granted
               PROVE  /\ g.for = g.token.who.subject
                      /\ (IF g.outcome = "read" THEN "memory" ELSE "action")
                            \in RolePermissions[g.token.who.role]
                      /\ g.at < g.token.at + MaxTtl
    BY DEF GrantsStayInScope
  <2>1. g.token \in tokens /\ g.token.who \in Identities
    BY DEF TokenInv, TokenTypeOK, TokensAreShort
  <2>2. g.token.who.may \subseteq RolePermissions[g.token.who.role]
    BY <2>1 DEF Identities
  <2> QED BY <2>1, <2>2, TokenAssumption DEF TokenInv, TokensAreShort, GrantsAreCovered
<1>2. TokenSpec => []TokenInv
  BY TokenInvInit, TokenInvStep, PTL DEF TokenSpec
<1>3. TokenInv => TokenTypeOK /\ OneGrantPerToken
  BY DEF TokenInv
<1> QED BY <1>1, <1>2, <1>3, PTL
-----------------------------------------------------------------------------
(* ActionPermission                                                        *)

\* PermissionTypeOK without the order of the trail.
PermissionTypes ==
    /\ clock \in 0..MaxClock /\ mode \in [PermittedUsers -> Modes]
    /\ grants \in [Grants -> GrantRecords \cup {None}]
    /\ \A g \in Grants : grants[g] # None => grants[g].revoked \in 0..clock \cup {None}
    /\ \A rc \in receipts : rc.issued \in 0..clock /\ rc.request \in RiskRequests

\* A receipt was confirmed, or issued under a grant for its request which was then in force.
CoveredReceipt(rc) ==
    \/ rc.confirmed
    \/ /\ rc.request.effect \notin AlwaysConfirm /\ rc.grant \in Grants
       /\ LET g == grants[rc.grant] IN
          /\ g # None
          /\ <<g.user, g.effect, g.scope>> = <<rc.request.user, rc.request.effect, rc.request.scope>>
          /\ g.expires > rc.issued
          /\ g.revoked = None \/ g.revoked >= rc.issued

PermissionInv == PermissionTypes /\ \A rc \in receipts : CoveredReceipt(rc)

LEMMA PermissionInvInit == PermissionInit => PermissionInv
  BY PermissionAssumption DEF PermissionInit, PermissionInv, PermissionTypes, Modes

LEMMA PermissionInvStep == PermissionInv /\ [PermissionNext]_permissionVars => PermissionInv'
<1> SUFFICES ASSUME PermissionInv, [PermissionNext]_permissionVars PROVE PermissionInv'
  OBVIOUS
<1> USE PermissionAssumption
<1>0. clock \in Nat
  BY DEF PermissionInv, PermissionTypes
<1>1. ASSUME NEW u \in PermittedUsers, NEW m \in Modes, SetMode(u, m) PROVE PermissionInv'
  BY <1>1 DEF SetMode, PermissionInv, PermissionTypes, CoveredReceipt
<1>2. ASSUME NEW g \in Grants, NEW q \in RiskRequests, GrantCreated(g, q.user, q.effect, q.scope)
      PROVE  PermissionInv'
  <2> DEFINE new == [user |-> q.user, effect |-> q.effect, scope |-> q.scope,
                     expires |-> clock + GrantTtl, revoked |-> None]
  <2>1. new \in GrantRecords /\ new.revoked = None
    BY <1>0, <1>2 DEF GrantCreated, GrantRecords
  <2>2. /\ grants[g] = None /\ grants' = [grants EXCEPT ![g] = new]
        /\ UNCHANGED <<clock, mode, receipts>>
    BY <1>2 DEF GrantCreated
  <2> HIDE DEF new
  <2>3. PermissionTypes'
    BY <2>1, <2>2 DEF PermissionInv, PermissionTypes
  <2>4. \A h \in Grants : grants[h] # None => grants'[h] = grants[h]
    BY <2>2 DEF PermissionInv, PermissionTypes
  <2> QED BY <2>2, <2>3, <2>4 DEF PermissionInv, CoveredReceipt
<1>3. ASSUME NEW g \in Grants, NEW u \in PermittedUsers, GrantRevoked(g, u) PROVE PermissionInv'
  <2> DEFINE new == [grants[g] EXCEPT !.revoked = clock]
  <2>1. grants[g] \in GrantRecords
    BY <1>3 DEF GrantRevoked, PermissionInv, PermissionTypes
  <2>2. /\ new \in GrantRecords /\ new.revoked = clock /\ new # None
        /\ new.user = grants[g].user /\ new.effect = grants[g].effect
        /\ new.scope = grants[g].scope /\ new.expires = grants[g].expires
    BY <1>0, <2>1 DEF GrantRecords
  <2>3. grants' = [grants EXCEPT ![g] = new] /\ UNCHANGED <<clock, mode, receipts>>
    BY <1>3 DEF GrantRevoked
  <2> HIDE DEF new
  <2>4. PermissionTypes'
    BY <1>0, <2>2, <2>3 DEF PermissionInv, PermissionTypes
  <2>5. \A rc \in receipts : CoveredReceipt(rc)'
    BY <1>0, <2>2, <2>3 DEF PermissionInv, PermissionTypes, CoveredReceipt
  <2> QED BY <2>3, <2>4, <2>5 DEF PermissionInv
<1>4. ASSUME NEW q \in RiskRequests, NEW confirmed \in BOOLEAN, NEW g \in Grants \cup {None},
             ReceiptIssued(q, confirmed, g)
      PROVE  PermissionInv'
  <2> DEFINE new == [request |-> q, issued |-> clock, grant |-> g, confirmed |-> confirmed]
  <2>1. /\ receipts' = receipts \cup {new} /\ UNCHANGED <<clock, mode, grants>>
        /\ new.request = q /\ new.issued = clock /\ new.grant = g /\ new.confirmed = confirmed
        /\ \/ confirmed
           \/ g # None /\ q.effect \notin AlwaysConfirm /\ g \in Grants /\ ActiveGrant(g, q)
    BY <1>4 DEF ReceiptIssued
  <2> HIDE DEF new
  <2>2. CoveredReceipt(new)
    BY <1>0, <2>1 DEF CoveredReceipt, ActiveGrant
  <2>3. PermissionTypes'
    BY <1>0, <2>1 DEF PermissionInv, PermissionTypes
  <2> QED BY <2>1, <2>2, <2>3 DEF PermissionInv, CoveredReceipt
<1>5. CASE PermissionTick
  BY <1>0, <1>5 DEF PermissionTick, PermissionInv, PermissionTypes, CoveredReceipt
<1>6. CASE UNCHANGED permissionVars
  BY <1>6 DEF permissionVars, PermissionInv, PermissionTypes, CoveredReceipt
<1> QED BY <1>1, <1>2, <1>3, <1>4, <1>5, <1>6 DEF PermissionNext

\* What the audit trail records, in the order of time.
Announcements ==
    [kind : {"MODE_CHANGED", "GRANT_CREATED", "GRANT_REVOKED", "RECEIPT_ISSUED"},
     user : PermittedUsers, at : Nat, detail : Modes \cup Grants \cup RiskRequests]

AuditInOrder ==
    /\ audit \in Seq(Announcements)
    /\ \A i \in DOMAIN audit : audit[i].at =< clock /\ (i > 1 => audit[i - 1].at =< audit[i].at)

\* The receipts of a user who is in PROPOSE_ONLY are from before that was announced.
ReceiptsPrecede ==
    \A rc \in receipts : mode[rc.request.user] = "PROPOSE_ONLY" =>
        \E i \in DOMAIN audit : LastChange(rc.request.user, i) /\ rc.issued =< audit[i].at

TrailInv == PermissionInv /\ AuditInOrder /\ AuditDeterminesState /\ ReceiptsPrecede

LEMMA TrailInvInit == PermissionInit => TrailInv
<1> SUFFICES ASSUME PermissionInit PROVE AuditInOrder /\ AuditDeterminesState /\ ReceiptsPrecede
  BY PermissionInvInit DEF TrailInv
<1>1. audit \in Seq(Announcements) /\ DOMAIN audit = {}
  BY DEF PermissionInit
<1> QED BY <1>1 DEF PermissionInit, AuditInOrder, AuditDeterminesState, ReceiptsPrecede, ModesAreTold, Told

\* An event is the last of the trail, and the last change of its user if it is one.
LEMMA Announced ==
    ASSUME TrailInv, NEW u \in PermittedUsers, NEW detail \in Modes \cup Grants \cup RiskRequests,
           NEW kind \in {"MODE_CHANGED", "GRANT_CREATED", "GRANT_REVOKED", "RECEIPT_ISSUED"},
           Event(kind, u, detail), clock' = clock
    PROVE  LET n == Len(audit) + 1 IN
           /\ AuditInOrder' /\ DOMAIN audit' = DOMAIN audit \cup {n} /\ n \notin DOMAIN audit
           /\ audit'[n] = [kind |-> kind, user |-> u, at |-> clock, detail |-> detail]
           /\ \A i \in DOMAIN audit : audit'[i] = audit[i]
           /\ \A v \in PermittedUsers : ~(kind = "MODE_CHANGED" /\ u = v) =>
                \A i \in DOMAIN audit' : LastChange(v, i)' <=> i \in DOMAIN audit /\ LastChange(v, i)
           /\ kind = "MODE_CHANGED" => \A i \in DOMAIN audit' : LastChange(u, i)' <=> i = n
<1> DEFINE n == Len(audit) + 1
           e == [kind |-> kind, user |-> u, at |-> clock, detail |-> detail]
<1>1. e \in Announcements /\ e.kind = kind /\ e.user = u /\ e.at = clock /\ clock \in Nat
  BY PermissionAssumption DEF Announcements, TrailInv, PermissionInv, PermissionTypes
<1>2. audit' = Append(audit, e) /\ audit \in Seq(Announcements)
  BY DEF Event, TrailInv, AuditInOrder
<1> HIDE DEF e
<1>3. /\ audit' \in Seq(Announcements) /\ DOMAIN audit' = 1..n /\ audit'[n] = e
      /\ \A i \in 1..Len(audit) : audit'[i] = audit[i]
  BY <1>1, <1>2, AppendProperties
<1>4. DOMAIN audit = 1..Len(audit) /\ Len(audit) \in Nat
  BY <1>2
<1>5. AuditInOrder'
  <2>1. \A i \in 1..Len(audit) : audit[i].at \in Nat /\ audit[i].at =< clock
    <3>1. \A i \in 1..Len(audit) : audit[i] \in Announcements
      BY <1>2
    <3>2. \A i \in 1..Len(audit) : audit[i].at =< clock
      BY <1>4 DEF TrailInv, AuditInOrder
    <3> QED BY <3>1, <3>2 DEF Announcements
  <2>2. ASSUME NEW i \in 1..n PROVE audit'[i].at =< clock /\ (i > 1 => audit'[i - 1].at =< audit'[i].at)
    <3>1. CASE i = n
      BY <1>1, <1>3, <1>4, <2>1, <3>1
    <3>2. CASE i # n
      <4>1. i \in DOMAIN audit /\ audit'[i] = audit[i] /\ clock' = clock
        BY <1>3, <1>4, <3>2
      <4>2. i > 1 => i - 1 \in 1..Len(audit)
        BY <1>4, <4>1
      <4>3. i > 1 => audit'[i - 1] = audit[i - 1]
        BY <1>3, <4>2
      <4> QED BY <4>1, <4>3 DEF TrailInv, AuditInOrder
    <3> QED BY <3>1, <3>2
  <2> QED BY <1>3, <2>2 DEF AuditInOrder
<1>6. ASSUME NEW v \in PermittedUsers, ~(kind = "MODE_CHANGED" /\ u = v), NEW i \in DOMAIN audit'
      PROVE  LastChange(v, i)' <=> i \in DOMAIN audit /\ LastChange(v, i)
  BY <1>1, <1>3, <1>4, <1>6 DEF LastChange, ChangesMode
<1>7. ASSUME kind = "MODE_CHANGED", NEW i \in DOMAIN audit' PROVE LastChange(u, i)' <=> i = n
  BY <1>1, <1>3, <1>4, <1>7 DEF LastChange, ChangesMode
<1> QED BY <1>3, <1>4, <1>5, <1>6, <1>7 DEF e

LEMMA TrailInvStep == TrailInv /\ [PermissionNext]_permissionVars => TrailInv'
<1> SUFFICES ASSUME TrailInv, [PermissionNext]_permissionVars
             PROVE  (AuditInOrder /\ AuditDeterminesState /\ ReceiptsPrecede)'
  BY PermissionInvStep DEF TrailInv
<1> USE PermissionAssumption
<1>0. /\ clock \in Nat /\ mode \in [PermittedUsers -> Modes]
      /\ \A g \in Grants : grants[g] \in GrantRecords \cup {None}
      /\ \A rc \in receipts : rc.issued \in 0..clock /\ rc.request.user \in PermittedUsers
      /\ AuditInOrder /\ AuditDeterminesState /\ ReceiptsPrecede
  BY DEF TrailInv, PermissionInv, PermissionTypes
<1>1. ASSUME NEW u \in PermittedUsers, NEW m \in Modes, SetMode(u, m)
      PROVE  (AuditInOrder /\ AuditDeterminesState /\ ReceiptsPrecede)'
  <2>1. /\ Event("MODE_CHANGED", u, m) /\ clock' = clock /\ grants' = grants
        /\ receipts' = receipts /\ mode' = [mode EXCEPT ![u] = m]
    BY <1>1 DEF SetMode
  <2>2. /\ AuditInOrder' /\ DOMAIN audit' = DOMAIN audit \cup {Len(audit) + 1}
        /\ audit'[Len(audit) + 1] = [kind |-> "MODE_CHANGED", user |-> u, at |-> clock, detail |-> m]
        /\ \A i \in DOMAIN audit : audit'[i] = audit[i]
        /\ \A v \in PermittedUsers : u # v =>
             \A i \in DOMAIN audit' : LastChange(v, i)' <=> i \in DOMAIN audit /\ LastChange(v, i)
        /\ \A i \in DOMAIN audit' : LastChange(u, i)' <=> i = Len(audit) + 1
    BY <2>1, Announced
  <2>3. AuditDeterminesState'
    <3>1. ASSUME NEW v \in PermittedUsers
          PROVE  /\ \A i \in DOMAIN audit' : LastChange(v, i)' => mode'[v] = audit'[i].detail
                 /\ mode'[v] # "PROPOSE_ONLY" => \E i \in DOMAIN audit' : LastChange(v, i)'
      BY <1>0, <2>1, <2>2 DEF AuditDeterminesState, ModesAreTold
    <3>2. ModesAreTold'
      BY <3>1 DEF ModesAreTold
    <3>3. \A g \in Grants : /\ Told("GRANT_CREATED", g)' <=> Told("GRANT_CREATED", g)
                            /\ Told("GRANT_REVOKED", g)' <=> Told("GRANT_REVOKED", g)
      BY <2>2 DEF Told
    <3>4. \A g \in Grants : grants'[g] = grants[g]
      BY <2>1
    <3> QED BY <1>0, <3>2, <3>3, <3>4 DEF AuditDeterminesState
  <2>4. ReceiptsPrecede'
    <3> SUFFICES ASSUME NEW rc \in receipts, mode'[rc.request.user] = "PROPOSE_ONLY"
                 PROVE  \E i \in DOMAIN audit' :
                           LastChange(rc.request.user, i)' /\ rc.issued =< audit'[i].at
      BY <2>1 DEF ReceiptsPrecede
    <3>1. CASE rc.request.user = u
      BY <1>0, <2>2, <3>1
    <3>2. CASE rc.request.user # u
      BY <1>0, <2>1, <2>2, <3>2 DEF ReceiptsPrecede
    <3> QED BY <3>1, <3>2
  <2> QED BY <2>2, <2>3, <2>4
\* The other events change no mode.
<1>2. ASSUME NEW kind \in {"GRANT_CREATED", "GRANT_REVOKED", "RECEIPT_ISSUED"},
             NEW u \in PermittedUsers, NEW detail \in Modes \cup Grants \cup RiskRequests,
             Event(kind, u, detail), clock' = clock, mode' = mode
      PROVE  /\ AuditInOrder' /\ ModesAreTold'
             /\ \A k, d : Told(k, d)' <=> (Told(k, d) \/ (k = kind /\ d = detail))
             /\ receipts' = receipts => ReceiptsPrecede'
             /\ \A rc : (/\ receipts' = receipts \cup {rc} /\ rc.request.user \in PermittedUsers
                         /\ mode[rc.request.user] # "PROPOSE_ONLY") => ReceiptsPrecede'
  <2>1. /\ AuditInOrder' /\ DOMAIN audit' = DOMAIN audit \cup {Len(audit) + 1}
        /\ audit'[Len(audit) + 1] = [kind |-> kind, user |-> u, at |-> clock, detail |-> detail]
        /\ \A i \in DOMAIN audit : audit'[i] = audit[i]
        /\ \A v \in PermittedUsers :
             \A i \in DOMAIN audit' : LastChange(v, i)' <=> i \in DOMAIN audit /\ LastChange(v, i)
    <3>1. CASE kind = "GRANT_CREATED"
      BY <1>2, <3>1, Announced
    <3>2. CASE kind = "GRANT_REVOKED"
      BY <1>2, <3>2, Announced
    <3>3. CASE kind = "RECEIPT_ISSUED"
      BY <1>2, <3>3, Announced
    <3> QED BY <3>1, <3>2, <3>3
  <2>2. ModesAreTold'
    BY <1>0, <1>2, <2>1 DEF AuditDeterminesState, ModesAreTold
  <2>3. \A k, d : Told(k, d)' <=> (Told(k, d) \/ (k = kind /\ d = detail))
    BY <2>1 DEF Told
  <2>4. \A rc \in receipts : mode'[rc.request.user] = "PROPOSE_ONLY" =>
           \E i \in DOMAIN audit' : LastChange(rc.request.user, i)' /\ rc.issued =< audit'[i].at
    BY <1>0, <1>2, <2>1 DEF ReceiptsPrecede
  <2> QED BY <1>2, <2>1, <2>2, <2>3, <2>4 DEF ReceiptsPrecede
<1>3. ASSUME NEW g \in Grants, NEW q \in RiskRequests, GrantCreated(g, q.user, q.effect, q.scope)
      PROVE  (AuditInOrder /\ AuditDeterminesState /\ ReceiptsPrecede)'
  <2> DEFINE new == [user |-> q.user, effect |-> q.effect, scope |-> q.scope,
                     expires |-> clock + GrantTtl, revoked |-> None]
  <2>1. new \in GrantRecords /\ new.revoked = None
    BY <1>0, <1>3 DEF GrantCreated, GrantRecords
  <2>2. /\ Event("GRANT_CREATED", q.user, g) /\ clock' = clock /\ mode' = mode
        /\ receipts' = receipts /\ grants' = [grants EXCEPT ![g] = new] /\ grants[g] = None
    BY <1>3 DEF GrantCreated
  <2> HIDE DEF new
  <2>3. \A h \in Grants : grants'[h] = IF h = g THEN new ELSE grants[h]
    BY <2>2 DEF TrailInv, PermissionInv, PermissionTypes
  <2>4. \A h \in Grants :
          /\ (grants'[h] # None) <=> Told("GRANT_CREATED", h)'
          /\ (grants'[h] # None /\ grants'[h].revoked # None) <=> Told("GRANT_REVOKED", h)'
    BY <1>0, <1>2, <2>1, <2>2, <2>3 DEF AuditDeterminesState
  <2> QED BY <1>2, <2>2, <2>4 DEF AuditDeterminesState
<1>4. ASSUME NEW g \in Grants, NEW u \in PermittedUsers, GrantRevoked(g, u)
      PROVE  (AuditInOrder /\ AuditDeterminesState /\ ReceiptsPrecede)'
  <2> DEFINE new == [grants[g] EXCEPT !.revoked = clock]
  <2>1. new \in GrantRecords /\ new.revoked = clock
    BY <1>0, <1>4 DEF GrantRevoked, GrantRecords
  <2>2. /\ Event("GRANT_REVOKED", u, g) /\ clock' = clock /\ mode' = mode
        /\ receipts' = receipts /\ grants' = [grants EXCEPT ![g] = new] /\ grants[g] # None
    BY <1>4 DEF GrantRevoked
  <2>a. None # clock
    BY <1>0
  <2> HIDE DEF new
  <2>3. \A h \in Grants : grants'[h] = IF h = g THEN new ELSE grants[h]
    BY <2>2 DEF TrailInv, PermissionInv, PermissionTypes
  <2>4. \A h \in Grants :
          /\ (grants'[h] # None) <=> Told("GRANT_CREATED", h)'
          /\ (grants'[h] # None /\ grants'[h].revoked # None) <=> Told("GRANT_REVOKED", h)'
    BY <1>0, <1>2, <2>1, <2>2, <2>3, <2>a DEF AuditDeterminesState
  <2> QED BY <1>2, <2>2, <2>4 DEF AuditDeterminesState
<1>5. ASSUME NEW q \in RiskRequests, NEW confirmed \in BOOLEAN, NEW g \in Grants \cup {None},
             ReceiptIssued(q, confirmed, g)
      PROVE  (AuditInOrder /\ AuditDeterminesState /\ ReceiptsPrecede)'
  <2> DEFINE new == [request |-> q, issued |-> clock, grant |-> g, confirmed |-> confirmed]
  <2>1. /\ Event("RECEIPT_ISSUED", q.user, q) /\ clock' = clock /\ mode' = mode /\ grants' = grants
        /\ receipts' = receipts \cup {new} /\ new.request.user \in PermittedUsers
        /\ mode[new.request.user] # "PROPOSE_ONLY"
    BY <1>5 DEF ReceiptIssued
  <2> HIDE DEF new
  <2>2. \A h \in Grants : /\ Told("GRANT_CREATED", h)' <=> Told("GRANT_CREATED", h)
                          /\ Told("GRANT_REVOKED", h)' <=> Told("GRANT_REVOKED", h)
    BY <1>2, <2>1
  <2> QED BY <1>0, <1>2, <2>1, <2>2 DEF AuditDeterminesState
<1>6. CASE PermissionTick \/ UNCHANGED permissionVars
  <2>1. /\ audit' = audit /\ mode' = mode /\ grants' = grants /\ receipts' = receipts
        /\ clock' \in Nat /\ clock =< clock'
    BY <1>0, <1>6 DEF PermissionTick, permissionVars
  <2>2. AuditInOrder'
    <3>1. \A i \in DOMAIN audit : audit[i] \in Announcements
      BY <1>0 DEF AuditInOrder
    <3>2. \A i \in DOMAIN audit : audit[i].at \in Nat
      BY <3>1 DEF Announcements
    <3> QED BY <1>0, <2>1, <3>2 DEF AuditInOrder
  <2>3. \A u \in PermittedUsers, i \in DOMAIN audit : LastChange(u, i)' <=> LastChange(u, i)
    BY <2>1 DEF LastChange, ChangesMode
  <2>4. \A k, d : Told(k, d)' <=> Told(k, d)
    BY <2>1 DEF Told
  <2>5. ModesAreTold'
    BY <1>0, <2>1, <2>3 DEF AuditDeterminesState, ModesAreTold
  <2> QED BY <1>0, <2>1, <2>2, <2>3, <2>4, <2>5 DEF AuditDeterminesState, ReceiptsPrecede
<1> QED BY <1>1, <1>3, <1>4, <1>5, <1>6 DEF PermissionNext

\* evaluate_action_request allows what needs an approval only with a receipt that is young
\* enough and was confirmed, or stood under a grant for just this when it was issued, whatever
\* has become of modes and grants in between.
THEOREM AllowedIsAlwaysCovered == PermissionSpec => []AllowedIsCovered
<1>1. PermissionInv => AllowedIsCovered
  <2> SUFFICES ASSUME PermissionInv, NEW q \in RiskRequests, NEW rc \in receipts \cup {None},
                      Effects[q.effect].approval, Decision(q, rc) = "ALLOW"
               PROVE  /\ rc.issued > clock - ReceiptTtl
                      /\ \/ rc.confirmed
                         \/ /\ q.effect \notin AlwaysConfirm
                            /\ LET g == grants[rc.grant] IN
                               /\ <<g.user, g.effect, g.scope>> = <<q.user, q.effect, q.scope>>
                               /\ g.expires > rc.issued
                               /\ g.revoked = None \/ g.revoked >= rc.issued
    BY DEF AllowedIsCovered
  <2>1. ReceiptValid(q, rc)
    BY DEF Decision
  <2> QED BY <2>1, PermissionAssumption
          DEF ReceiptValid, PermissionInv, PermissionTypes, CoveredReceipt
<1>2. PermissionSpec => []PermissionInv
  BY PermissionInvInit, PermissionInvStep, PTL DEF PermissionSpec
<1> QED BY <1>1, <1>2, PTL

\* PermissionModeRegistry and the policy that takes its receipts: whatever is switched, granted
\* and revoked in between, what is allowed was covered when its receipt was issued, a user who
\* has been in PROPOSE_ONLY for the lifetime of a receipt is allowed nothing that needs one, and
\* the trail alone tells who may do what.
THEOREM PermissionsAreOnTheTrail ==
    PermissionSpec => [](/\ PermissionTypeOK /\ AllowedIsCovered
                         /\ ProposeOnlyTakesHold /\ AuditDeterminesState)
<1>1. TrailInv => ProposeOnlyTakesHold
  <2> SUFFICES ASSUME TrailInv, NEW q \in RiskRequests, NEW rc \in receipts \cup {None},
                      Effects[q.effect].approval, Decision(q, rc) = "ALLOW",
                      \A i \in DOMAIN audit :
                         LastChange(q.user, i) => /\ audit[i].detail = "PROPOSE_ONLY"
                                                  /\ audit[i].at =< clock - ReceiptTtl
               PROVE  FALSE
    BY DEF ProposeOnlyTakesHold
  <2>1. rc \in receipts /\ rc.request = q /\ clock < rc.issued + ReceiptTtl
        /\ rc.issued \in Nat /\ clock \in Nat /\ q.user \in PermittedUsers
    BY PermissionAssumption DEF Decision, ReceiptValid, TrailInv, PermissionInv, PermissionTypes
  <2>2. mode[q.user] = "PROPOSE_ONLY"
    BY <2>1 DEF TrailInv, AuditDeterminesState, ModesAreTold
  <2>3. PICK i \in DOMAIN audit : LastChange(q.user, i) /\ rc.issued =< audit[i].at
    BY <2>1, <2>2 DEF TrailInv, ReceiptsPrecede
  <2>4. audit[i] \in Announcements
    BY <2>3 DEF TrailInv, AuditInOrder
  <2>5. audit[i].at \in Nat /\ audit[i].at =< clock - ReceiptTtl
    BY <2>3, <2>4 DEF Announcements
  <2> QED BY <2>1, <2>3, <2>5, PermissionAssumption
<1>2. TrailInv => PermissionTypeOK /\ AuditDeterminesState
  BY DEF TrailInv, PermissionInv, PermissionTypes, AuditInOrder, PermissionTypeOK
<1>3. PermissionSpec => []TrailInv
  BY TrailInvInit, TrailInvStep, PTL DEF PermissionSpec
<1> QED BY <1>1, <1>2, <1>3, AllowedIsAlwaysCovered, PTL

-----------------------------------------------------------------------------
(* EmbodiedAction                                                          *)

\* Of a scope: its first request, its effect and its outcome came together; the request was
\* admissible, and it holds its dispatch id and its receipt.
ScopeOf(s) ==
    /\ first[s] = None <=> effect[s] = None
    /\ first[s] = None <=> outcome[s] = None
    /\ first[s] # None =>
          /\ effect[s].by = first[s].dispatch /\ receiptUse[first[s].receipt.id] = first[s].dispatch
          /\ RequestIsRight(first[s]) /\ ~first[s].withdrawn

\* A dispatch id that is owned is the one its scope began with; only such ones are pending.
OwnersBegan ==
    /\ \A d \in Dispatches :
          owner[d] # None => first[owner[d]] # None /\ first[owner[d]].dispatch = d
    /\ \A d \in dispatching : owner[d] # None

ActionInv ==
    /\ ActionTypeOK /\ OwnersBegan /\ \A s \in Scopes : ScopeOf(s)
    /\ AnswersTellTheEffect /\ RetriesAreRecognised

\* What a request that is accepted finds, and what it leaves.
LEMMA AcceptedIsNew ==
    ASSUME ActionInv, NEW q \in ActionRequests, Refusal(q) = None
    PROVE  /\ q.dispatch \in Dispatches /\ q.scope \in Scopes /\ q.receipt.id \in ActionReceipts
           /\ RequestIsRight(q) /\ ~q.withdrawn
           /\ owner[q.dispatch] \in {None, q.scope} /\ first[q.scope] = None
           /\ receiptUse[q.receipt.id] = None
<1>1. q.dispatch \in Dispatches /\ q.scope \in Scopes /\ q.receipt.id \in ActionReceipts
  BY DEF Dispatches, Scopes, ActionReceipts
<1>2. None \notin {"BLOCKED", "TIMED_OUT", "CANCELLED", "IDEMPOTENCY_CONFLICT", "DUPLICATE"}
  BY EmbodiedAssumption DEF Refusals
<1> QED BY <1>1, <1>2 DEF Refusal

LEMMA ActionInvInit == ActionInit => ActionInv
<1> SUFFICES ASSUME ActionInit PROVE ActionInv
  OBVIOUS
<1>1. ActionTypeOK
  BY DEF ActionInit, ActionTypeOK
<1>2. OwnersBegan /\ \A s \in Scopes : ScopeOf(s)
  BY DEF ActionInit, OwnersBegan, ScopeOf
<1>3. AnswersTellTheEffect /\ RetriesAreRecognised
  BY EmbodiedAssumption DEF ActionInit, AnswersTellTheEffect, RetriesAreRecognised, Outcomes
<1> QED BY <1>1, <1>2, <1>3 DEF ActionInv

\* A request that is refused is told what has become of its scope.
LEMMA RefusedKeeps ==
    ASSUME ActionInv, NEW q \in ActionRequests, DispatchRefused(q)
    PROVE  ActionInv'
<1>1. /\ UNCHANGED <<owner, first, receiptUse, dispatching, effect, outcome>>
      /\ answered' = [to |-> q, status |-> Refusal(q),
                      of |-> IF Refusal(q) = "DUPLICATE" THEN outcome[q.scope] ELSE None]
  BY DEF DispatchRefused, AnswersWith
<1>2. ActionTypeOK' /\ OwnersBegan' /\ (\A s \in Scopes : ScopeOf(s)') /\ AnswersTellTheEffect'
  BY <1>1 DEF ActionInv, ActionTypeOK, OwnersBegan, ScopeOf, AnswersTellTheEffect
<1>3. q.dispatch \in Dispatches /\ q.scope \in Scopes
  BY DEF Dispatches, Scopes
<1>4. first[q.scope] = q =>
        /\ RequestIsRight(q) /\ ~q.withdrawn /\ owner[q.dispatch] = q.scope
        /\ effect[q.scope] # None
  BY <1>3, EmbodiedAssumption DEF ActionInv, ActionTypeOK, ScopeOf
<1>5. /\ Refusal(q) \in {"BLOCKED", "CANCELLED", "IDEMPOTENCY_CONFLICT"} => first[q.scope] # q
      /\ Refusal(q) = "DUPLICATE" => first[q.scope] = q
  BY <1>4, EmbodiedAssumption DEF Refusal, Refusals
<1>6. RetriesAreRecognised'
  BY <1>1, <1>4, <1>5 DEF RetriesAreRecognised
<1> QED BY <1>2, <1>6 DEF ActionInv

\* An accepted request begins a scope: with its effect and the outcome that tells it.
LEMMA AcceptedKeeps ==
    ASSUME ActionInv, NEW q \in ActionRequests, NEW status \in Outcomes, NEW state,
           Accepts(q, status), Applies(q, state),
           \/ status = "COMPLETED" /\ state = "applied" /\ dispatching' = dispatching
           \/ /\ status = "PENDING" /\ state = "applied"
              /\ dispatching' = dispatching \cup {q.dispatch}
           \/ /\ status \in {"FAILED_ROLLED_BACK", "TIMED_OUT_ROLLED_BACK"}
              /\ state = "rolled_back" /\ dispatching' = dispatching
    PROVE  ActionInv'
<1> DEFINE e == [by |-> q.dispatch, state |-> state]
<1>1. /\ q.dispatch \in Dispatches /\ q.scope \in Scopes /\ q.receipt.id \in ActionReceipts
      /\ RequestIsRight(q) /\ ~q.withdrawn
      /\ owner[q.dispatch] \in {None, q.scope} /\ first[q.scope] = None
      /\ receiptUse[q.receipt.id] = None
  BY AcceptedIsNew DEF Accepts
<1>2. /\ owner' = [owner EXCEPT ![q.dispatch] = q.scope]
      /\ first' = [first EXCEPT ![q.scope] = q]
      /\ receiptUse' = [receiptUse EXCEPT ![q.receipt.id] = q.dispatch]
      /\ outcome' = [outcome EXCEPT ![q.scope] = status]
      /\ effect' = [effect EXCEPT ![q.scope] = e]
      /\ answered'.to = q /\ answered'.status = status
  BY DEF Accepts, Applies, AnswersWith
<1>3. e \in ActionEffects /\ e.by = q.dispatch /\ e.state = state /\ e # None
      /\ q # None /\ status # None
  BY <1>1, EmbodiedAssumption DEF ActionEffects
<1> HIDE DEF e
<1>4. ActionTypeOK /\ OwnersBegan /\ AnswersTellTheEffect /\ \A s \in Scopes : ScopeOf(s)
  BY DEF ActionInv
<1>5. owner[q.dispatch] = None /\ q.dispatch \notin dispatching
  BY <1>1, <1>4 DEF OwnersBegan, ActionTypeOK
<1>6. None \notin Scopes \cup Dispatches
  BY EmbodiedAssumption
<1>7. ActionTypeOK'
  BY <1>1, <1>2, <1>3, <1>4, <1>5, <1>6 DEF ActionTypeOK
<1>8. OwnersBegan'
  BY <1>1, <1>2, <1>3, <1>4, <1>5, <1>6 DEF ActionTypeOK, OwnersBegan
<1>9. ASSUME NEW s \in Scopes PROVE ScopeOf(s)'
  <2>1. CASE s = q.scope
    BY <1>1, <1>2, <1>3, <1>4, <2>1 DEF ActionTypeOK, ScopeOf, RequestIsRight, IntentIsKnown
  <2>2. CASE s # q.scope
    <3>1. first'[s] = first[s] /\ effect'[s] = effect[s] /\ outcome'[s] = outcome[s] /\ ScopeOf(s)
      BY <1>1, <1>2, <1>4, <2>2 DEF ActionTypeOK
    <3>2. first[s] # None => receiptUse[first[s].receipt.id] # None
                             /\ receiptUse[first[s].receipt.id] = first[s].dispatch
                             /\ first[s].receipt.id \in ActionReceipts
      BY <1>4, <1>6, <3>1 DEF ActionTypeOK, ScopeOf, Dispatches, ActionReceipts
    <3>3. first[s] # None => receiptUse'[first[s].receipt.id] = receiptUse[first[s].receipt.id]
      BY <1>1, <1>2, <1>4, <3>2 DEF ActionTypeOK
    <3> QED BY <3>1, <3>2, <3>3 DEF ScopeOf, RequestIsRight, IntentIsKnown
  <2> QED BY <2>1, <2>2
<1>10. AnswersTellTheEffect'
  <2> SUFFICES ASSUME NEW s \in Scopes
               PROVE  /\ outcome'[s] = None <=> effect'[s] = None
                      /\ outcome'[s] = "COMPLETED" => effect'[s].state = "applied"
                      /\ outcome'[s] = "PENDING" =>
                           (effect'[s].state = "applied" <=> effect'[s].by \in dispatching')
                      /\ (effect'[s] # None /\ effect'[s].by \in dispatching') => outcome'[s] = "PENDING"
                      /\ outcome'[s] \in {"FAILED_ROLLED_BACK", "TIMED_OUT_ROLLED_BACK"} =>
                           effect'[s].state = "rolled_back"
    BY DEF AnswersTellTheEffect
  <2>1. CASE s = q.scope
    <3>1. outcome'[s] = status /\ effect'[s] = e
      BY <1>1, <1>2, <1>4, <2>1 DEF ActionTypeOK
    <3> QED BY <1>3, <1>5, <3>1
  <2>2. CASE s # q.scope
    <3>1. outcome'[s] = outcome[s] /\ effect'[s] = effect[s]
      BY <1>1, <1>2, <1>4, <2>2 DEF ActionTypeOK
    <3>2. effect[s] # None => effect[s].by # q.dispatch
      BY <1>1, <1>4, <1>5, <1>6, <2>2 DEF ScopeOf, ActionTypeOK
    <3>3. /\ outcome[s] = None <=> effect[s] = None
          /\ outcome[s] = "COMPLETED" => effect[s].state = "applied"
          /\ outcome[s] = "PENDING" => (effect[s].state = "applied" <=> effect[s].by \in dispatching)
          /\ (effect[s] # None /\ effect[s].by \in dispatching) => outcome[s] = "PENDING"
          /\ outcome[s] \in {"FAILED_ROLLED_BACK", "TIMED_OUT_ROLLED_BACK"} => effect[s].state = "rolled_back"
      BY <1>4 DEF AnswersTellTheEffect
    <3>4. "PENDING" # None
      BY EmbodiedAssumption DEF Outcomes
    <3>5. effect[s] # None => (effect[s].by \in dispatching' <=> effect[s].by \in dispatching)
      BY <3>2
    <3> QED BY <3>1, <3>3, <3>4, <3>5
  <2> QED BY <2>1, <2>2
<1>11. RetriesAreRecognised'
  BY <1>2 DEF RetriesAreRecognised, Outcomes
<1> QED BY <1>7, <1>8, <1>9, <1>10, <1>11 DEF ActionInv

\* A pending dispatch is the one that its scope began with; no other scope has its effect.
LEMMA CancelledKeeps ==
    ASSUME ActionInv, NEW d \in Dispatches, CancelDispatch(d)
    PROVE  ActionInv'
<1>1. /\ d \in dispatching /\ dispatching' = dispatching \ {d}
      /\ effect' = [effect EXCEPT ![owner[d]] = RolledBack(@)]
      /\ UNCHANGED <<owner, first, receiptUse, outcome, answered>>
  BY DEF CancelDispatch
<1>2. ActionTypeOK /\ OwnersBegan /\ AnswersTellTheEffect /\ \A s \in Scopes : ScopeOf(s)
  BY DEF ActionInv
<1>3. /\ owner[d] \in Scopes /\ first[owner[d]] # None /\ first[owner[d]].dispatch = d
      /\ effect[owner[d]] \in ActionEffects /\ effect[owner[d]].by = d
  BY <1>1, <1>2 DEF OwnersBegan, ActionTypeOK, ScopeOf
<1> DEFINE e == RolledBack(effect[owner[d]])
<1>4. e \in ActionEffects /\ e.by = d /\ e.state = "rolled_back" /\ e # None
  BY <1>3, EmbodiedAssumption DEF RolledBack, ActionEffects
<1>5. effect' = [effect EXCEPT ![owner[d]] = e]
  BY <1>1
<1> HIDE DEF e
<1>6. outcome[owner[d]] = "PENDING"
  BY <1>1, <1>2, <1>3, EmbodiedAssumption DEF AnswersTellTheEffect, ScopeOf
<1>7. ActionTypeOK'
  BY <1>1, <1>2, <1>3, <1>4, <1>5 DEF ActionTypeOK
<1>8. OwnersBegan'
  BY <1>1, <1>2 DEF OwnersBegan
<1>9. ASSUME NEW s \in Scopes PROVE ScopeOf(s)'
  BY <1>1, <1>2, <1>3, <1>4, <1>5 DEF ActionTypeOK, ScopeOf, RequestIsRight, IntentIsKnown
<1>10. AnswersTellTheEffect'
  <2> SUFFICES ASSUME NEW s \in Scopes
               PROVE  /\ outcome'[s] = None <=> effect'[s] = None
                      /\ outcome'[s] = "COMPLETED" => effect'[s].state = "applied"
                      /\ outcome'[s] = "PENDING" =>
                           (effect'[s].state = "applied" <=> effect'[s].by \in dispatching')
                      /\ (effect'[s] # None /\ effect'[s].by \in dispatching') => outcome'[s] = "PENDING"
                      /\ outcome'[s] \in {"FAILED_ROLLED_BACK", "TIMED_OUT_ROLLED_BACK"} =>
                           effect'[s].state = "rolled_back"
    BY DEF AnswersTellTheEffect
  <2>1. CASE s = owner[d]
    <3>1. outcome'[s] = "PENDING" /\ effect'[s] = e
      BY <1>1, <1>2, <1>5, <1>6, <2>1 DEF ActionTypeOK
    <3> QED BY <1>1, <1>4, <3>1, EmbodiedAssumption DEF Outcomes
  <2>2. CASE s # owner[d]
    <3>1. outcome'[s] = outcome[s] /\ effect'[s] = effect[s]
      BY <1>1, <1>2, <1>3, <1>5, <2>2 DEF ActionTypeOK
    <3>2. effect[s] # None => effect[s].by # d
      BY <1>2, <2>2 DEF ScopeOf, ActionTypeOK
    <3>3. /\ outcome[s] = None <=> effect[s] = None
          /\ outcome[s] = "COMPLETED" => effect[s].state = "applied"
          /\ outcome[s] = "PENDING" => (effect[s].state = "applied" <=> effect[s].by \in dispatching)
          /\ (effect[s] # None /\ effect[s].by \in dispatching) => outcome[s] = "PENDING"
          /\ outcome[s] \in {"FAILED_ROLLED_BACK", "TIMED_OUT_ROLLED_BACK"} => effect[s].state = "rolled_back"
      BY <1>2 DEF AnswersTellTheEffect
    <3>4. "PENDING" # None
      BY EmbodiedAssumption DEF Outcomes
    <3>5. effect[s] # None => (effect[s].by \in dispatching' <=> effect[s].by \in dispatching)
      BY <1>1, <3>2
    <3> QED BY <3>1, <3>3, <3>4, <3>5
  <2> QED BY <2>1, <2>2
<1>11. RetriesAreRecognised'
  <2>1. \A s \in Scopes : effect[s] # None => effect'[s] # None
    BY <1>2, <1>3, <1>4, <1>5 DEF ActionTypeOK
  <2> QED BY <1>1, <1>2, <2>1 DEF ActionInv, ActionTypeOK, RetriesAreRecognised, Scopes
<1> QED BY <1>7, <1>8, <1>9, <1>10, <1>11 DEF ActionInv

LEMMA ActionInvStep == ActionInv /\ [ActionNext]_actionVars => ActionInv'
<1> SUFFICES ASSUME ActionInv, [ActionNext]_actionVars PROVE ActionInv'
  OBVIOUS
<1>1. ASSUME NEW q \in ActionRequests, DispatchRefused(q) PROVE ActionInv'
  BY <1>1, RefusedKeeps
<1>2. ASSUME NEW q \in ActionRequests, DispatchCompletes(q) PROVE ActionInv'
  BY <1>2, AcceptedKeeps DEF DispatchCompletes, Outcomes
<1>3. ASSUME NEW q \in ActionRequests, DispatchPends(q) PROVE ActionInv'
  BY <1>3, AcceptedKeeps DEF DispatchPends, Outcomes
<1>4. ASSUME NEW q \in ActionRequests, DispatchFails(q) PROVE ActionInv'
  <2>1. PICK status \in {"FAILED_ROLLED_BACK", "TIMED_OUT_ROLLED_BACK"} : Accepts(q, status)
    BY <1>4 DEF DispatchFails
  <2> QED BY <1>4, <2>1, AcceptedKeeps DEF DispatchFails, Outcomes
<1>5. ASSUME NEW d \in Dispatches, CancelDispatch(d) PROVE ActionInv'
  BY <1>5, CancelledKeeps
<1>6. CASE UNCHANGED <<owner, first, receiptUse, dispatching, effect, outcome, answered>>
  BY <1>6 DEF ActionInv, ActionTypeOK, OwnersBegan, ScopeOf, AnswersTellTheEffect,
              RetriesAreRecognised, RequestIsRight, IntentIsKnown
<1> QED BY <1>1, <1>2, <1>3, <1>4, <1>5, <1>6 DEF ActionNext, SecondPasses, actionVars

\* dispatch and cancel: whatever is retried, fails or runs late, the answer kept for a request
\* tells its effect, one that is PENDING until it is cancelled (which undoes the effect and
\* leaves the answer); the effect takes place once, under a receipt that is spent on it alone,
\* and a request that was accepted is recognised.
THEOREM EffectsTakePlaceOnce ==
    ActionSpec => /\ [](/\ ActionTypeOK /\ AnswersTellTheEffect
                        /\ RetriesAreRecognised /\ ReceiptSpentOnce)
                  /\ NeverAppliedAgain
<1>1. ActionSpec => []ActionInv
  BY ActionInvInit, ActionInvStep, PTL DEF ActionSpec
<1>2. ActionInv => ReceiptSpentOnce
  <2> SUFFICES ASSUME ActionInv, NEW s \in Scopes, NEW t \in Scopes,
                      effect[s] # None, effect[t] # None,
                      first[s].receipt.id = first[t].receipt.id
               PROVE  s = t
    BY DEF ReceiptSpentOnce
  <2>1. first[s] # None /\ first[t] # None /\ first[s].dispatch = first[t].dispatch
    BY DEF ActionInv, ScopeOf
  <2> QED BY <2>1 DEF ActionInv, ActionTypeOK
<1>3. ActionInv => ActionTypeOK /\ AnswersTellTheEffect /\ RetriesAreRecognised
  BY DEF ActionInv
<1>4. ActionInv /\ [ActionNext]_actionVars =>
        [\A s \in Scopes : effect[s] # None =>
           /\ effect'[s] # None /\ effect'[s].by = effect[s].by
           /\ effect[s].state = "rolled_back" => effect'[s].state = "rolled_back"]_actionVars
  <2> SUFFICES ASSUME ActionInv, ActionNext, NEW s \in Scopes, effect[s] # None
               PROVE  /\ effect'[s] # None /\ effect'[s].by = effect[s].by
                      /\ effect[s].state = "rolled_back" => effect'[s].state = "rolled_back"
    OBVIOUS
  <2>1. effect \in [Scopes -> ActionEffects \cup {None}]
    BY DEF ActionInv, ActionTypeOK
  <2>2. ASSUME NEW q \in ActionRequests, NEW state, Applies(q, state)
        PROVE  effect'[s] = effect[s]
    BY <2>1, <2>2 DEF Applies
  <2>3. ASSUME NEW d \in Dispatches, CancelDispatch(d)
        PROVE  \/ effect'[s] = effect[s]
               \/ effect'[s] # None /\ effect'[s].by = effect[s].by /\ effect'[s].state = "rolled_back"
    <3>1. RolledBack(effect[s]) \in ActionEffects /\ RolledBack(effect[s]).by = effect[s].by
          /\ RolledBack(effect[s]).state = "rolled_back"
      BY <2>1 DEF RolledBack, ActionEffects
    <3>2. effect'[s] \in {effect[s], RolledBack(effect[s])}
      BY <2>1, <2>3 DEF CancelDispatch
    <3> QED BY <3>1, <3>2, EmbodiedAssumption
  <2> QED BY <2>2, <2>3
          DEF ActionNext, DispatchRefused, DispatchCompletes, DispatchPends, DispatchFails,
              SecondPasses
<1> QED BY <1>1, <1>2, <1>3, <1>4, PTL DEF ActionSpec, NeverAppliedAgain

-----------------------------------------------------------------------------
(* SleepCycle                                                              *)

\* OneConsolidation, without counting.
OneThread ==
    /\ \A t, u \in threads : t = u
    /\ threads # {} => dbRun = "running"
    /\ \A c \in PassCallers : run[c] = "consolidating" <=> c \in threads

SleepInv == SleepTypeOK /\ OneThread /\ DeepOnceADay

LEMMA SleepInvInit == SleepInit => SleepInv
<1> SUFFICES ASSUME SleepInit PROVE SleepInv
  OBVIOUS
<1>1. 0 \in 0..(Hours - 1) /\ 0 \in 0..MaxRestarts /\ None \notin PassCallers
  BY SleepCycleAssumption
<1>2. NoRequest \in [mode : {"deep", "micro"}, remain : BOOLEAN]
  BY DEF NoRequest
<1>3. SleepTypeOK
  BY <1>1, <1>2 DEF SleepInit, SleepTypeOK
<1>4. OneThread /\ DeepOnceADay
  BY DEF SleepInit, OneThread, DeepOnceADay
<1> QED BY <1>3, <1>4 DEF SleepInv

\* Hours go round.
LEMMA AnHourLater == ASSUME NEW h \in Nat PROVE (h + 1) % Hours \in 0..(Hours - 1)
  BY SleepCycleAssumption

\* Asking for a pass touches nothing but the caller.
LEMMA AsksKeeps ==
    ASSUME SleepInv, NEW c \in PassCallers, NEW m \in {"deep", "micro"}, NEW remain \in BOOLEAN,
           Asks(c, m, remain), MindUnchanged, PassesOutside,
           UNCHANGED <<pressed, runLock, threads, dbRun>>
    PROVE  SleepInv'
  BY DEF Asks, MindUnchanged, PassesOutside, SleepInv, SleepTypeOK, OneThread, DeepOnceADay

\* The moves of one caller: it gets the lock, consolidates, finishes, breaks.
LEMMA CallerKeeps ==
    ASSUME SleepInv, NEW c \in PassCallers,
           Begins(c) \/ Consolidates(c) \/ Finishes(c) \/ RunBreaks(c)
    PROVE  SleepInv'
<1> USE SleepCycleAssumption
<1>1. CASE Begins(c)
  <2>1. SleepTypeOK'
    <3>1. CASE request[c].mode = "deep" /\ deepToday
      <4>1. NoRequest \in [mode : {"deep", "micro"}, remain : BOOLEAN]
        BY DEF NoRequest
      <4>2. /\ run' = [run EXCEPT ![c] = "idle"] /\ request' = [request EXCEPT ![c] = NoRequest]
            /\ run[c] = "locking"
            /\ UNCHANGED <<mind, asleep, runLock, deepToday, tired, pressed, threads, dbRun,
                           hour, restarts>>
        BY <1>1, <3>1 DEF Begins, Idle, PassesOutside
      <4> QED BY <4>1, <4>2 DEF SleepInv, SleepTypeOK
    <3>2. CASE ~(request[c].mode = "deep" /\ deepToday)
      BY <1>1, <3>2 DEF Begins, PassesOutside, SleepInv, SleepTypeOK
    <3> QED BY <3>1, <3>2
  <2>2. OneThread'
    BY <1>1 DEF Begins, Idle, SleepInv, SleepTypeOK, OneThread
  <2>3. DeepOnceADay'
    BY <1>1 DEF Begins, Idle, NoRequest, SleepInv, SleepTypeOK, DeepOnceADay
  <2> QED BY <2>1, <2>2, <2>3 DEF SleepInv
<1>2. CASE Consolidates(c)
  <2>1. SleepTypeOK'
    BY <1>2 DEF Consolidates, MindUnchanged, PassesOutside, SleepInv, SleepTypeOK
  <2>2. OneThread'
    BY <1>2 DEF Consolidates, SleepInv, SleepTypeOK, OneThread
  <2>3. DeepOnceADay'
    BY <1>2 DEF Consolidates, MindUnchanged, SleepInv, SleepTypeOK, DeepOnceADay
  <2> QED BY <2>1, <2>2, <2>3 DEF SleepInv
<1>3. CASE Finishes(c)
  <2>1. SleepTypeOK'
    BY <1>3 DEF Finishes, Idle, NoRequest, PassesOutside, SleepInv, SleepTypeOK
  <2>2. OneThread'
    BY <1>3 DEF Finishes, Idle, SleepInv, SleepTypeOK, OneThread
  <2>3. DeepOnceADay'
    BY <1>3 DEF Finishes, Idle, NoRequest, SleepInv, SleepTypeOK, DeepOnceADay
  <2> QED BY <2>1, <2>2, <2>3 DEF SleepInv
<1>4. CASE RunBreaks(c)
  <2>1. SleepTypeOK'
    BY <1>4 DEF RunBreaks, Idle, NoRequest, MindUnchanged, PassesOutside, SleepInv, SleepTypeOK
  <2>2. OneThread'
    BY <1>4 DEF RunBreaks, Idle, SleepInv, SleepTypeOK, OneThread, PassCallers
  <2>3. DeepOnceADay'
    BY <1>4 DEF RunBreaks, Idle, NoRequest, MindUnchanged, SleepInv, SleepTypeOK, DeepOnceADay
  <2> QED BY <2>1, <2>2, <2>3 DEF SleepInv
<1> QED BY <1>1, <1>2, <1>3, <1>4

LEMMA SleepInvStep == SleepInv /\ [SleepNext]_sleepVars => SleepInv'
<1> SUFFICES ASSUME SleepInv, [SleepNext]_sleepVars PROVE SleepInv'
  OBVIOUS
<1> USE SleepCycleAssumption
<1>1. CASE SchedulerAsks
  <2>1. \E m \in {"deep", "micro"}, remain \in BOOLEAN : Asks("scheduler", m, remain)
    BY <1>1 DEF SchedulerAsks
  <2> QED BY <1>1, <2>1, AsksKeeps DEF SchedulerAsks, PassCallers
<1>2. CASE OthersAsk
  <2>1. \E c \in PassCallers, m \in {"deep", "micro"}, remain \in BOOLEAN : Asks(c, m, remain)
    BY <1>2 DEF OthersAsk, PassCallers
  <2> QED BY <1>2, <2>1, AsksKeeps DEF OthersAsk
<1>3. ASSUME NEW c \in PassCallers, Begins(c) \/ RunSteps(c) \/ RunBreaks(c) PROVE SleepInv'
  BY <1>3, CallerKeeps DEF RunSteps
<1>4. CASE ThreadEnds
  <2>1. PICK t \in threads, ok \in BOOLEAN :
          /\ threads' = threads \ {t} /\ pressed' \in {FALSE, pressed}
          /\ run' = IF t = "lost" THEN run
                    ELSE [run EXCEPT ![t] = IF ok THEN "completed" ELSE "failed"]
    BY <1>4 DEF ThreadEnds
  <2>2. threads' = {}
    BY <2>1 DEF SleepInv, OneThread
  <2>3. SleepTypeOK'
    BY <1>4, <2>1, <2>2 DEF ThreadEnds, MindUnchanged, PassesOutside, SleepInv, SleepTypeOK, OneThread
  <2>4. OneThread'
    BY <2>1, <2>2 DEF SleepInv, SleepTypeOK, OneThread, PassCallers
  <2>5. DeepOnceADay'
    BY <1>4, <2>1 DEF ThreadEnds, MindUnchanged, SleepInv, SleepTypeOK, OneThread, DeepOnceADay
  <2> QED BY <2>3, <2>4, <2>5 DEF SleepInv
<1>5. CASE CircadianWake \/ HumanWakes
  <2>1. Wakes /\ PassesOutside
        /\ UNCHANGED <<deepToday, pressed, run, request, runLock, threads, dbRun>>
    BY <1>5 DEF CircadianWake, HumanWakes
  <2>2. asleep' \in {asleep, None} /\ mind' = "AWAKE" /\ tired' \in {tired, FALSE}
    BY <2>1 DEF Wakes
  <2> QED BY <2>1, <2>2 DEF PassesOutside, SleepInv, SleepTypeOK, OneThread, DeepOnceADay
<1>6. CASE LifeGoesOn
  BY <1>6 DEF LifeGoesOn, PassesOutside, SleepInv, SleepTypeOK, OneThread, DeepOnceADay
<1>7. CASE HourPasses
  <2>1. hour' \in 0..(Hours - 1) /\ asleep' \in 0..MinSleep \cup {None} /\ deepToday' \in BOOLEAN
        /\ (deepToday' => deepToday)
    BY <1>7, AnHourLater DEF HourPasses, SleepInv, SleepTypeOK
  <2> QED BY <1>7, <2>1 DEF HourPasses, SleepInv, SleepTypeOK, OneThread, DeepOnceADay
<1>8. CASE Restarts
  BY <1>8 DEF Restarts, NoRequest, SleepInv, SleepTypeOK, OneThread, DeepOnceADay
<1>9. CASE UNCHANGED sleepVars
  BY <1>9 DEF sleepVars, SleepInv, SleepTypeOK, OneThread, DeepOnceADay
<1> QED BY <1>1, <1>2, <1>3, <1>4, <1>5, <1>6, <1>7, <1>8, <1>9 DEF SleepNext

\* LuminaSleepCycle: in whichever order the scheduler, an operator and the supervisor ask,
\* are cancelled and come back after a restart, one pass consolidates at a time, also beside
\* a thread whose caller is gone, and a date has one deep pass.
THEOREM NightsComeOneByOne == SleepSpec => [](SleepTypeOK /\ OneConsolidation /\ DeepOnceADay)
<1>1. SleepSpec => []SleepInv
  BY SleepInvInit, SleepInvStep, PTL DEF SleepSpec
<1>2. SleepInv => SleepTypeOK /\ OneConsolidation /\ DeepOnceADay
  <2> SUFFICES ASSUME SleepInv PROVE Cardinality(threads) =< 1
    BY DEF SleepInv, OneThread, OneConsolidation
  <2>1. CASE threads = {}
    BY <2>1, FS_EmptySet
  <2>2. CASE threads # {}
    <3>1. PICK t \in threads : threads = {t}
      BY <2>2 DEF SleepInv, OneThread
    <3> QED BY <3>1, FS_Singleton
  <2> QED BY <2>1, <2>2
<1> QED BY <1>1, <1>2, PTL
-----------------------------------------------------------------------------
(* Authority                                                               *)

\* What the three parts that grant promise together: what is allowed is covered by a mode, a
\* receipt or a token of the very scope, and an effect takes place once.
PermissionsAreCovered ==
    /\ [](PermissionTypeOK /\ AllowedIsCovered /\ ProposeOnlyTakesHold /\ AuditDeterminesState)
    /\ [](ActionTypeOK /\ AnswersTellTheEffect /\ RetriesAreRecognised /\ ReceiptSpentOnce)
    /\ NeverAppliedAgain
    /\ [](TokenTypeOK /\ OneGrantPerToken /\ GrantsStayInScope)

\* permission_modes_v1, risk_policy_v1, embodied_action_api_v1 and auth_scope_v1, each called
\* in any order.
THEOREM PermissionsAlwaysCovered ==
    PermissionSpec /\ ActionSpec /\ TokenSpec => PermissionsAreCovered
  BY PermissionsAreOnTheTrail, EffectsTakePlaceOnce, TokensAuthorizeOnce, PTL
     DEF PermissionsAreCovered

-----------------------------------------------------------------------------
(* MemoryGovernance: consent and deletions                                 *)

\* What a controller can hold, in the process or in the file: ids of its receipts are past.
Issued == [id : Nat, operation : {"EXPORT", "DELETE"}, items : SUBSET Nat]
Controllers == [consent : [People -> {"granted", "denied"}], consumed : SUBSET Issued, seq : Nat]
IdsArePast(c) ==
    /\ \A r \in c.consumed : r.id =< c.seq /\ r.items \subseteq 1..nextItem
    /\ \A r, s \in c.consumed : r.id = s.id => r = s

ControlTyped ==
    /\ live \in Controllers /\ ledger \in Controllers /\ nextItem \in 0..MaxItems
    /\ IdsArePast(live) /\ IdsArePast(ledger)
    /\ told \in [People -> {"granted", "denied", None}]

\* What was confirmed and not disputed since is so in the process as well as in the file.
ConfirmedIsLive == \A p \in People : told[p] # None => told[p] = live.consent[p]

\* A deletion that is under way has its receipt in the file.
ForgettingIsCovered ==
    forgetting # NoForget => forgetting \in ledger.consumed /\ forgetting.operation = "DELETE"

ControlInv ==
    /\ ControlTypeOK /\ AnswersAreDurable /\ DeletionsAreCovered
    /\ ControlTyped /\ ConfirmedIsLive /\ ForgettingIsCovered

LEMMA ControlInvInit == ControlInit => ControlInv
<1> SUFFICES ASSUME ControlInit PROVE ControlInv
  OBVIOUS
<1>1. live = Empty /\ ledger = Empty /\ Empty.consumed = {} /\ Empty.seq = 0
      /\ Empty.consent = [p \in People |-> "denied"] /\ Empty \in Controllers
  BY DEF ControlInit, Empty, Controllers
<1> QED BY <1>1, MemoryControlAssumption
        DEF ControlInit, ControlInv, ControlTypeOK, AnswersAreDurable, DeletionsAreCovered, ControlTyped,
            ConfirmedIsLive, ForgettingIsCovered, IdsArePast

LEMMA SetConsentKeeps ==
    ASSUME ControlInv, NEW p \in People, NEW consent \in {"granted", "denied"},
           live.seq + 2 =< MaxSeq, SetConsent(p, consent)
    PROVE  ControlInv'
<1>1. /\ live \in Controllers /\ ledger \in Controllers /\ live.seq \in Nat /\ ledger.seq \in Nat
      /\ MaxSeq \in Nat
  BY MemoryControlAssumption DEF ControlInv, ControlTyped, Controllers
<1>2. /\ live' = [live EXCEPT !.consent[p] = consent, !.seq = @ + 1]
      /\ UNCHANGED <<acknowledged, items, nextItem, recorded, forgetting, gone>> /\ forgetting = NoForget
  BY DEF SetConsent, StoreUnchanged
<1>3. /\ live'.consumed = live.consumed /\ live'.seq = live.seq + 1 /\ live' \in Controllers
      /\ live'.consent = [live.consent EXCEPT ![p] = consent]
  <2>1. live.consent \in [People -> {"granted", "denied"}] /\ live.consumed \in SUBSET Issued
    BY <1>1 DEF Controllers
  <2>2. live' = [consent |-> [live.consent EXCEPT ![p] = consent], consumed |-> live.consumed, seq |-> live.seq + 1]
    BY <1>1, <1>2 DEF Controllers
  <2>3. [live.consent EXCEPT ![p] = consent] \in [People -> {"granted", "denied"}]
    BY <2>1
  <2> QED BY <1>1, <2>1, <2>2, <2>3 DEF Controllers
<1>4. IdsArePast(live)'
  BY <1>1, <1>2, <1>3 DEF ControlInv, ControlTyped, IdsArePast, Controllers, Issued
<1>5. CASE ledger' = live' /\ told' = [told EXCEPT ![p] = consent]
  BY <1>1, <1>2, <1>3, <1>4, <1>5
     DEF ControlInv, ControlTypeOK, AnswersAreDurable, DeletionsAreCovered, ControlTyped, ConfirmedIsLive,
         ForgettingIsCovered, IdsArePast, Controllers
<1>6. CASE ledger' = ledger /\ told' = [told EXCEPT ![p] = None]
  BY <1>1, <1>2, <1>3, <1>4, <1>6
     DEF ControlInv, ControlTypeOK, AnswersAreDurable, DeletionsAreCovered, ControlTyped, ConfirmedIsLive,
         ForgettingIsCovered, IdsArePast, Controllers
<1> QED BY <1>5, <1>6 DEF SetConsent

\* A receipt that is consumed is new, and the file has the old receipts or all of them.
LEMMA ConsumesKeeps ==
    ASSUME ControlInv, NEW operation \in {"EXPORT", "DELETE"}, NEW wanted \in SUBSET items,
           live.seq + 2 =< MaxSeq, Consumes(Receipt(operation, wanted)), ledger' \in {ledger, live'},
           UNCHANGED <<told, nextItem>>
    PROVE  /\ ControlTyped' /\ ConfirmedIsLive'
           /\ ledger'.seq =< live'.seq /\ live'.seq =< MaxSeq
           /\ ledger.consumed \subseteq ledger'.consumed /\ ledger'.consumed \subseteq live'.consumed
           /\ \A p \in People : told'[p] # None => told'[p] = ledger'.consent[p]
           /\ live'.consent = live.consent
           /\ Receipt(operation, wanted) \in live'.consumed
           /\ \A r, s \in live'.consumed : r.id = s.id => r = s
<1> DEFINE receipt == Receipt(operation, wanted)
<1>1. /\ live \in Controllers /\ ledger \in Controllers /\ live.seq \in Nat /\ ledger.seq \in Nat
      /\ MaxSeq \in Nat
  BY MemoryControlAssumption DEF ControlInv, ControlTyped, Controllers
<1>2. receipt \in Issued /\ receipt.id = live.seq + 1 /\ receipt.items = wanted /\ wanted \subseteq 1..nextItem
  BY <1>1 DEF Receipt, Issued, ControlInv, ControlTypeOK
<1> HIDE DEF receipt
<1>3. /\ live'.consumed = live.consumed \cup {receipt} /\ live'.seq = live.seq + 2
      /\ live'.consent = live.consent /\ live' \in Controllers
  <2>1. live.consent \in [People -> {"granted", "denied"}] /\ live.consumed \in SUBSET Issued
    BY <1>1 DEF Controllers
  <2>2. live' = [consent |-> live.consent, consumed |-> live.consumed \cup {receipt}, seq |-> live.seq + 2]
    BY <1>1 DEF Consumes, Controllers, receipt
  <2> QED BY <1>1, <1>2, <2>1, <2>2 DEF Controllers
<1>4. \A r \in live.consumed : r.id \in Nat /\ r.id =< live.seq /\ r.items \subseteq 1..nextItem
  BY <1>1 DEF ControlInv, ControlTyped, IdsArePast, Controllers, Issued
<1>5. \A r, s \in live'.consumed : r.id = s.id => r = s
  <2>1. \A r \in live.consumed : r.id # receipt.id
    BY <1>1, <1>2, <1>4
  <2> QED BY <1>3, <2>1 DEF ControlInv, ControlTypeOK
<1>6. IdsArePast(live)'
  <2>1. \A r \in live'.consumed : r.id =< live'.seq /\ r.items \subseteq 1..nextItem
    <3>1. ASSUME NEW r \in live.consumed PROVE r.id =< live'.seq /\ r.items \subseteq 1..nextItem
      BY <1>1, <1>3, <1>4
    <3>2. receipt.id =< live'.seq /\ receipt.items \subseteq 1..nextItem
      BY <1>1, <1>2, <1>3
    <3> QED BY <1>3, <3>1, <3>2
  <2>2. nextItem' = nextItem
    OBVIOUS
  <2> QED BY <1>5, <2>1, <2>2 DEF IdsArePast
<1>7. ledger.consumed \subseteq live.consumed /\ ledger.seq =< live.seq /\ IdsArePast(ledger)
  BY DEF ControlInv, ControlTypeOK, ControlTyped
<1>8. IdsArePast(ledger)' /\ ledger' \in Controllers
  BY <1>1, <1>3, <1>6, <1>7 DEF IdsArePast
<1>9. ControlTyped'
  BY <1>3, <1>6, <1>8 DEF ControlInv, ControlTyped
<1>10. \A p \in People : told'[p] # None => told'[p] = ledger'.consent[p] /\ told'[p] = live'.consent[p]
  BY <1>3 DEF ControlInv, AnswersAreDurable, ConfirmedIsLive
<1>11. ledger'.seq =< live'.seq /\ live'.seq =< MaxSeq
  BY <1>1, <1>3, <1>7
<1>12. ledger.consumed \subseteq ledger'.consumed /\ ledger'.consumed \subseteq live'.consumed
  BY <1>3, <1>7
<1> QED BY <1>3, <1>5, <1>9, <1>10, <1>11, <1>12 DEF ConfirmedIsLive, receipt

LEMMA ExportKeeps ==
    ASSUME ControlInv, NEW wanted \in SUBSET items, live.seq + 2 =< MaxSeq, Export(wanted)
    PROVE  ControlInv'
<1>1. /\ Consumes(Receipt("EXPORT", wanted)) /\ ledger' \in {ledger, live'}
      /\ UNCHANGED <<told, items, nextItem, recorded, forgetting, gone>> /\ forgetting = NoForget
      /\ \/ ledger' = live' /\ acknowledged' = acknowledged \cup {Receipt("EXPORT", wanted)}
         \/ acknowledged' = acknowledged
  BY DEF Export, StoreUnchanged
<1> DEFINE receipt == Receipt("EXPORT", wanted)
<1>2. /\ ControlTyped' /\ ConfirmedIsLive'
      /\ ledger'.seq =< live'.seq /\ live'.seq =< MaxSeq
      /\ ledger.consumed \subseteq ledger'.consumed /\ ledger'.consumed \subseteq live'.consumed
      /\ \A p \in People : told'[p] # None => told'[p] = ledger'.consent[p]
      /\ live'.consent = live.consent
      /\ receipt \in live'.consumed
      /\ \A r, s \in live'.consumed : r.id = s.id => r = s
  BY <1>1, ConsumesKeeps
<1>3. receipt.operation = "EXPORT"
  BY DEF Receipt
<1> HIDE DEF receipt
<1>4. acknowledged' \subseteq ledger'.consumed /\ acknowledged' \subseteq acknowledged \cup {receipt}
  BY <1>1, <1>2 DEF receipt, ControlInv, AnswersAreDurable
<1> QED BY <1>1, <1>2, <1>3, <1>4
        DEF ControlInv, ControlTypeOK, AnswersAreDurable, DeletionsAreCovered, ForgettingIsCovered

LEMMA ForgetBeginsKeeps ==
    ASSUME ControlInv, NEW wanted \in SUBSET items, live.seq + 2 =< MaxSeq, ForgetBegins(wanted)
    PROVE  ControlInv'
<1>1. /\ Consumes(Receipt("DELETE", wanted)) /\ ledger' \in {ledger, live'}
      /\ UNCHANGED <<told, acknowledged, items, nextItem, recorded, gone>> /\ forgetting = NoForget
      /\ \/ ledger' = live' /\ forgetting' = Receipt("DELETE", wanted)
         \/ forgetting' = forgetting
  BY DEF ForgetBegins
<1> DEFINE receipt == Receipt("DELETE", wanted)
<1>2. /\ ControlTyped' /\ ConfirmedIsLive'
      /\ ledger'.seq =< live'.seq /\ live'.seq =< MaxSeq
      /\ ledger.consumed \subseteq ledger'.consumed /\ ledger'.consumed \subseteq live'.consumed
      /\ \A p \in People : told'[p] # None => told'[p] = ledger'.consent[p]
      /\ live'.consent = live.consent
      /\ receipt \in live'.consumed
      /\ \A r, s \in live'.consumed : r.id = s.id => r = s
  BY <1>1, ConsumesKeeps
<1>3. receipt.operation = "DELETE"
  BY DEF Receipt
<1> HIDE DEF receipt
<1>4. forgetting' # NoForget => forgetting' \in ledger'.consumed /\ forgetting'.operation = "DELETE"
  BY <1>1, <1>2, <1>3 DEF receipt
<1> QED BY <1>1, <1>2, <1>4
        DEF ControlInv, ControlTypeOK, AnswersAreDurable, DeletionsAreCovered, ForgettingIsCovered

LEMMA ControlStep == ControlInv /\ [ControlNext]_controlVars => ControlInv'
<1> SUFFICES ASSUME ControlInv, [ControlNext]_controlVars PROVE ControlInv'
  OBVIOUS
<1>1. ASSUME NEW p \in People, RecordTurn(p) PROVE ControlInv'
  BY <1>1 DEF RecordTurn, ControlInv, ControlTypeOK, AnswersAreDurable, DeletionsAreCovered, ControlTyped,
              ConfirmedIsLive, ForgettingIsCovered, IdsArePast
<1>2. CASE Consolidate
  <2>1. /\ nextItem' = nextItem + 1 /\ nextItem < MaxItems /\ items' = items \cup {nextItem'} /\ recorded' = {}
        /\ UNCHANGED <<live, ledger, told, acknowledged, forgetting, gone>>
    BY <1>2 DEF Consolidate
  <2>2. nextItem \in Nat /\ MaxItems \in Nat /\ nextItem' \in 0..MaxItems /\ 1..nextItem \subseteq 1..nextItem'
        /\ nextItem' \in 1..nextItem' /\ nextItem' \notin 1..nextItem
    BY <2>1, MemoryControlAssumption DEF ControlInv, ControlTyped
  <2>3. IdsArePast(live)' /\ IdsArePast(ledger)' /\ items' \subseteq 1..nextItem'
    BY <2>1, <2>2 DEF ControlInv, ControlTypeOK, ControlTyped, IdsArePast
  <2>4. \A r \in acknowledged : r.items \subseteq 1..nextItem
    BY DEF ControlInv, AnswersAreDurable, ControlTyped, IdsArePast
  <2>5. \A r \in acknowledged : r.operation = "DELETE" => r.items \cap items' = {}
    BY <2>1, <2>2, <2>4 DEF ControlInv, DeletionsAreCovered
  <2> QED BY <2>1, <2>2, <2>3, <2>5
          DEF ControlInv, ControlTypeOK, AnswersAreDurable, DeletionsAreCovered, ControlTyped, ConfirmedIsLive,
              ForgettingIsCovered
<1>3. CASE ForgetOne
  <2>1. PICK i \in forgetting.items \cap items : items' = items \ {i} /\ gone' = gone \cup {i}
    BY <1>3 DEF ForgetOne
  <2>2. UNCHANGED <<live, ledger, told, acknowledged, nextItem, recorded, forgetting>>
    BY <1>3 DEF ForgetOne
  <2>3. forgetting # NoForget
    BY <2>1 DEF NoForget
  <2>4. forgetting \in ledger.consumed /\ forgetting.operation = "DELETE" /\ i \in forgetting.items
    BY <2>1, <2>3 DEF ControlInv, ForgettingIsCovered
  <2>5. \A j \in gone' : \E r \in ledger'.consumed : r.operation = "DELETE" /\ j \in r.items
    BY <2>1, <2>2, <2>4 DEF ControlInv, DeletionsAreCovered
  <2> QED BY <2>1, <2>2, <2>5
          DEF ControlInv, ControlTypeOK, AnswersAreDurable, DeletionsAreCovered, ControlTyped, ConfirmedIsLive,
              ForgettingIsCovered, IdsArePast
<1>4. CASE ForgetEnds
  <2>1. /\ forgetting # NoForget /\ forgetting' = NoForget
        /\ UNCHANGED <<live, ledger, told, items, nextItem, recorded, gone>>
        /\ \/ acknowledged' = acknowledged
           \/ forgetting.items \cap items = {} /\ acknowledged' = acknowledged \cup {forgetting}
    BY <1>4 DEF ForgetEnds
  <2>2. forgetting \in ledger.consumed
    BY <2>1 DEF ControlInv, ForgettingIsCovered
  <2> QED BY <2>1, <2>2
          DEF ControlInv, ControlTypeOK, AnswersAreDurable, DeletionsAreCovered, ControlTyped, ConfirmedIsLive,
              ForgettingIsCovered, IdsArePast
<1>5. CASE ControlRestart
  <2>1. /\ live' = ledger /\ forgetting' = NoForget
        /\ UNCHANGED <<ledger, told, acknowledged, items, nextItem, recorded, gone>>
    BY <1>5 DEF ControlRestart
  <2>2. /\ ledger.seq \in Nat /\ live.seq \in Nat /\ MaxSeq \in Nat /\ ledger.seq =< live.seq /\ live.seq =< MaxSeq
        /\ ledger.consent \in [People -> {"granted", "denied"}] /\ ledger \in Controllers
    BY MemoryControlAssumption DEF ControlInv, ControlTypeOK, ControlTyped, Controllers
  <2>3. ledger'.seq =< live'.seq /\ live'.seq =< MaxSeq
    BY <2>1, <2>2
  <2> QED BY <2>1, <2>2, <2>3
          DEF ControlInv, ControlTypeOK, AnswersAreDurable, DeletionsAreCovered, ControlTyped, ConfirmedIsLive,
              ForgettingIsCovered, IdsArePast
<1>6. CASE UNCHANGED controlVars
  BY <1>6 DEF controlVars, ControlInv, ControlTypeOK, AnswersAreDurable, DeletionsAreCovered, ControlTyped,
              ConfirmedIsLive, ForgettingIsCovered, IdsArePast
<1> QED BY <1>1, <1>2, <1>3, <1>4, <1>5, <1>6, SetConsentKeeps, ExportKeeps, ForgetBeginsKeeps DEF ControlNext

\* For any users, items and events, however writes fail and wherever the process ends: what a user
\* was told is in the file, and no memory is gone without the receipt that allowed it.
THEOREM AnswersOutliveTheProcess ==
    ControlSpec => [](ControlTypeOK /\ AnswersAreDurable /\ DeletionsAreCovered)
<1>1. ControlInv => ControlTypeOK /\ AnswersAreDurable /\ DeletionsAreCovered
  BY DEF ControlInv
<1> QED BY <1>1, ControlInvInit, ControlStep, PTL DEF ControlSpec

-----------------------------------------------------------------------------
(* MemoryGovernance: repairs                                               *)

\* A request was made at some instant, of some lineage, and a correction has a value.
RequestsAreMade ==
    \A q \in repairRequests :
        /\ q.at \in RepairClock /\ q.lineage \in Lineages /\ q.value \in Values \cup {None}
        /\ q.op = "correct" => q.value \in Values
        /\ q.op = "forget" => q.value = None
        /\ q.op \in {"correct", "forget"}

\* An audit is finite, and each of its entries is of an earlier revision.
AuditIsPast ==
    \A b \in bundles : IsFiniteSet(b.audit) /\ \A a \in b.audit : a.rev \in Nat /\ a.rev < b.rev

RepairInv ==
    /\ RepairTypeOK /\ DecidedOnWhatWasSeen /\ ViewsAgreeOnRepairs
    /\ RequestsAreMade /\ AuditIsPast /\ instant \in RepairClock

LEMMA RepairInvInit == RepairInit => RepairInv
<1> SUFFICES ASSUME RepairInit PROVE RepairInv
  OBVIOUS
<1>1. PICK held \in [Projections -> [Lineages -> Values \cup {None}]] :
        bundles = {[rev |-> 1, asOf |-> 0, held |-> held, tombstones |-> {}, audit |-> {}]}
  BY DEF RepairInit
<1>2. Cardinality({}) = 0 /\ IsFiniteSet({})
  BY FS_EmptySet
<1>3. RepairTypeOK /\ AuditIsPast
  BY <1>1, <1>2, RepairAssumption DEF RepairTypeOK, AuditIsPast
<1> QED BY <1>1, <1>3, RepairAssumption
        DEF RepairInit, RepairInv, DecidedOnWhatWasSeen, ViewsAgreeOnRepairs, RequestsAreMade

LEMMA ComposesKeeps ==
    ASSUME RepairInv, NEW q, Composes(q),
           /\ q.at \in RepairClock /\ q.lineage \in Lineages /\ q.value \in Values \cup {None}
           /\ q.op = "correct" => q.value \in Values
           /\ q.op = "forget" => q.value = None
           /\ q.op \in {"correct", "forget"}
    PROVE  RepairInv'
<1>1. repairRequests' = repairRequests \cup {q} /\ bundles' = bundles /\ instant' = instant
  BY DEF Composes
<1>2. RequestsAreMade'
  BY <1>1 DEF RepairInv, RequestsAreMade
<1>3. DecidedOnWhatWasSeen'
  BY <1>1 DEF RepairInv, DecidedOnWhatWasSeen
<1> QED BY <1>1, <1>2, <1>3 DEF RepairInv, RepairTypeOK, ViewsAgreeOnRepairs, AuditIsPast

LEMMA RepairKeeps ==
    ASSUME RepairInv, NEW q \in repairRequests, NEW b \in bundles, Repair(q, b)
    PROVE  RepairInv'
<1> DEFINE new == Repaired(q, b)
           entry == [id |-> q.id, op |-> q.op, lineage |-> q.lineage, value |-> q.value, rev |-> b.rev]
<1>1. bundles' = bundles \cup {new} /\ repairRequests' = repairRequests /\ instant' = instant /\ Applicable(q, b)
  BY DEF Repair
<1>2. /\ new.rev = b.rev + 1 /\ new.asOf = q.at /\ new.held = Rewritten(q, b)
      /\ new.tombstones = Tombstones(q, b) /\ new.audit = b.audit \cup {entry}
  BY DEF Repaired
<1>3. entry.id = q.id /\ entry.op = q.op /\ entry.lineage = q.lineage /\ entry.value = q.value /\ entry.rev = b.rev
  OBVIOUS
<1> HIDE DEF new, entry
<1>4. /\ q.at \in RepairClock /\ q.lineage \in Lineages /\ q.value \in Values \cup {None}
      /\ q.op = "correct" => q.value \in Values
  BY DEF RepairInv, RequestsAreMade
<1>5. /\ b.rev = 1 + Cardinality(b.audit) /\ IsFiniteSet(b.audit)
      /\ \A a \in b.audit : a.rev \in Nat /\ a.rev < b.rev /\ a.id # q.id
      /\ \A a, c \in b.audit : a.id = c.id \/ a.rev = c.rev => a = c
      /\ \A p \in Projections : b.held[p] \in [Lineages -> Values \cup {None}]
      /\ q.seen = b /\ \E p \in Projections : b.held[p][q.lineage] # None
  BY <1>1 DEF RepairInv, RepairTypeOK, AuditIsPast, Applicable
<1>6. b.rev \in Nat /\ Cardinality(b.audit) \in Nat
  BY <1>5, FS_CardinalityType
<1>7. entry \notin b.audit
  BY <1>3, <1>5
<1>8. IsFiniteSet(new.audit) /\ Cardinality(new.audit) = Cardinality(b.audit) + 1
  <2>1. IsFiniteSet(b.audit \cup {entry}) /\ Cardinality(b.audit \cup {entry}) = Cardinality(b.audit) + 1
    BY <1>5, <1>7, FS_AddElement
  <2> QED BY <1>2, <2>1
<1>9. \A a \in new.audit : a.rev \in Nat /\ a.rev < new.rev
  BY <1>2, <1>3, <1>5, <1>6
<1>10. \A a, c \in new.audit : a.id = c.id \/ a.rev = c.rev => a = c
  BY <1>2, <1>3, <1>5, <1>6
<1>11. ASSUME NEW p \in Projections
       PROVE  /\ new.held[p] \in [Lineages -> Values \cup {None}]
              /\ new.held[p][q.lineage] = IF b.held[p][q.lineage] = None THEN None ELSE q.value
              /\ \A l \in Lineages : l # q.lineage => new.held[p][l] = b.held[p][l]
  <2>1. new.held[p] = IF b.held[p][q.lineage] = None THEN b.held[p] ELSE [b.held[p] EXCEPT ![q.lineage] = q.value]
    BY <1>2 DEF Rewritten
  <2> QED BY <1>4, <1>5, <2>1
<1>12. RepairTypeOK' /\ AuditIsPast'
  <2>1. new.rev = 1 + Cardinality(new.audit)
    BY <1>2, <1>5, <1>6, <1>8
  <2> QED BY <1>1, <1>2, <1>4, <1>8, <1>9, <1>10, <1>11, <2>1 DEF RepairInv, RepairTypeOK, AuditIsPast
<1>13. ASSUME NEW a \in new.audit
       PROVE  \E r \in repairRequests :
                 /\ r.id = a.id /\ r.lineage = a.lineage /\ r.op = a.op
                 /\ r.seen.audit = {c \in new.audit : c.rev < a.rev}
  <2>1. CASE a = entry
    <3>1. {c \in new.audit : c.rev < a.rev} = b.audit
      BY <1>2, <1>3, <1>5, <1>6, <2>1
    <3> QED BY <1>3, <1>5, <2>1, <3>1
  <2>2. CASE a \in b.audit
    <3>1. ~(entry.rev < a.rev)
      BY <1>3, <1>5, <1>6, <2>2
    <3>2. {c \in new.audit : c.rev < a.rev} = {c \in b.audit : c.rev < a.rev}
      BY <1>2, <3>1
    <3> QED BY <2>2, <3>2 DEF RepairInv, DecidedOnWhatWasSeen
  <2> QED BY <1>2, <2>1, <2>2
<1>14. DecidedOnWhatWasSeen'
  BY <1>1, <1>13 DEF RepairInv, DecidedOnWhatWasSeen
<1>15. ASSUME NEW a \in new.audit, \A c \in new.audit : c.lineage = a.lineage => c.rev =< a.rev
       PROVE  /\ \A p \in Projections : new.held[p][a.lineage] \in {None, a.value}
              /\ a.op = "correct" => \E p \in Projections : new.held[p][a.lineage] # None
              /\ a.op = "forget" => \E t \in new.tombstones : t.id = a.id /\ t.lineage = a.lineage
  <2>1. CASE a = entry
    <3>1. \A p \in Projections : new.held[p][a.lineage] \in {None, a.value}
      BY <1>3, <1>11, <2>1
    <3>2. a.op = "correct" => \E p \in Projections : new.held[p][a.lineage] # None
      BY <1>3, <1>4, <1>5, <1>11, <2>1, RepairAssumption
    <3>3. a.op = "forget" => \E t \in new.tombstones : t.id = a.id /\ t.lineage = a.lineage
      BY <1>2, <1>3, <2>1 DEF Tombstones
    <3> QED BY <3>1, <3>2, <3>3
  <2>2. CASE a \in b.audit
    <3>1. a.lineage # q.lineage
      <4>1. entry \in new.audit
        BY <1>2
      <4>2. a.lineage = q.lineage => b.rev =< a.rev
        BY <1>3, <1>15, <4>1
      <4> QED BY <1>5, <1>6, <2>2, <4>2
    <3>2. \A c \in b.audit : c.lineage = a.lineage => c.rev =< a.rev
      BY <1>2, <1>15
    <3>3. a.lineage \in Lineages
      BY <2>2 DEF RepairInv, RequestsAreMade, DecidedOnWhatWasSeen
    <3>4. \A p \in Projections : new.held[p][a.lineage] = b.held[p][a.lineage]
      BY <1>11, <3>1, <3>3
    <3>5. b.tombstones \subseteq new.tombstones
      BY <1>2 DEF Tombstones
    <3> QED BY <2>2, <3>2, <3>4, <3>5 DEF RepairInv, ViewsAgreeOnRepairs
  <2> QED BY <1>2, <2>1, <2>2
<1>16. ViewsAgreeOnRepairs'
  BY <1>1, <1>15 DEF RepairInv, ViewsAgreeOnRepairs
<1> QED BY <1>1, <1>12, <1>14, <1>16 DEF RepairInv, RequestsAreMade

LEMMA RepairStep == RepairInv /\ [RepairNext]_repairVars => RepairInv'
<1> SUFFICES ASSUME RepairInv, [RepairNext]_repairVars PROVE RepairInv'
  OBVIOUS
<1>1. instant \in RepairClock
  BY DEF RepairInv
<1>2. ASSUME NEW b \in bundles, NEW id \in RequestIds, NEW lineage \in Lineages, NEW value \in Values,
             ComposeCorrection(b, id, lineage, value)
      PROVE  RepairInv'
  <2> DEFINE q == [id |-> id, op |-> "correct", lineage |-> lineage, at |-> instant, seen |-> b,
                   value |-> value, receipt |-> None]
  <2>1. Composes(q) /\ q.at = instant /\ q.lineage = lineage /\ q.value = value /\ q.op = "correct"
    BY <1>2 DEF ComposeCorrection
  <2> HIDE DEF q
  <2> QED BY <1>1, <2>1, ComposesKeeps
<1>3. ASSUME NEW b \in bundles, NEW id \in RequestIds, NEW lineage \in Lineages, NEW receipt \in Receipts,
             ComposeForget(b, id, lineage, receipt)
      PROVE  RepairInv'
  <2> DEFINE q == [id |-> id, op |-> "forget", lineage |-> lineage, at |-> instant, seen |-> b,
                   value |-> None, receipt |-> receipt]
  <2>1. Composes(q) /\ q.at = instant /\ q.lineage = lineage /\ q.value = None /\ q.op = "forget"
    BY <1>3 DEF ComposeForget
  <2> HIDE DEF q
  <2> QED BY <1>1, <2>1, ComposesKeeps
<1>4. CASE RepairTick
  BY <1>4 DEF RepairTick, RepairInv, RepairTypeOK, DecidedOnWhatWasSeen, ViewsAgreeOnRepairs,
              RequestsAreMade, AuditIsPast
<1>5. CASE UNCHANGED repairVars
  BY <1>5 DEF repairVars, RepairInv, RepairTypeOK, DecidedOnWhatWasSeen, ViewsAgreeOnRepairs,
              RequestsAreMade, AuditIsPast
<1> QED BY <1>2, <1>3, <1>4, <1>5, RepairKeeps DEF RepairNext

\* For any views, lineages, values and requests, whatever forks and is applied late: a repair in a
\* bundle was decided on exactly what precedes it there, and the views agree on the last one.
THEOREM RepairsAreDecided ==
    RepairSpec => [](RepairTypeOK /\ DecidedOnWhatWasSeen /\ ViewsAgreeOnRepairs)
<1>1. RepairInv => RepairTypeOK /\ DecidedOnWhatWasSeen /\ ViewsAgreeOnRepairs
  BY DEF RepairInv
<1> QED BY <1>1, RepairInvInit, RepairStep, PTL DEF RepairSpec

-----------------------------------------------------------------------------
(* MemoryStore                                                             *)

\* Numbers that are bounded have a greatest.
LEMMA BoundedHasGreatest ==
    ASSUME NEW S \in SUBSET Nat, S # {}, NEW n \in Nat, \A x \in S : x =< n
    PROVE  Max(S) \in S /\ \A x \in S : Max(S) >= x
<1> DEFINE Bounds == {u \in Nat : \A x \in S : x =< u}
<1>1. PICK u \in Bounds : \A v \in Bounds : <<v, u>> \notin OpToRel(<, Nat)
  <2>1. Bounds \subseteq Nat /\ Bounds # {}
    OBVIOUS
  <2> HIDE DEF Bounds
  <2> QED BY <2>1, NatLessThanWellFounded, WFMin
<1>2. \A v \in Bounds : ~(v < u)
  BY <1>1 DEF OpToRel
<1>3. u \in S
  <2>1. CASE u = 0
    <3>1. PICK x \in S : x \in Nat
      OBVIOUS
    <3>2. x =< u
      BY <3>1
    <3> QED BY <2>1, <3>1, <3>2
  <2>2. CASE u # 0
    <3>1. u - 1 \in Nat /\ u - 1 < u
      BY <2>2
    <3>2. u - 1 \notin Bounds
      BY <1>2, <3>1
    <3>3. PICK x \in S : ~(x =< u - 1)
      BY <3>1, <3>2
    <3> QED BY <3>3
  <2> QED BY <2>1, <2>2
<1>4. \E m \in S : \A x \in S : m >= x
  BY <1>3
<1> QED BY <1>4 DEF Max

Texts == {remark.text : remark \in Remarks} \cup {Reply}
RawEvents == [session : Sessions, text : Texts, grounded : BOOLEAN, done : BOOLEAN]

\* The rowids that were given have a bound, and what an episode is from has been consolidated.
RowidsAreBounded ==
    /\ vectorMeta = [row \in DOMAIN vectorMeta |-> vectorMeta[row]]
    /\ \E n \in Nat : \A row \in DOMAIN vectorMeta : vectorMeta[row] \in 0..n
EpisodesAreOfThePast ==
    /\ rawEvents \in Seq(RawEvents)
    /\ \A e \in rows : \A i \in e.from : i \in DOMAIN rawEvents /\ rawEvents[i].done

StoreInv ==
    /\ IndexesFollowRows /\ EmbeddingsAreTheirOwn /\ EventsAreToldOnce
    /\ RowidsAreBounded /\ EpisodesAreOfThePast

LEMMA StoreInvInit == StoreInit => StoreInv
<1> SUFFICES ASSUME StoreInit PROVE StoreInv
  OBVIOUS
<1>1. rows = {} /\ wordIndex = {} /\ DOMAIN vectorMeta = {} /\ rawEvents = <<>> /\ vectorMeta = <<>>
  BY DEF StoreInit
<1>2. <<>> = [row \in {} |-> <<>>[row]] /\ <<>> \in Seq(RawEvents)
  OBVIOUS
<1>3. RowidsAreBounded
  <2>1. 0 \in Nat /\ \A row \in DOMAIN vectorMeta : vectorMeta[row] \in 0..0
    BY <1>1
  <2> QED BY <1>1, <1>2, <2>1 DEF RowidsAreBounded
<1> QED BY <1>1, <1>2, <1>3
        DEF StoreInv, IndexesFollowRows, EmbeddingsAreTheirOwn, EventsAreToldOnce, EpisodesAreOfThePast

LEMMA RecordMessagesKeeps ==
    ASSUME StoreInv, NEW s \in Sessions, NEW remark \in Remarks, RecordMessages(s, remark)
    PROVE  StoreInv'
<1> DEFINE heard == [session |-> s, text |-> remark.text, grounded |-> TRUE, done |-> FALSE]
           said  == [session |-> s, text |-> Reply, grounded |-> FALSE, done |-> FALSE]
<1>1. rawEvents' = rawEvents \o <<heard, said>> /\ UNCHANGED <<rows, wordIndex, vectorMeta, vectors>>
  BY DEF RecordMessages
<1>2. heard \in RawEvents /\ said \in RawEvents
  BY DEF RawEvents, Texts
<1> HIDE DEF heard, said
<1>3. rawEvents \in Seq(RawEvents) /\ <<heard, said>> \in Seq(RawEvents)
  BY <1>2 DEF StoreInv, EpisodesAreOfThePast
<1>4. /\ rawEvents' \in Seq(RawEvents)
      /\ \A i \in DOMAIN rawEvents : i \in DOMAIN rawEvents' /\ rawEvents'[i] = rawEvents[i]
  BY <1>1, <1>3
<1> QED BY <1>1, <1>4
        DEF StoreInv, IndexesFollowRows, EmbeddingsAreTheirOwn, EventsAreToldOnce, RowidsAreBounded,
            EpisodesAreOfThePast

LEMMA ImportLegacyKeeps ==
    ASSUME StoreInv, ImportLegacy
    PROVE  StoreInv'
<1> DEFINE facts == {Fact(LegacyFacts[i]) : i \in DOMAIN LegacyFacts}
<1>1. /\ rows' = rows \cup facts /\ wordIndex' = wordIndex \cup facts
      /\ UNCHANGED <<rawEvents, vectorMeta, vectors>>
  BY DEF ImportLegacy
<1>2. \A e \in facts : e.from = {}
  BY DEF Fact
<1> HIDE DEF facts
<1>3. IndexesFollowRows' /\ EmbeddingsAreTheirOwn' /\ RowidsAreBounded'
  BY <1>1 DEF StoreInv, IndexesFollowRows, EmbeddingsAreTheirOwn, RowidsAreBounded
<1> QED BY <1>1, <1>2, <1>3 DEF StoreInv, EventsAreToldOnce, EpisodesAreOfThePast

\* What every event of a sequence becomes makes a sequence of the same length.
LEMMA EveryEventDone ==
    ASSUME rawEvents \in Seq(RawEvents),
           rawEvents' = [i \in DOMAIN rawEvents |-> [rawEvents[i] EXCEPT !.done = TRUE]]
    PROVE  /\ rawEvents' \in Seq(RawEvents) /\ DOMAIN rawEvents' = DOMAIN rawEvents
           /\ \A i \in DOMAIN rawEvents : rawEvents'[i].done
<1>1. /\ DOMAIN rawEvents = 1..Len(rawEvents) /\ Len(rawEvents) \in Nat
      /\ \A i \in 1..Len(rawEvents) : rawEvents[i] \in RawEvents
  OBVIOUS
<1>2. \A e \in RawEvents : [e EXCEPT !.done = TRUE] \in RawEvents /\ [e EXCEPT !.done = TRUE].done
  BY DEF RawEvents
<1>3. DOMAIN rawEvents' = 1..Len(rawEvents)
  BY <1>1
<1>4. \A i \in 1..Len(rawEvents) : rawEvents'[i] = [rawEvents[i] EXCEPT !.done = TRUE]
  BY <1>1
<1>5. rawEvents' \in [1..Len(rawEvents) -> RawEvents]
  <2>1. rawEvents' = [i \in 1..Len(rawEvents) |-> rawEvents'[i]]
    BY <1>1, <1>4
  <2>2. \A i \in 1..Len(rawEvents) : rawEvents'[i] \in RawEvents
    BY <1>1, <1>2, <1>4
  <2> QED BY <2>1, <2>2
<1>6. rawEvents' \in Seq(RawEvents)
  <2>1. Len(rawEvents) \in Nat
    BY <1>1
  <2> QED BY <1>5, <2>1, SeqDef
<1>7. \A i \in DOMAIN rawEvents : rawEvents'[i].done
  BY <1>1, <1>2, <1>4
<1> QED BY <1>1, <1>3, <1>6, <1>7

LEMMA ConsolidateEventsKeeps ==
    ASSUME StoreInv, ConsolidateEvents
    PROVE  StoreInv'
<1> DEFINE episodes == {Episode(s) : s \in {t \in Sessions : PendingOf(t) # {}}}
<1>1. /\ rows' = rows \cup episodes /\ wordIndex' = wordIndex \cup episodes
      /\ rawEvents' = [i \in DOMAIN rawEvents |-> [rawEvents[i] EXCEPT !.done = TRUE]]
      /\ UNCHANGED <<vectorMeta, vectors>>
  BY DEF ConsolidateEvents
<1>2. \A e \in episodes : \E s \in Sessions : e = Episode(s) /\ e.from = PendingOf(s)
  BY DEF Episode
<1> HIDE DEF episodes
<1>3. /\ rawEvents \in Seq(RawEvents)
      /\ \A e \in rows : \A i \in e.from : i \in DOMAIN rawEvents /\ rawEvents[i].done
  BY DEF StoreInv, EpisodesAreOfThePast
<1>4. /\ rawEvents' \in Seq(RawEvents) /\ DOMAIN rawEvents' = DOMAIN rawEvents
      /\ \A i \in DOMAIN rawEvents : rawEvents'[i].done
  BY <1>1, <1>3, EveryEventDone
<1>5. \A s \in Sessions : \A i \in PendingOf(s) : i \in DOMAIN rawEvents /\ rawEvents[i].session = s /\ ~rawEvents[i].done
  BY DEF PendingOf
<1>6. EventsAreToldOnce'
  <2> SUFFICES ASSUME NEW e1 \in rows', NEW e2 \in rows', NEW i \in e1.from \cap e2.from PROVE e1 = e2
    BY DEF EventsAreToldOnce
  <2>1. CASE e1 \in rows /\ e2 \in rows
    BY <2>1 DEF StoreInv, EventsAreToldOnce
  <2>2. CASE e1 \in episodes /\ e2 \in episodes
    BY <1>2, <1>5, <2>2
  <2>3. CASE e1 \in rows /\ e2 \in episodes
    BY <1>2, <1>3, <1>5, <2>3
  <2>4. CASE e1 \in episodes /\ e2 \in rows
    BY <1>2, <1>3, <1>5, <2>4
  <2> QED BY <1>1, <2>1, <2>2, <2>3, <2>4
<1>7. EpisodesAreOfThePast'
  BY <1>1, <1>2, <1>3, <1>4, <1>5 DEF EpisodesAreOfThePast
<1> QED BY <1>1, <1>6, <1>7 DEF StoreInv, IndexesFollowRows, EmbeddingsAreTheirOwn, RowidsAreBounded

LEMMA ForgetKeeps ==
    ASSUME StoreInv, NEW row \in rows, Forget(row)
    PROVE  StoreInv'
<1>1. /\ rows' = rows \ {row} /\ wordIndex' = wordIndex \ {row} /\ rawEvents' = rawEvents
      /\ DOMAIN vectorMeta' = DOMAIN vectorMeta \ {row} /\ \A r \in DOMAIN vectorMeta' : vectorMeta'[r] = vectorMeta[r]
      /\ vectorMeta' = [r \in DOMAIN vectorMeta' |-> vectorMeta'[r]]
  BY DEF Forget, Without
<1>2. DOMAIN vectors' \subseteq DOMAIN vectors /\ \A n \in DOMAIN vectors' : vectors'[n] = vectors[n]
  BY DEF Forget, Without
<1>3. RowidsAreBounded'
  BY <1>1 DEF StoreInv, RowidsAreBounded
<1>4. EmbeddingsAreTheirOwn'
  BY <1>1, <1>2 DEF StoreInv, EmbeddingsAreTheirOwn
<1> QED BY <1>1, <1>3, <1>4 DEF StoreInv, IndexesFollowRows, EventsAreToldOnce, EpisodesAreOfThePast

LEMMA UpsertEmbeddingKeeps ==
    ASSUME StoreInv, NEW row \in rows, UpsertEmbedding(row)
    PROVE  StoreInv'
<1> DEFINE rowid == IF row \in DOMAIN vectorMeta THEN vectorMeta[row] ELSE NextRowid
<1>1. /\ row \notin DOMAIN vectorMeta \/ vectorMeta[row] \notin DOMAIN vectors
      /\ row \in DOMAIN vectorMeta \/ rowid \notin DOMAIN vectors
      /\ vectorMeta' = [r \in DOMAIN vectorMeta \cup {row} |-> IF r = row THEN rowid ELSE vectorMeta[r]]
      /\ vectors' = [r \in DOMAIN vectors \cup {rowid} |-> IF r = rowid THEN row ELSE vectors[r]]
      /\ UNCHANGED <<rawEvents, rows, wordIndex>>
  BY DEF UpsertEmbedding, EmbeddingItems
<1>2. PICK n \in Nat : \A r \in DOMAIN vectorMeta : vectorMeta[r] \in 0..n
  BY DEF StoreInv, RowidsAreBounded
<1>3. row \notin DOMAIN vectorMeta => rowid \in Nat /\ \A r \in DOMAIN vectorMeta : vectorMeta[r] # rowid
  <2> DEFINE used == {0} \cup {vectorMeta[r] : r \in DOMAIN vectorMeta}
  <2>1. used \in SUBSET Nat /\ used # {} /\ \A x \in used : x =< n
    BY <1>2
  <2>2. Max(used) \in used /\ \A x \in used : Max(used) >= x
    <3> HIDE DEF used
    <3> QED BY <2>1, BoundedHasGreatest
  <2>3. NextRowid = 1 + Max(used)
    BY DEF NextRowid
  <2>4. Max(used) \in Nat
    BY <2>1, <2>2
  <2>5. \A r \in DOMAIN vectorMeta : vectorMeta[r] \in used
    OBVIOUS
  <2> HIDE DEF used
  <2>6. \A r \in DOMAIN vectorMeta : vectorMeta[r] \in Nat /\ vectorMeta[r] =< Max(used)
    BY <2>1, <2>2, <2>5
  <2>7. NextRowid \in Nat /\ \A r \in DOMAIN vectorMeta : vectorMeta[r] # NextRowid
    BY <2>3, <2>4, <2>6
  <2> QED BY <2>7
<1>4. row \in DOMAIN vectorMeta => rowid = vectorMeta[row]
  OBVIOUS
<1>5. rowid \in Nat
  BY <1>2, <1>3, <1>4
<1> HIDE DEF rowid
<1>6. /\ DOMAIN vectorMeta' = DOMAIN vectorMeta \cup {row} /\ vectorMeta'[row] = rowid
      /\ \A r \in DOMAIN vectorMeta : r # row => vectorMeta'[r] = vectorMeta[r]
      /\ vectorMeta' = [r \in DOMAIN vectorMeta' |-> vectorMeta'[r]]
  BY <1>1
<1>7. /\ DOMAIN vectors' = DOMAIN vectors \cup {rowid} /\ vectors'[rowid] = row
      /\ \A m \in DOMAIN vectors : m # rowid => vectors'[m] = vectors[m]
  BY <1>1
<1>8. \A r \in DOMAIN vectorMeta : r # row => vectorMeta[r] # rowid
  BY <1>3, <1>4 DEF StoreInv, EmbeddingsAreTheirOwn
<1>9. EmbeddingsAreTheirOwn'
  BY <1>6, <1>7, <1>8 DEF StoreInv, EmbeddingsAreTheirOwn
<1>10. RowidsAreBounded'
  <2>1. n + rowid \in Nat /\ \A r \in DOMAIN vectorMeta' : vectorMeta'[r] \in 0..(n + rowid)
    BY <1>2, <1>5, <1>6
  <2> QED BY <1>6, <2>1 DEF RowidsAreBounded
<1> QED BY <1>1, <1>6, <1>9, <1>10 DEF StoreInv, IndexesFollowRows, EventsAreToldOnce, EpisodesAreOfThePast

LEMMA StoreStep == StoreInv /\ [StoreNext]_storeVars => StoreInv'
<1> SUFFICES ASSUME StoreInv, [StoreNext]_storeVars PROVE StoreInv'
  OBVIOUS
<1>1. CASE ExtensionChanges
  BY <1>1 DEF ExtensionChanges, StoreInv, IndexesFollowRows, EmbeddingsAreTheirOwn, EventsAreToldOnce,
              RowidsAreBounded, EpisodesAreOfThePast
<1>2. CASE UNCHANGED storeVars
  BY <1>2 DEF storeVars, StoreInv, IndexesFollowRows, EmbeddingsAreTheirOwn, EventsAreToldOnce,
              RowidsAreBounded, EpisodesAreOfThePast
<1> QED BY <1>1, <1>2, RecordMessagesKeeps, ImportLegacyKeeps, ConsolidateEventsKeeps, ForgetKeeps,
           UpsertEmbeddingKeeps DEF StoreNext

\* For any conversations, memories and moments at which the extension is there or not: the indexes
\* are of the rows, an embedding is its row's own, and an event is in one episode.
THEOREM RowsAreFoundByTheirOwn ==
    StoreSpec => [](IndexesFollowRows /\ EmbeddingsAreTheirOwn /\ EventsAreToldOnce)
<1>1. StoreInv => IndexesFollowRows /\ EmbeddingsAreTheirOwn /\ EventsAreToldOnce
  BY DEF StoreInv
<1> QED BY <1>1, StoreInvInit, StoreStep, PTL DEF StoreSpec


-----------------------------------------------------------------------------
\* The least and the greatest of two.
LEMMA OfTwo ==
    ASSUME NEW a \in Int, NEW b \in Int
    PROVE  /\ Min({a, b}) = IF a =< b THEN a ELSE b
           /\ Max({a, b}) = IF a >= b THEN a ELSE b
<1>1. Min({a, b}) = IF a =< b THEN a ELSE b
  <2>1. \E x \in {a, b} : \A y \in {a, b} : x =< y
    OBVIOUS
  <2> DEFINE m == Min({a, b})
  <2>2. m \in {a, b} /\ \A y \in {a, b} : m =< y
    BY <2>1 DEF Min
  <2> HIDE DEF m
  <2>3. m = IF a =< b THEN a ELSE b
    BY <2>2
  <2> QED BY <2>3 DEF m
<1>2. Max({a, b}) = IF a >= b THEN a ELSE b
  <2>1. \E x \in {a, b} : \A y \in {a, b} : x >= y
    OBVIOUS
  <2> DEFINE m == Max({a, b})
  <2>2. m \in {a, b} /\ \A y \in {a, b} : m >= y
    BY <2>1 DEF Max
  <2> HIDE DEF m
  <2>3. m = IF a >= b THEN a ELSE b
    BY <2>2
  <2> QED BY <2>3 DEF m
<1> QED BY <1>1, <1>2

Styles == [preferred : {"natural", "short", "continued"}, short : Int, continued : Int, rejected : Int]

\* What raised a score was said: a score is above zero only when it was asked for.
Asked(reaction, said) ==
    \E remark \in Remarks : remark.reaction = reaction /\ [role |-> "user", text |-> remark.text] \in said
ScoresAreAskedFor ==
    /\ turns = [s \in Sessions |-> turns[s]]
    /\ dialogue = [s \in Sessions |-> dialogue[s]]
    /\ \A s \in Sessions :
          /\ turns[s] \in Seq([role : {"user", "assistant"}, text : Texts])
          /\ dialogue[s].style \in Styles
          /\ dialogue[s].style.short > 0 => Asked("short", ToSet(turns[s]))
          /\ dialogue[s].style.continued > 0 => Asked("continued", ToSet(turns[s]))
          /\ dialogue[s].style.preferred = "short" => dialogue[s].style.short > 0
          /\ dialogue[s].style.preferred = "continued" => dialogue[s].style.continued > 0

LEMMA ReactedScores ==
    ASSUME NEW style \in Styles, NEW reaction
    PROVE  /\ Reacted(style, reaction) \in Styles
           /\ Reacted(style, reaction).short > 0 => style.short > 0 \/ reaction = "short"
           /\ Reacted(style, reaction).continued > 0 => style.continued > 0 \/ reaction = "continued"
<1> DEFINE now == Reacted(style, reaction)
<1>1. /\ style.short \in Int /\ style.continued \in Int /\ style.rejected \in Int
      /\ style.preferred \in {"natural", "short", "continued"}
  BY DEF Styles
<1>2. \A x \in Int, by \in Nat : Raised(x, by) \in Int /\ Lowered(x, by) \in Int /\ (Lowered(x, by) > 0 => x > 0)
  <2> SUFFICES ASSUME NEW x \in Int, NEW by \in Nat
               PROVE  Raised(x, by) \in Int /\ Lowered(x, by) \in Int /\ (Lowered(x, by) > 0 => x > 0)
    OBVIOUS
  <2>1. x + by \in Int /\ x - by \in Int /\ 100 \in Int /\ 0 \in Int
    OBVIOUS
  <2>2. Raised(x, by) = IF 100 =< x + by THEN 100 ELSE x + by
    BY <2>1, OfTwo DEF Raised
  <2>3. Lowered(x, by) = IF 0 >= x - by THEN 0 ELSE x - by
    BY <2>1, OfTwo DEF Lowered
  <2> QED BY <2>2, <2>3
<1>3. /\ Lowered(style.short, 3) \in Int /\ (Lowered(style.short, 3) > 0 => style.short > 0)
      /\ Lowered(style.continued, 5) \in Int /\ (Lowered(style.continued, 5) > 0 => style.continued > 0)
      /\ Lowered(style.continued, 7) \in Int /\ (Lowered(style.continued, 7) > 0 => style.continued > 0)
      /\ Raised(style.short, 20) \in Int /\ Raised(style.continued, 15) \in Int /\ Raised(style.rejected, 20) \in Int
  BY <1>1, <1>2
<1>4. CASE reaction = "short"
  <2>1. now = [preferred |-> style.preferred, short |-> Raised(style.short, 20),
               continued |-> Lowered(style.continued, 5), rejected |-> style.rejected]
    BY <1>4 DEF Reacted, Styles
  <2> QED BY <1>1, <1>3, <1>4, <2>1 DEF Styles
<1>5. CASE reaction = "continued"
  <2>1. now = [preferred |-> style.preferred, short |-> Lowered(style.short, 3),
               continued |-> Raised(style.continued, 15), rejected |-> style.rejected]
    BY <1>5 DEF Reacted, Styles
  <2> QED BY <1>1, <1>3, <1>5, <2>1 DEF Styles
<1>6. CASE reaction = "rejected"
  <2>1. now = [preferred |-> style.preferred, short |-> style.short,
               continued |-> Lowered(style.continued, 7), rejected |-> Raised(style.rejected, 20)]
    BY <1>6 DEF Reacted, Styles
  <2> QED BY <1>1, <1>3, <1>6, <2>1 DEF Styles
<1>7. CASE reaction \notin {"short", "continued", "rejected"}
  BY <1>7 DEF Reacted
<1> QED BY <1>4, <1>5, <1>6, <1>7

LEMMA PreferredIsEarned ==
    ASSUME NEW style \in Styles
    PROVE  /\ Preferred(style) \in {"natural", "short", "continued"}
           /\ Preferred(style) = "short" => style.short > 0
           /\ Preferred(style) = "continued" => style.continued > 0
<1>1. style.short \in Int /\ style.continued \in Int /\ style.rejected \in Int
  BY DEF Styles
<1> QED BY <1>1 DEF Preferred

LEMMA AppliedStyle ==
    ASSUME NEW style \in Styles, NEW reaction
    PROVE  LET then == ApplyStyleReaction(style, reaction)
           IN /\ then \in Styles
              /\ then.short > 0 => style.short > 0 \/ reaction = "short"
              /\ then.continued > 0 => style.continued > 0 \/ reaction = "continued"
              /\ then.preferred = "short" => then.short > 0
              /\ then.preferred = "continued" => then.continued > 0
<1> DEFINE now == Reacted(style, reaction)
           then == ApplyStyleReaction(style, reaction)
<1>1. /\ now \in Styles
      /\ now.short > 0 => style.short > 0 \/ reaction = "short"
      /\ now.continued > 0 => style.continued > 0 \/ reaction = "continued"
  BY ReactedScores
<1>2. then = [now EXCEPT !.preferred = Preferred(now)]
  BY DEF ApplyStyleReaction
<1> HIDE DEF now, then
<1>3. /\ Preferred(now) \in {"natural", "short", "continued"}
      /\ Preferred(now) = "short" => now.short > 0
      /\ Preferred(now) = "continued" => now.continued > 0
  BY <1>1, PreferredIsEarned
<1>4. then = [preferred |-> Preferred(now), short |-> now.short, continued |-> now.continued, rejected |-> now.rejected]
  BY <1>1, <1>2 DEF Styles
<1>5. /\ then \in Styles
      /\ then.short > 0 => style.short > 0 \/ reaction = "short"
      /\ then.continued > 0 => style.continued > 0 \/ reaction = "continued"
      /\ then.preferred = "short" => then.short > 0
      /\ then.preferred = "continued" => then.continued > 0
  BY <1>1, <1>3, <1>4 DEF Styles
<1> QED BY <1>5 DEF then

LEMMA RecordMessagesScores ==
    ASSUME ScoresAreAskedFor, NEW s \in Sessions, NEW remark \in Remarks, RecordMessages(s, remark)
    PROVE  ScoresAreAskedFor'
<1> DEFINE Messages == [role : {"user", "assistant"}, text : Texts]
           heard == [role |-> "user", text |-> remark.text]
           spoken == [role |-> "assistant", text |-> Reply]
           then == ApplyStyleReaction(dialogue[s].style, remark.reaction)
<1>1. /\ turns' = [t \in Sessions |-> IF t = s THEN turns[s] \o <<heard, spoken>> ELSE turns[t]]
      /\ DOMAIN dialogue' = Sessions /\ dialogue' = [t \in Sessions |-> dialogue'[t]]
      /\ dialogue'[s].style = then /\ \A t \in Sessions : t # s => dialogue'[t] = dialogue[t]
  <2>1. /\ turns' = [turns EXCEPT ![s] = turns[s] \o <<heard, spoken>>]
        /\ dialogue' = [dialogue EXCEPT ![s] =
               [topics |-> TopicsWith(dialogue[s].topics, remark.text), style |-> then]]
    BY DEF RecordMessages
  <2>2. turns = [t \in Sessions |-> turns[t]] /\ dialogue = [t \in Sessions |-> dialogue[t]]
    BY DEF ScoresAreAskedFor
  <2> HIDE DEF heard, spoken, then
  <2> QED BY <2>1, <2>2
<1>2. heard \in Messages /\ spoken \in Messages
  BY DEF Texts
<1>3. /\ dialogue[s].style \in Styles /\ turns[s] \in Seq(Messages)
      /\ dialogue[s].style.short > 0 => Asked("short", ToSet(turns[s]))
      /\ dialogue[s].style.continued > 0 => Asked("continued", ToSet(turns[s]))
  BY DEF ScoresAreAskedFor
<1>4. /\ then \in Styles
      /\ then.short > 0 => dialogue[s].style.short > 0 \/ remark.reaction = "short"
      /\ then.continued > 0 => dialogue[s].style.continued > 0 \/ remark.reaction = "continued"
      /\ then.preferred = "short" => then.short > 0
      /\ then.preferred = "continued" => then.continued > 0
  BY <1>3, AppliedStyle
<1> HIDE DEF spoken, then, Messages
<1>5. heard \in ToSet(turns'[s]) /\ ToSet(turns[s]) \subseteq ToSet(turns'[s]) /\ turns'[s] \in Seq(Messages)
  <2> HIDE DEF heard
  <2>1. turns'[s] = turns[s] \o <<heard, spoken>> /\ <<heard, spoken>> \in Seq(Messages)
    BY <1>1, <1>2
  <2>2. turns'[s] \in Seq(Messages) /\ Len(turns'[s]) = Len(turns[s]) + 2 /\ Len(turns[s]) \in Nat
    BY <1>3, <2>1
  <2>3. \A i \in 1..Len(turns[s]) : turns'[s][i] = turns[s][i]
    BY <1>3, <2>1
  <2>4. turns'[s][Len(turns[s]) + 1] = heard
    BY <1>3, <2>1
  <2>5. DOMAIN turns'[s] = 1..(Len(turns[s]) + 2) /\ DOMAIN turns[s] = 1..Len(turns[s])
    BY <1>3, <2>2
  <2>6. heard \in ToSet(turns'[s])
    <3>1. Len(turns[s]) + 1 \in DOMAIN turns'[s]
      BY <2>2, <2>5
    <3> QED BY <2>4, <3>1 DEF ToSet
  <2>7. \A i \in DOMAIN turns[s] : i \in DOMAIN turns'[s] /\ turns'[s][i] = turns[s][i]
    BY <2>2, <2>3, <2>5
  <2>8. ToSet(turns[s]) \subseteq ToSet(turns'[s])
    BY <2>7 DEF ToSet
  <2> QED BY <2>2, <2>6, <2>8
<1>6. \A reaction : /\ Asked(reaction, ToSet(turns[s])) => Asked(reaction, ToSet(turns'[s]))
                    /\ remark.reaction = reaction => Asked(reaction, ToSet(turns'[s]))
  BY <1>5 DEF Asked
<1> HIDE DEF heard
<1>7. /\ then.short > 0 => Asked("short", ToSet(turns'[s]))
      /\ then.continued > 0 => Asked("continued", ToSet(turns'[s]))
  BY <1>3, <1>4, <1>6
<1>8. turns' = [t \in Sessions |-> turns'[t]]
  BY <1>1
<1>9. ASSUME NEW t \in Sessions
      PROVE  /\ turns'[t] \in Seq(Messages) /\ dialogue'[t].style \in Styles
             /\ dialogue'[t].style.short > 0 => Asked("short", ToSet(turns'[t]))
             /\ dialogue'[t].style.continued > 0 => Asked("continued", ToSet(turns'[t]))
             /\ dialogue'[t].style.preferred = "short" => dialogue'[t].style.short > 0
             /\ dialogue'[t].style.preferred = "continued" => dialogue'[t].style.continued > 0
  <2>1. CASE t = s
    BY <1>1, <1>4, <1>5, <1>7, <2>1
  <2>2. CASE t # s
    <3>1. turns'[t] = turns[t] /\ dialogue'[t] = dialogue[t]
      BY <1>1, <2>2
    <3> QED BY <3>1 DEF ScoresAreAskedFor, Messages
  <2> QED BY <2>1, <2>2
<1> QED BY <1>1, <1>8, <1>9 DEF ScoresAreAskedFor, Messages

LEMMA ScoresInit == StoreInit => ScoresAreAskedFor
<1> SUFFICES ASSUME StoreInit PROVE ScoresAreAskedFor
  OBVIOUS
<1>1. /\ turns = [s \in Sessions |-> <<>>]
      /\ dialogue = [s \in Sessions |-> EmptyDialogue]
  BY DEF StoreInit
<1>2. \A s \in Sessions : turns[s] = <<>> /\ dialogue[s].style = EmptyStyle
  BY <1>1 DEF EmptyDialogue
<1>3. EmptyStyle \in Styles /\ EmptyStyle.short = 0 /\ EmptyStyle.continued = 0 /\ EmptyStyle.preferred = "natural"
  BY DEF EmptyStyle, Styles
<1> QED BY <1>1, <1>2, <1>3 DEF ScoresAreAskedFor

LEMMA ScoresStep == ScoresAreAskedFor /\ [StoreNext]_storeVars => ScoresAreAskedFor'
<1> SUFFICES ASSUME ScoresAreAskedFor, [StoreNext]_storeVars PROVE ScoresAreAskedFor'
  OBVIOUS
<1>1. UNCHANGED <<turns, dialogue>> => ScoresAreAskedFor'
  BY DEF ScoresAreAskedFor
<1>2. ASSUME NEW row \in rows, Forget(row) \/ UpsertEmbedding(row) PROVE UNCHANGED <<turns, dialogue>>
  BY <1>2 DEF Forget, UpsertEmbedding
<1> QED BY <1>1, <1>2, RecordMessagesScores
        DEF StoreNext, ImportLegacy, ConsolidateEvents, ExtensionChanges, storeVars

\* For any remarks: a conversation prefers a style only when it was asked for in that conversation.
THEOREM StylesAreAskedFor == StoreSpec => []StyleIsAskedFor
<1>1. ScoresAreAskedFor => StyleIsAskedFor
  <2> SUFFICES ASSUME ScoresAreAskedFor, NEW s \in Sessions, dialogue[s].style.preferred # "natural"
               PROVE  Asked(dialogue[s].style.preferred, ToSet(turns[s]))
    BY DEF StyleIsAskedFor, Asked
  <2>1. dialogue[s].style.preferred \in {"short", "continued"}
    BY DEF ScoresAreAskedFor, Styles
  <2> QED BY <2>1 DEF ScoresAreAskedFor
<1> QED BY <1>1, ScoresInit, ScoresStep, PTL DEF StoreSpec

-----------------------------------------------------------------------------
(* Memory                                                                  *)

\* What sleep, the ledger, the repairs and the store promise together: one consolidation at a
\* time, consent and deletions on the ledger before they are answered, repairs decided on what
\* was seen, and rows that are found by what is their own.
MemoryIsGoverned ==
    /\ [](SleepTypeOK /\ OneConsolidation /\ DeepOnceADay)
    /\ [](ControlTypeOK /\ AnswersAreDurable /\ DeletionsAreCovered)
    /\ [](RepairTypeOK /\ DecidedOnWhatWasSeen /\ ViewsAgreeOnRepairs)
    /\ [](IndexesFollowRows /\ EmbeddingsAreTheirOwn /\ EventsAreToldOnce /\ StyleIsAskedFor)

\* sleep_cycle, memory_control_service_v1, memory_consent_v1, memory_repair_v1 and
\* sqlite_memory, each called in any order.
THEOREM MemoryAlwaysGoverned ==
    SleepSpec /\ ControlSpec /\ RepairSpec /\ StoreSpec => MemoryIsGoverned
  BY NightsComeOneByOne, AnswersOutliveTheProcess, RepairsAreDecided, RowsAreFoundByTheirOwn,
     StylesAreAskedFor, PTL DEF MemoryIsGoverned
=============================================================================
