------------------------------ MODULE CommunityRules ------------------------------
(***************************************************************************)
(* Roles and incidents in a room (lumina_next/role_packs_v1.py,            *)
(* community_safety_v1.py): the engines that judge a request of whoever    *)
(* speaks, a report of an incident, which rests on a decision about the    *)
(* reporter's role, and an appeal against what was decided on it.  They    *)
(* share the one-time tokens of ScopeToken with the room of SocialTurns,    *)
(* which goes on between any two of their calls.                           *)
(*                                                                         *)
(* One tenant, one room, one role pack; a user has one session.  A request *)
(* that is refused raises before anything is written: it is no action.     *)
(* The role decision a report rests on is one the role engine gave: the    *)
(* safety engine asks for a hash that fits, which has no key, and does not *)
(* ask the role engine, so that it would take one made up elsewhere too.   *)
(***************************************************************************)
EXTENDS Integers, Sequences, FiniteSets, Absent

CONSTANTS
    Guests,          \* the registered participants
    Badges,          \* the tokens that were issued to them
    RolePolicy,      \* one of ROLE_PACKS: roles, needs, allowed, forbidden, handoffs, exits
    RoleIntents, RoleTriggers,   \* what a request may say
    Categories,      \* CATEGORY_POLICIES: a set of actions for each category
    ResponseWindow,  \* MAX_RESPONSE_SECONDS
    RequestNames, IncidentNames, AppealNames,  \* ids the callers choose
    LastMinute, MaxSpeeches    \* bounds

ASSUME RulesAssumption == LastMinute \in Nat

VARIABLES
    present, talking, waitingLine, turnNo, roomAudit,  \* the room
    minute,          \* the time
    spent,           \* _consumed of the identity model
    roleRequests, exitedUsers,  \* _request_ids, _exited_users
    verdicts,        \* the role decisions that callers hold
    incidents,       \* _incidents
    appeals,         \* _appeals, with the incident and who appealed
    auditLog         \* _audit: type, record and actor

rulesVars == <<present, talking, waitingLine, turnNo, roomAudit, minute, spent, roleRequests, exitedUsers,
               verdicts, incidents, appeals, auditLog>>

Room == INSTANCE SocialTurns WITH Participants <- Guests, ConsentIds <- {}, MaxTurns <- MaxSpeeches,
    presence <- present, speaker <- talking, line <- waitingLine, consents <- <<>>, turnNumber <- turnNo

Desk == INSTANCE ScopeToken WITH Subjects <- Guests, RolePermissions <- [r \in RolePolicy.roles |-> {}],
    TokenIds <- {b.id : b \in Badges}, TokenClock <- 0..LastMinute, MaxTtl <- LastMinute, MaxGrants <- 0,
    tokens <- Badges, consumed <- spent, granted <- {}, refused <- FALSE

RoomRests == UNCHANGED <<present, talking, waitingLine, turnNo, roomAudit, minute>>
HereNow(u) == u \in Guests /\ present[u] = "PRESENT"

\* The token is accepted, and used up once everything else was.
SpendsBadge(b, u) ==
    /\ Desk!TokenAccepted(b, "action", minute) /\ b.who.subject = u
    /\ spent' = spent \cup {b.id}

-----------------------------------------------------------------------------
(* RolePackEngine.evaluate                                                 *)

RoleDecision(intent, trigger) ==
    CASE intent \in RolePolicy.forbidden -> None
      [] intent \in RolePolicy.allowed -> IF trigger = None THEN "ALLOW_LOCAL_REFERENCE" ELSE None
      [] intent = "request_handoff" -> IF trigger \in RolePolicy.handoffs THEN "HANDOFF_REQUIRED" ELSE None
      [] intent = "exit_role" -> IF trigger \in RolePolicy.exits THEN "EXIT_ROLE_PACK" ELSE None
      [] OTHER -> None

\* _request: a request is decided once.
FreshRequest(id) == id \notin roleRequests

EvaluateRole(b, u, id, intent, trigger) ==
    LET decision == RoleDecision(intent, trigger)
    IN /\ FreshRequest(id)
       /\ b.who.role \in RolePolicy.roles /\ RolePolicy.needs \subseteq b.who.may
       /\ HereNow(u) /\ talking = u /\ u \notin exitedUsers
       /\ decision # None
       /\ SpendsBadge(b, u)
       /\ roleRequests' = roleRequests \cup {id}
       /\ exitedUsers' = exitedUsers \cup (IF decision = "EXIT_ROLE_PACK" THEN {u} ELSE {})
       /\ verdicts' = verdicts \cup {[request |-> id, user |-> u, decision |-> decision, badge |-> b.id, nth |-> Cardinality(verdicts)]}
       /\ RoomRests /\ UNCHANGED <<incidents, appeals, auditLog>>

-----------------------------------------------------------------------------
(* CommunitySafetyEngine                                                   *)

Reported(id) == \E i \in incidents : i.id = id

AppendAudit(kind, id, actor) == auditLog' = Append(auditLog, [type |-> kind, record |-> id, actor |-> actor])

\* _incident_request: a new report, of a known kind and in time.
AcceptableReport(id, category, occurred) ==
    /\ ~Reported(id)
    /\ category \in DOMAIN Categories
    /\ occurred =< minute /\ minute - occurred < ResponseWindow

\* _validate_role_decision: a decision about the reporter, which allowed what was asked.
Warrants(verdict, u) == verdict.user = u /\ verdict.decision = "ALLOW_LOCAL_REFERENCE"

\* assess: the reporter speaks, the subject is there, and a role decision lets the reporter.
Assess(b, u, id, subject, category, occurred, verdict) ==
    /\ AcceptableReport(id, category, occurred)
    /\ Warrants(verdict, u)
    /\ HereNow(u) /\ HereNow(subject) /\ talking = u
    /\ SpendsBadge(b, u)
    /\ AppendAudit("INCIDENT_DECISION", id, u)
    /\ incidents' = incidents \cup {[id |-> id, reporter |-> u, subject |-> subject, actions |-> Categories[category],
                                     at |-> minute, latency |-> minute - occurred, verdict |-> verdict, badge |-> b.id]}
    /\ RoomRests /\ UNCHANGED <<roleRequests, exitedUsers, verdicts, appeals>>

\* appeal: by the subject of the incident, who need not speak.
AppealAgainst(b, u, id, incident) ==
    /\ \A a \in appeals : a.id # id
    /\ u = incident.subject /\ HereNow(u)
    /\ SpendsBadge(b, u)
    /\ AppendAudit("APPEAL_DECISION", id, u)
    /\ appeals' = appeals \cup {[id |-> id, incident |-> incident.id, user |-> u, badge |-> b.id]}
    /\ RoomRests /\ UNCHANGED <<roleRequests, exitedUsers, verdicts, incidents>>

-----------------------------------------------------------------------------
(* What goes on meanwhile                                                  *)

EnginesRest == UNCHANGED <<roleRequests, exitedUsers, verdicts, incidents, appeals, auditLog>>

\* SocialInteractionProtocol.process_event: a guest joins, speaks, waits, yields or leaves;
\* an event of the room takes a token as well, and is kept in the room's audit.
EventInRoom(b, u) ==
    /\ Room!EventOf(u) /\ SpendsBadge(b, u)
    /\ roomAudit' = roomAudit \cup {[badge |-> b.id, user |-> u, nth |-> Cardinality(roomAudit)]}
    /\ EnginesRest /\ UNCHANGED minute

MinutePasses ==
    /\ minute < LastMinute /\ minute' = minute + 1
    /\ EnginesRest /\ UNCHANGED <<present, talking, waitingLine, turnNo, roomAudit, spent>>

\* The engines start when the guests are there, and perhaps one of them speaks.
RulesInit ==
    /\ present = [u \in Guests |-> "PRESENT"] /\ talking \in Guests \cup {None} /\ waitingLine = <<>>
    /\ turnNo = (IF talking = None THEN 0 ELSE 1) /\ roomAudit = {}
    /\ minute = 0 /\ spent = {}
    /\ roleRequests = {} /\ exitedUsers = {} /\ verdicts = {}
    /\ incidents = {} /\ appeals = {} /\ auditLog = <<>>

RulesNext ==
    \/ MinutePasses
    \/ \E b \in Badges, u \in Guests :
          \/ EventInRoom(b, u)
          \/ \E id \in RequestNames, intent \in RoleIntents, trigger \in RoleTriggers : EvaluateRole(b, u, id, intent, trigger)
          \/ \E id \in IncidentNames, subject \in Guests, category \in DOMAIN Categories \cup {"gossip"},
                occurred \in 0..LastMinute, verdict \in verdicts : Assess(b, u, id, subject, category, occurred, verdict)
          \/ \E id \in AppealNames, incident \in incidents : AppealAgainst(b, u, id, incident)

RulesSpec == RulesInit /\ [][RulesNext]_rulesVars

-----------------------------------------------------------------------------
RulesTypeOK ==
    /\ spent \subseteq {b.id : b \in Badges} /\ minute \in 0..LastMinute
    /\ roleRequests = {v.request : v \in verdicts}

\* validate_scope_token: whichever engine it is shown to, a token serves for one deed, and
\* what is spent served: a refusal of the others did not use it up.
OneDeedPerBadge ==
    LET deeds == roomAudit \cup verdicts \cup incidents \cup appeals
    IN /\ \A d, e \in deeds : d.badge = e.badge => d = e
       /\ spent = {d.badge : d \in deeds}

\* evaluate: a request is decided once, and of a user who left the role nothing is decided
\* any more, in whichever turn the user speaks again.
ExitIsTheLast ==
    /\ \A v, w \in verdicts : v.request = w.request => v = w
    /\ \A v, w \in verdicts : v.decision = "EXIT_ROLE_PACK" /\ w.user = v.user => w.nth =< v.nth

\* assess: containment is decided of what was reported in time, by a reporter who was once
\* allowed, and for a known kind of incident.
IncidentsAreGrounded ==
    \A i \in incidents :
        /\ i.latency < ResponseWindow /\ i.latency =< i.at
        /\ i.verdict \in verdicts /\ i.verdict.user = i.reporter
        /\ i.actions \in {Categories[c] : c \in DOMAIN Categories}

\* appeal: only the one an incident is about appeals, and after it was decided; the audit has
\* every decision once, an incident before its appeals.
AuditTellsAll ==
    LET places(kind, id) == {n \in DOMAIN auditLog : auditLog[n].type = kind /\ auditLog[n].record = id}
    IN /\ Len(auditLog) = Cardinality(incidents) + Cardinality(appeals)
       /\ \A i, j \in incidents : i.id = j.id => i = j
       /\ \A i \in incidents : Cardinality(places("INCIDENT_DECISION", i.id)) = 1
       /\ \A a \in appeals : \E i \in incidents :
             /\ a.incident = i.id /\ a.user = i.subject
             /\ \E m \in places("INCIDENT_DECISION", i.id), n \in places("APPEAL_DECISION", a.id) : m < n
=============================================================================
