-------------------------------- MODULE Initiative --------------------------------
(***************************************************************************)
(* What she knows of a relationship and when she speaks first              *)
(* (lumina_next/relationship_model_v1.py, proactive_trigger_v1.py).  What  *)
(* users say and do is a growing list of events; each look at it replays   *)
(* the ones known by a time, and settles preferences, promises and         *)
(* boundaries from those that are confirmed and not corrected since.  A    *)
(* candidate for an initiative is decided on as of the time it occurred,   *)
(* which may be past, against the triggers so far.                         *)
(*                                                                         *)
(* One user; an event's id is its place.  An event that is malformed, that *)
(* names a later one or one of another user raises and is no action.       *)
(* Settings have a value that can be read: any other holds everything back *)
(* (settings_errors).  Trust scores, groundings and explanations are left  *)
(* out.                                                                    *)
(***************************************************************************)
EXTENDS Integers, Sequences, FiniteSets, FiniteSetsExt, SequencesExt, Absent

CONSTANTS
    Beginning,    \* the events that there are
    Sayings,      \* what an event may be: category, key, operation, value, state, whether sure
    FirstOffers,       \* candidates for an initiative
    QuietSpans,   \* the values of quiet_hours_local: from, until
    Day,          \* hours in a day
    DefaultCooldown,           \* DEFAULT_COOLDOWN_SECONDS
    LastHour, MaxKeys, MaxEvents, MaxDecided  \* bounds

\* from_value: which operations a category has; and the settings that _relationship_settings reads.
LawfulSaying(s) ==
    /\ s.category = "promise" => s.op \in {"open", "fulfill", "breach", "cancel"}
    /\ s.op \in {"enforce", "relax"} => s.category = "boundary"
    /\ s.category = "preference" =>
          /\ s.key = "proactive_policy" => s.value \in {"allow", "important_only", "off"}
          /\ s.key = "quiet_hours_local" => s.value \in DOMAIN QuietSpans \cup {None}
          /\ s.key = "proactive_cooldown_seconds" => s.value \in Nat
          /\ s.key = "proactive_channel" => s.value \in {"any", "visual", "voice"}

ASSUME InitiativeAssumption ==
    /\ Day \in Nat \ {0} /\ DefaultCooldown \in Nat
    /\ \A quiet \in DOMAIN QuietSpans : QuietSpans[quiet].from \in 0..Day - 1 /\ QuietSpans[quiet].until \in 0..Day - 1
    /\ None \notin {"open", "fulfill", "breach", "cancel"} \cup DOMAIN QuietSpans
    /\ \A s \in Sayings : LawfulSaying(s)
    /\ Beginning \in Seq({Beginning[i] : i \in DOMAIN Beginning})
    /\ \A i \in DOMAIN Beginning : LawfulSaying(Beginning[i]) /\ Beginning[i].names \subseteq 1..i - 1

VARIABLES
    hour,         \* the time
    events,       \* RelationshipModelV1.events: the sayings, with a time and what they supersede
    triggers,     \* the decisions that were TRIGGER: the history
    offered       \* the initiative that was just taken, or None

initiativeVars == <<hour, events, triggers, offered>>

-----------------------------------------------------------------------------
(* The relationship                                                        *)

Explicit(e) == e.state = "correction"

\* from_value and __init__: a correction names what it corrects, an outcome its promise, and
\* only earlier events can be named.
WellFormed(e, earlier) ==
    /\ e.names \subseteq earlier /\ (e.target = None \/ e.target \in earlier)
    /\ e.op = "correct" => Explicit(e) /\ e.names # {}
    /\ e.op \in {"fulfill", "breach", "cancel"} => e.target # None

\* An event may tell of an earlier time than the one before it, and correct events of any key.
RecordEvent ==
    /\ Len(events) + Len(triggers) < MaxEvents
    /\ \E s \in Sayings, at \in 0..hour, target \in DOMAIN events \cup {None}, names \in SUBSET DOMAIN events :
          LET e == [category |-> s.category, key |-> s.key, op |-> s.op, value |-> s.value, state |-> s.state,
                    sure |-> s.sure, at |-> at, names |-> names, target |-> target]
          IN /\ Cardinality({events[i].key : i \in DOMAIN events} \cup {s.key}) =< MaxKeys
             /\ target # None => s.category = "promise"
             /\ WellFormed(e, DOMAIN events)
             /\ events' = Append(events, e)
    /\ offered' = None
    /\ UNCHANGED <<hour, triggers>>

\* Events are told by their place; known are those that occurred by then.
KnownBy(when) == {i \in DOMAIN events : events[i].at =< when}
About(known, category, key) == {i \in known : events[i].category = category /\ events[i].key = key}

\* _active_after_supersession: a correction counts if everything it names is in the set.
NotSuperseded(set) ==
    set \ UNION {events[i].names : i \in {i \in set : Explicit(events[i]) /\ events[i].names \subseteq set}}

Said(set) == {i \in set : events[i].sure /\ events[i].state \in {"prior", "confirmation", "correction"}}
Witnessed(set) == {i \in set : events[i].sure /\ events[i].state \in {"observation", "confirmation", "correction"}}

\* _resolve_scalar: one value, or none that counts.
Preference(known, key) ==
    LET values == {events[i].value : i \in NotSuperseded(Said(About(known, "preference", key)))}
    IN IF Cardinality(values) = 1 THEN CHOOSE v \in values : TRUE ELSE None

\* Mutant of Relaxes: a correction that names one of the enforcements relaxes them all.
RelaxesForOne(i, enforcements) ==
    events[i].op = "relax" /\ events[i].sure /\ Explicit(events[i]) /\ enforcements \cap events[i].names # {}

\* _resolve_boundaries: only an explicit correction that names every enforcement relaxes.
Enforcements(known, key) == NotSuperseded(Said({i \in About(known, "boundary", key) : events[i].op = "enforce"}))
Relaxes(i, enforcements) ==
    /\ events[i].op = "relax" /\ events[i].sure /\ Explicit(events[i])
    /\ enforcements # {} /\ enforcements \subseteq events[i].names
Enforced(known, key) ==
    /\ Enforcements(known, key) # {}
    /\ ~\E i \in About(known, "boundary", key) : Relaxes(i, Enforcements(known, key))

\* _resolve_promises: the promise that is open, and its outcome; contradictions are set aside.
Openings(known, key) == NotSuperseded(Witnessed({i \in About(known, "promise", key) : events[i].op = "open"}))
OutcomesOf(known, key, opened) ==
    {events[i].op : i \in NotSuperseded(Witnessed({i \in About(known, "promise", key) :
        events[i].op \in {"fulfill", "breach", "cancel"} /\ events[i].target = opened}))}
PromiseStatus(known, key) ==
    LET openings == Openings(known, key)
        outcomes == OutcomesOf(known, key, Max(openings))
    IN IF openings = {} \/ Cardinality({events[i].value : i \in openings}) # 1 \/ Cardinality(outcomes) > 1 THEN None
       ELSE IF outcomes = {} THEN "open" ELSE CHOOSE o \in outcomes : TRUE

-----------------------------------------------------------------------------
(* Initiatives                                                             *)

\* _relationship_settings: a setting that was not settled has its default.
Setting(known, key, default) == IF Preference(known, key) = None THEN default ELSE Preference(known, key)

\* _quiet_hours: from the start, which is in, to the end, which is not, over midnight too.
IsQuiet(quiet, at) ==
    LET clock == at % Day
    IN /\ quiet # None
       /\ LET from  == QuietSpans[quiet].from
              until == QuietSpans[quiet].until
          IN \/ from = until
             \/ from < until /\ clock \in from .. until - 1
             \/ from > until /\ clock \notin until .. from - 1

\* _cooldown: since the latest trigger before the candidate, of whatever type.
CoolsDown(at, cooldown) ==
    LET before == {triggers[i].at : i \in DOMAIN triggers} \cap 0 .. at - 1
    IN before # {} /\ at - Max(before) < cooldown

Overrides(o) == o.type = "safety_alert" /\ o.critical /\ o.validated /\ o.permitted

\* CHANNELS
Channel(o) == IF o.voice THEN "voice" ELSE "visual"

\* decide: every blocker counts, and a critical alert only passes some of them.
HeldBack(o, known, at) ==
    \/ ~o.permitted
    \/ Enforced(known, "no_proactive_interruptions")
    \/ o.voice /\ Enforced(known, "no_voice_interruptions")
    \/ o.type = "safety_alert" /\ Enforced(known, "no_safety_alerts")
    \/ Setting(known, "proactive_channel", "any") \notin {"any", Channel(o)}
    \/ Setting(known, "proactive_policy", "off") = "off"
    \/ Setting(known, "proactive_policy", "off") = "important_only" /\ ~o.important
    \/ ~Overrides(o) /\ (IsQuiet(Setting(known, "quiet_hours_local", None), at)
                         \/ CoolsDown(at, Setting(known, "proactive_cooldown_seconds", DefaultCooldown))
                         \/ o.disengaged)
    \/ o.type = "reminder" /\ ~o.due
    \/ o.type = "safety_alert" /\ ~o.validated
    \/ ~o.evident

Decide ==
    /\ Len(events) + Len(triggers) < MaxDecided
    /\ \E o \in FirstOffers, at \in {hour - 1, hour} \cap Nat :
          LET known    == KnownBy(at)
              decision == [offer |-> o, at |-> at, cooldown |-> Setting(known, "proactive_cooldown_seconds", DefaultCooldown)]
          IN /\ offered' = IF HeldBack(o, known, at) THEN None ELSE decision
             /\ triggers' = IF HeldBack(o, known, at) THEN triggers ELSE Append(triggers, decision)
    /\ UNCHANGED <<hour, events>>

HourPasses ==
    /\ hour < LastHour /\ hour' = hour + 1
    /\ offered' = None
    /\ UNCHANGED <<events, triggers>>

InitiativeInit == hour = 0 /\ events = Beginning /\ triggers = <<>> /\ offered = None
InitiativeNext == RecordEvent \/ Decide \/ HourPasses
InitiativeSpec == InitiativeInit /\ [][InitiativeNext]_initiativeVars

-----------------------------------------------------------------------------

\* What is still said: a confirmed event is outdated only by a later explicit correction that
\* names it.
CorrectedBy(i, known) == \E c \in known : c > i /\ Explicit(events[c]) /\ events[c].sure /\ i \in events[c].names

\* A boundary the user set stays, whatever is observed, inferred or said half-heartedly: it is
\* given up only after an explicit correction that is later than the last time it was set.
BoundariesStay ==
    \A when \in 0..hour, key \in {events[i].key : i \in DOMAIN events} :
        LET known == KnownBy(when)
            set   == {i \in Said(About(known, "boundary", key)) : events[i].op = "enforce"}
        IN set # {} /\ ~Enforced(known, key) =>
              \E i \in About(known, "boundary", key) : i > Max(set) /\ events[i].op = "relax" /\ Explicit(events[i])
\* ... and an explicit correction that names them all is heeded.
BoundariesGive ==
    \A when \in 0..hour :
        LET known == KnownBy(when)
        IN \A i \in known :
              events[i].op = "relax" /\ events[i].sure /\ Explicit(events[i])
                  /\ Said({e \in About(known, "boundary", events[i].key) : events[e].op = "enforce"}) \subseteq events[i].names
              => ~Enforced(known, events[i].key)

\* Nothing that was contradicted and not corrected counts: not as a preference, nor as the
\* outcome of a promise.
OnlyUndisputedCounts ==
    \A when \in 0..hour, key \in {events[i].key : i \in DOMAIN events} :
        LET known == KnownBy(when)
        IN /\ Preference(known, key) # None =>
                 \A i \in Said(About(known, "preference", key)) : events[i].value = Preference(known, key) \/ CorrectedBy(i, known)
           /\ PromiseStatus(known, key) \in {"fulfill", "breach", "cancel"} =>
                 \A i \in Witnessed(About(known, "promise", key)) :
                     events[i].op \notin {"open", PromiseStatus(known, key)} =>
                         CorrectedBy(i, known) \/ events[i].target # Max(Openings(known, key))

\* Hours since the quiet began, and how many there are.
HoursInto(quiet, at) ==
    LET since == (at % Day) - QuietSpans[quiet].from
    IN IF since < 0 THEN since + Day ELSE since
QuietLength(quiet) ==
    LET length == QuietSpans[quiet].until - QuietSpans[quiet].from
    IN IF length > 0 THEN length ELSE length + Day

\* She speaks first only where the user has said so and not said otherwise since, nobody has
\* set a boundary and not lifted it; and in the hours she was told to be quiet, or soon after
\* another initiative, only to alert of a danger.
InitiativesAreWelcome ==
    offered # None =>
        LET known == KnownBy(offered.at)
            Standing(key) == {i \in Said(About(known, "boundary", key)) : events[i].op = "enforce"
                                 /\ ~\E r \in known : r > i /\ Explicit(events[r])}
            welcome == {i \in Said(About(known, "preference", "proactive_policy")) : events[i].value \in {"allow", "important_only"}}
        IN /\ Standing("no_proactive_interruptions") = {}
           /\ offered.offer.voice => Standing("no_voice_interruptions") = {}
           /\ offered.offer.type = "safety_alert" => Standing("no_safety_alerts") = {}
           /\ welcome # {}
           /\ \A i \in Said(About(known, "preference", "quiet_hours_local")) :
                 events[i].value # None /\ HoursInto(events[i].value, offered.at) < QuietLength(events[i].value) =>
                     \/ Overrides(offered.offer)
                     \/ \E e \in Said(About(known, "preference", "quiet_hours_local")) : events[e].value # events[i].value

InitiativesAreSpaced ==
    \A i, j \in DOMAIN triggers :
        i < j /\ triggers[i].at < triggers[j].at =>
            Overrides(triggers[j].offer) \/ triggers[j].at - triggers[i].at >= triggers[j].cooldown
=============================================================================
