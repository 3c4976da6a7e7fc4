-------------------------- MODULE PortableAdapter --------------------------
(***************************************************************************)
(* Command ownership in lumina_next/godot_portable_navigation_adapter_v1:  *)
(* navigate(), feedback() and stop() of GodotPortableNavigationAdapter and *)
(* the avatar controller they drive.                                       *)
(*                                                                         *)
(* All three are coroutines on one event loop, so they interleave at their *)
(* awaits: the fresh-world check and the POST of navigate, the two reads   *)
(* that feedback and stop gather, and the POST of stop.  navigate may also *)
(* be cancelled at either of its awaits.  The two reads of a gather are    *)
(* answered in any order.                                                  *)
(*                                                                         *)
(* The bridge between them is not part of the repository.  It appends an   *)
(* event for each outcome at once; the live state it serves is the         *)
(* avatar's, at most one engine step old.  Geometry, deadlines and         *)
(* lineage checks are left out: a check passes or fails.  A navigate whose *)
(* navigation_id has a result already is answered with it, or refused when *)
(* it asks for something else, before anything is touched: it is no step.  *)
(***************************************************************************)
EXTENDS Naturals, FiniteSets

CONSTANTS
    Commands,   \* caller-chosen command ids
    Uses        \* ways the adapter may be used, see Use

None == "none"

\* ids: the commands that callers choose; overlap: they poll a command while they stop it;
\* othersSpeak: somebody else (the chat) may make the avatar speak; stops: bound on the
\* native stop requests per command.
Use == [ids : SUBSET Commands, overlap : BOOLEAN, othersSpeak : BOOLEAN, stops : Nat]

ASSUME AdapterAssumption ==
    /\ None \notin Commands
    /\ Uses \subseteq Use

VARIABLES
    use,         \* how the adapter is used, the same throughout
    commands,    \* self._commands and self._retired_commands
    nav,         \* where the navigate call of each command is
    feed,        \* the feedback call of each command, with what it has read
    halt,        \* the stop call of each command, with what it has read
    stopped,     \* a stop result with confirmed = True was returned
    arrived,     \* a feedback with status "arrived" was returned
    engine,      \* fate of each command at the avatar
    speaking,    \* a speech of somebody else is the active async command
    tombstones,  \* _cancelled_command_ids of the avatar controller
    events,      \* newest native event of each command
    early,       \* that event was received before the command was accepted
    shown        \* the live state that /world-state serves

adapter == <<commands, nav, feed, halt, stopped, arrived>>
avatar  == <<engine, speaking, tombstones, events, shown>>
vars    == <<use, adapter, avatar, early>>

Fates   == {"none", "sent", "live", "adrift", "over"}
Running == {"live", "adrift"}

Record == [place : {"none", "active", "retired"},
           dispatch : {"none", "awaiting_world", "dispatching", "unknown", "accepted",
                       "never_dispatched", "rejected"},
           terminal : {"none", "arrived", "stopped", "failed", "cancelled", "rejected"}]

NoRecord == [place |-> "none", dispatch |-> "none", terminal |-> "none"]

Live == [active : Commands \cup {None}, route : BOOLEAN]
Idle == [at |-> "idle", motion |-> "unread", event |-> "unread", note |-> FALSE]
Call == [at : {"idle", "post", "gather", "settle"},
         motion : {"unread", "active", "inactive"},   \* what /world-state answered
         event : {"unread", "none", "stopped", "completed", "failed"},   \* /results
         note : BOOLEAN]    \* feedback: seen inactive once; stop: acknowledged

\* What the avatar would serve as its live state.
LiveState(fate) ==
    [active |-> IF \E c \in Commands : fate[c] = "live"
                THEN CHOOSE c \in Commands : fate[c] = "live" ELSE None,
     route  |-> \E c \in Commands : fate[c] \in Running]

MayStillRun(c) ==
    \/ engine[c] \in Running
    \/ engine[c] = "sent" /\ c \notin tombstones

\* Is the command, or any route, active in the live state that is served?
MotionShown(c) == IF shown.active = c \/ shown.route THEN "active" ELSE "inactive"

-----------------------------------------------------------------------------
Init ==
    /\ use \in Uses
    /\ commands = [c \in Commands |-> NoRecord]
    /\ nav = [c \in Commands |-> "idle"]
    /\ feed = [c \in Commands |-> Idle]
    /\ halt = [c \in Commands |-> [call |-> Idle, message |-> "none", stray |-> FALSE,
                                   made |-> 0]]
    /\ stopped = [c \in Commands |-> FALSE]
    /\ arrived = [c \in Commands |-> FALSE]
    /\ engine = [c \in Commands |-> "none"]
    /\ speaking = FALSE
    /\ tombstones = {}
    /\ events = [c \in Commands |-> "none"]
    /\ early = [c \in Commands |-> FALSE]
    /\ shown = LiveState(engine)

\* Mutant of Retired: the two states change places.
RetiredSwapped(record, terminal, dispatch) ==
    [place |-> "retired", terminal |-> dispatch, dispatch |-> terminal]

\* _retire_command: a record that is no longer active keeps its first tombstone.
Retired(record, terminal, dispatch) ==
    IF record.place = "retired" THEN record
    ELSE [place |-> "retired", terminal |-> terminal, dispatch |-> dispatch]

Retire(c, terminal, dispatch) ==
    commands' = [commands EXCEPT ![c] = Retired(@, terminal, dispatch)]

-----------------------------------------------------------------------------
(* navigate                                                                *)

\* Reserve the id before the first await; a failed local check retires it at once,
\* otherwise a fresh world is awaited.
NavigateEnter(c) ==
    /\ commands[c].place = "none"
    /\ \/ /\ commands' = [commands EXCEPT ![c] =
                [place |-> "active", dispatch |-> "awaiting_world", terminal |-> "none"]]
          /\ nav' = [nav EXCEPT ![c] = "world"]
       \/ \E outcome \in {<<"failed", "never_dispatched">>, <<"rejected", "rejected">>} :
             /\ commands' = [commands EXCEPT ![c] =
                   [place |-> "retired", terminal |-> outcome[1], dispatch |-> outcome[2]]]
             /\ nav' = [nav EXCEPT ![c] = "returned"]
    /\ UNCHANGED <<feed, halt, stopped, arrived, early, avatar>>

\* The fresh world did not come, is stale, or the caller cancelled.
WorldFails(c) ==
    /\ nav[c] = "world"
    /\ \E terminal \in {"failed", "cancelled"} : Retire(c, terminal, "never_dispatched")
    /\ nav' = [nav EXCEPT ![c] = "returned"]
    /\ UNCHANGED <<feed, halt, stopped, arrived, early, avatar>>

\* Mutant of WorldArrives: a stop during the fresh-world check goes unnoticed.
WorldArrivesBlind(c) ==
    /\ nav[c] = "world"
    /\ commands' = [commands EXCEPT ![c].dispatch = "dispatching"]
    /\ nav' = [nav EXCEPT ![c] = "post"]
    /\ engine' = [engine EXCEPT ![c] = "sent"]
    /\ UNCHANGED <<feed, halt, stopped, arrived, early, speaking, tombstones, events, shown>>

\* The world is fresh: nothing is dispatched for a command that stop() retired in the
\* meantime or whose deadline has passed; otherwise the POST starts.
WorldArrives(c) ==
    /\ nav[c] = "world"
    /\ \/ /\ Retire(c, "rejected", "rejected")
          /\ nav' = [nav EXCEPT ![c] = "returned"]
          /\ UNCHANGED engine
       \/ /\ commands[c].place = "active"
          /\ commands' = [commands EXCEPT ![c].dispatch = "dispatching"]
          /\ nav' = [nav EXCEPT ![c] = "post"]
          /\ engine' = [engine EXCEPT ![c] = "sent"]
    /\ UNCHANGED <<feed, halt, stopped, arrived, early, speaking, tombstones, events, shown>>

\* Mutant of PostFails: a lost response is taken for a command that never started.
PostFailsRetiring(c) ==
    /\ nav[c] = "post"
    /\ Retire(c, "failed", "never_dispatched")
    /\ nav' = [nav EXCEPT ![c] = "returned"]
    /\ UNCHANGED <<feed, halt, stopped, arrived, early, avatar>>

\* The response is lost or the caller cancelled: the move may be on its way.
PostFails(c) ==
    /\ nav[c] = "post"
    /\ commands' = [commands EXCEPT ![c].dispatch =
                       IF commands[c].place = "active" THEN "unknown" ELSE @]
    /\ nav' = [nav EXCEPT ![c] = "returned"]
    /\ UNCHANGED <<feed, halt, stopped, arrived, early, avatar>>

\* Mutant of PostAnswered: a late acknowledgement resurrects a stopped command.
PostAnsweredLate(c) ==
    /\ nav[c] = "post"
    /\ commands' = [commands EXCEPT ![c].place = "active", ![c].dispatch = "accepted"]
    /\ nav' = [nav EXCEPT ![c] = "accepted"]
    /\ early' = [early EXCEPT ![c] = events[c] # "none"]
    /\ UNCHANGED <<feed, halt, stopped, arrived, avatar>>

\* The POST is answered.  A stop that completed meanwhile wins.  A refusal means that
\* the bridge did not forward the command.
PostAnswered(c) ==
    /\ nav[c] = "post"
    /\ \/ /\ commands[c].place = "active"
          /\ commands' = [commands EXCEPT ![c].dispatch = "accepted"]
          /\ nav' = [nav EXCEPT ![c] = "accepted"]
          /\ early' = [early EXCEPT ![c] = events[c] # "none"]
          /\ UNCHANGED engine
       \/ /\ commands[c].place = "retired"
          /\ nav' = [nav EXCEPT ![c] = "returned"]
          /\ UNCHANGED <<commands, early, engine>>
       \/ /\ engine[c] = "sent"
          /\ Retire(c, "rejected", "rejected")
          /\ nav' = [nav EXCEPT ![c] = "returned"]
          /\ engine' = [engine EXCEPT ![c] = "over"]
          /\ UNCHANGED early
    /\ UNCHANGED <<feed, halt, stopped, arrived, speaking, tombstones, events, shown>>

-----------------------------------------------------------------------------
(* The reads that feedback and stop gather                                 *)

\* Mutant of CurrentEvent: the history of an earlier epoch counts.
CurrentEventOfAnyEpoch(c) == events[c]

\* _current_command_event and _terminal_event: the terminal event of the accepted epoch.
CurrentEvent(c) ==
    IF commands[c].dispatch = "accepted" /\ ~early[c] THEN events[c] ELSE "none"

Gathered(call) == call.motion # "unread" /\ call.event # "unread"
Again(at, note) == [Idle EXCEPT !.at = at, !.note = note]

\* The caller polls an accepted command that is still owned.
FeedbackEnter(c) ==
    /\ feed[c] = Idle /\ commands[c].place = "active" /\ nav[c] = "accepted"
    /\ use.overlap \/ halt[c].call = Idle
    /\ feed' = [feed EXCEPT ![c].at = "gather"]
    /\ UNCHANGED <<commands, nav, halt, stopped, arrived, early, avatar>>

FeedbackReads(c) ==
    /\ feed[c].at \in {"gather", "settle"}
    /\ \/ /\ feed[c].motion = "unread"
          /\ feed' = [feed EXCEPT ![c].motion = MotionShown(c)]
       \/ /\ feed[c].event = "unread"
          /\ feed' = [feed EXCEPT ![c].event = CurrentEvent(c)]
    /\ UNCHANGED <<commands, nav, halt, stopped, arrived, early, avatar>>

\* A read fails or the caller cancels: feedback raises and changes nothing.
FeedbackFails(c) ==
    /\ feed[c].at = "gather"
    /\ feed' = [feed EXCEPT ![c] = Idle]
    /\ UNCHANGED <<commands, nav, halt, stopped, arrived, early, avatar>>

\* _settle_terminal_live_state: a terminal event of a command that still looks active
\* is looked at again until it was seen inactive twice in a row; when the polls run
\* out the first, inconsistent observation stands and nothing is released.
Settle(c) ==
    /\ Gathered(feed[c]) /\ feed[c].event # "none"
    /\ \/ /\ feed[c].motion = "active"
          /\ feed' = [feed EXCEPT ![c] = Again("settle", FALSE)]
       \/ /\ feed[c].motion = "inactive" /\ feed[c].at = "settle" /\ ~feed[c].note
          /\ feed' = [feed EXCEPT ![c] = Again("settle", TRUE)]
    /\ UNCHANGED <<commands, nav, halt, stopped, arrived, early, avatar>>

SettleRunsOut(c) ==
    /\ feed[c].at = "settle"
    /\ feed' = [feed EXCEPT ![c] = Idle]
    /\ UNCHANGED <<commands, nav, halt, stopped, arrived, early, avatar>>

\* feedback returns.  A terminal event and an inactive avatar release the command;
\* "arrived" needs a completed event and a verified position.
FeedbackReturns(c) ==
    /\ Gathered(feed[c])
    /\ feed[c].event # "none" => feed[c].motion = "inactive"
    /\ feed[c].at = "settle" /\ feed[c].event # "none" => feed[c].note
    /\ \/ /\ feed[c].event = "none"
          /\ UNCHANGED <<commands, arrived>>
       \/ /\ feed[c].event = "completed"
          /\ Retire(c, "arrived", commands[c].dispatch)
          /\ arrived' = [arrived EXCEPT ![c] = TRUE]
       \/ /\ feed[c].event # "none"
          /\ Retire(c, IF feed[c].event = "stopped" THEN "stopped" ELSE "failed",
                    commands[c].dispatch)
          /\ UNCHANGED arrived
    /\ feed' = [feed EXCEPT ![c] = Idle]
    /\ UNCHANGED <<nav, halt, stopped, early, avatar>>

-----------------------------------------------------------------------------
(* stop                                                                    *)

\* The adapter's own record proves that the command cannot move the avatar.
LocallyTerminal(c) ==
    \/ commands[c].place = "retired"
    \/ commands[c].terminal # "none"
    \/ commands[c].dispatch \in {"awaiting_world", "never_dispatched", "rejected"}

\* stop: answered from the record, or a native stop of the exact command is posted.
StopEnter(c) ==
    /\ halt[c].call = Idle /\ commands[c].place # "none"
    /\ use.overlap \/ feed[c] = Idle
    /\ \/ /\ LocallyTerminal(c)
          /\ Retire(c, "stopped", "never_dispatched")
          /\ stopped' = [stopped EXCEPT ![c] = TRUE]
          /\ UNCHANGED halt
       \/ /\ ~LocallyTerminal(c) /\ halt[c].made < use.stops
          /\ halt' = [halt EXCEPT ![c] = [call |-> [Idle EXCEPT !.at = "post"],
                                          message |-> "sent",
                                          stray |-> @.message = "sent" \/ @.stray,
                                          made |-> @.made + 1]]
          /\ UNCHANGED <<commands, stopped>>
    /\ UNCHANGED <<nav, feed, arrived, early, avatar>>

\* The stop POST is answered, or refused, lost or cancelled: then stop() ends without
\* a confirmation, and without remembering one.
StopPosted(c) ==
    /\ halt[c].call.at = "post"
    /\ \E at \in {"gather", "idle"} : halt' = [halt EXCEPT ![c].call = [Idle EXCEPT !.at = at]]
    /\ UNCHANGED <<commands, nav, feed, stopped, arrived, early, avatar>>

StopReads(c) ==
    /\ halt[c].call.at = "gather"
    /\ \/ /\ halt[c].call.motion = "unread"
          /\ halt' = [halt EXCEPT ![c].call.motion = MotionShown(c)]
       \/ /\ halt[c].call.event = "unread"
          /\ halt' = [halt EXCEPT ![c].call.event = events[c],
                                  ![c].call.note = halt[c].message = "acknowledged"]
    /\ UNCHANGED <<commands, nav, feed, stopped, arrived, early, avatar>>

\* The acknowledgement, an end of the owned command, and an avatar at rest.
StopConfirmed(call) ==
    /\ Gathered(call)
    /\ call.note /\ call.event # "none" /\ call.motion = "inactive"

\* Confirmed, or polled again, or out of time, or a read failed.
StopReturns(c) ==
    /\ halt[c].call.at = "gather"
    /\ \/ /\ StopConfirmed(halt[c].call)
          /\ Retire(c, "stopped", commands[c].dispatch)
          /\ stopped' = [stopped EXCEPT ![c] = TRUE]
          /\ halt' = [halt EXCEPT ![c].call = Idle]
       \/ /\ ~StopConfirmed(halt[c].call)
          /\ \/ halt' = [halt EXCEPT ![c].call = Idle]
             \/ /\ Gathered(halt[c].call)
                /\ halt' = [halt EXCEPT ![c].call = Again("gather", FALSE)]
          /\ UNCHANGED <<commands, stopped>>
    /\ UNCHANGED <<nav, feed, arrived, early, avatar>>

-----------------------------------------------------------------------------
(* The avatar controller and its bridge                                    *)

\* An engine step to the given fates; the served state follows at once or one step later.
Becomes(fate) ==
    /\ engine' = fate
    /\ shown' \in {LiveState(engine), LiveState(fate)}

\* A posted command arrives: refused when cancelled or not executable, else it takes
\* the place of the route that was active.
Deliver(c) ==
    /\ engine[c] = "sent"
    /\ \/ /\ Becomes([engine EXCEPT ![c] = "over"])
          /\ events' = [events EXCEPT ![c] = "failed"]
          /\ UNCHANGED speaking
       \/ /\ c \notin tombstones
          /\ Becomes([d \in Commands |-> IF d = c THEN "live"
                        ELSE IF engine[d] \in Running THEN "over" ELSE engine[d]])
          /\ events' = [d \in Commands |->
                          IF engine[d] = "live" THEN "stopped" ELSE events[d]]
          /\ speaking' = FALSE
    /\ UNCHANGED <<adapter, early, tombstones>>

\* A posted command never arrives, and leaves no event.
Lose(c) ==
    /\ engine[c] = "sent"
    /\ engine' = [engine EXCEPT ![c] = "over"]
    /\ UNCHANGED <<adapter, early, speaking, tombstones, events, shown>>

\* The route ends.  One that a speech has set adrift ends the speech's command instead.
RouteEnds(c) ==
    /\ engine[c] \in Running
    /\ Becomes([engine EXCEPT ![c] = "over"])
    /\ IF engine[c] = "live"
       THEN /\ \E event \in {"completed", "failed"} : events' = [events EXCEPT ![c] = event]
            /\ UNCHANGED speaking
       ELSE speaking' = FALSE /\ UNCHANGED events
    /\ UNCHANGED <<adapter, early, tombstones>>

\* Somebody else's speech becomes the active command: the route is reported
\* interrupted and goes on.
SpeechBegins ==
    /\ use.othersSpeak /\ ~speaking
    /\ Becomes([d \in Commands |-> IF engine[d] = "live" THEN "adrift" ELSE engine[d]])
    /\ events' = [d \in Commands |-> IF engine[d] = "live" THEN "stopped" ELSE events[d]]
    /\ speaking' = TRUE
    /\ UNCHANGED <<adapter, early, tombstones>>

SpeechEnds ==
    /\ speaking
    /\ speaking' = FALSE
    /\ UNCHANGED <<adapter, early, engine, tombstones, events, shown>>

\* The targeted stop arrives, also the one of an earlier call: the id is cancelled for
\* good, and if it is the active command the route ends.
StopArrives(c) ==
    /\ \/ /\ halt[c].message = "sent"
          /\ halt' = [halt EXCEPT ![c].message = "acknowledged"]
       \/ /\ halt[c].stray
          /\ halt' = [halt EXCEPT ![c].stray = FALSE]
    /\ tombstones' = tombstones \cup {c}
    /\ IF engine[c] = "live"
       THEN /\ Becomes([engine EXCEPT ![c] = "over"])
            /\ events' = [events EXCEPT ![c] = "stopped"]
       ELSE UNCHANGED <<engine, events, shown>>
    /\ UNCHANGED <<commands, nav, feed, stopped, arrived, early, speaking>>

Publish ==
    /\ shown # LiveState(engine)
    /\ shown' = LiveState(engine)
    /\ UNCHANGED <<adapter, early, engine, speaking, tombstones, events>>

-----------------------------------------------------------------------------
Navigate(c) == NavigateEnter(c) \/ WorldFails(c) \/ WorldArrives(c)
               \/ PostFails(c) \/ PostAnswered(c)
Feedback(c) == FeedbackEnter(c) \/ FeedbackReads(c) \/ FeedbackFails(c) \/ Settle(c)
               \/ SettleRunsOut(c) \/ FeedbackReturns(c)
Stop(c)     == StopEnter(c) \/ StopPosted(c) \/ StopReads(c) \/ StopReturns(c)
Avatar(c)   == Deliver(c) \/ Lose(c) \/ RouteEnds(c) \/ StopArrives(c)

Next ==
    /\ UNCHANGED use
    /\ \/ \E c \in use.ids : Navigate(c) \/ Feedback(c) \/ Stop(c) \/ Avatar(c)
       \/ SpeechBegins \/ SpeechEnds \/ Publish

Spec == Init /\ [][Next]_vars

-----------------------------------------------------------------------------
\* Types of the adapter's records and calls and of the avatar's state.
TypeOK ==
    /\ use \in Uses
    /\ commands \in [Commands -> Record]
    /\ nav \in [Commands -> {"idle", "world", "post", "accepted", "returned"}]
    /\ feed \in [Commands -> Call]
    /\ halt \in [Commands -> [call : Call, made : 0..use.stops,
                              stray : BOOLEAN,
                              message : {"none", "sent", "acknowledged"}]]
    /\ stopped \in [Commands -> BOOLEAN] /\ arrived \in [Commands -> BOOLEAN]
    /\ engine \in [Commands -> Fates]
    /\ speaking \in BOOLEAN
    /\ tombstones \in SUBSET Commands
    /\ events \in [Commands -> {"none", "stopped", "completed", "failed"}]
    /\ early \in [Commands -> BOOLEAN]
    /\ shown \in Live

\* As long as the avatar executes a command, or may still start it, the adapter holds
\* its active record and a stop goes to the avatar instead of being answered from that
\* record: whatever is lost, late, cancelled or read in an unlucky order.
StoppableWhileLive ==
    \A c \in Commands :
        engine[c] = "live" \/ (engine[c] = "sent" /\ c \notin tombstones) =>
            commands[c].place = "active" /\ ~LocallyTerminal(c)

\* A confirmed stop is authoritative: navigate never reports the command as accepted
\* afterwards, however late the acknowledgement of its POST is.
StopBeatsAccept ==
    [][\A c \in Commands : stopped[c] /\ nav[c] # "accepted" => nav'[c] # "accepted"]_vars

\* feedback reports an arrival only for a route that the avatar completed after it was
\* accepted, and that is over.
ArrivedIsCompleted ==
    \A c \in Commands :
        arrived[c] => engine[c] = "over" /\ events[c] = "completed" /\ ~early[c]

\* The adapter implements the ownership discipline, where nobody else makes the avatar
\* speak while a route is under way; elsewhere only its records are looked at.
Owned == INSTANCE OwnedMotion WITH
    owner  <- [c \in Commands |-> CASE commands[c].place = "none" -> "free"
                                    [] commands[c].place = "active" -> "held"
                                    [] commands[c].place = "retired" -> "released"],
    moving <- [c \in Commands |-> ~use.othersSpeak /\ MayStillRun(c)]
KeepsOwnership == Owned!OwnedSpec

\* "never let any stale completed/failed/stopped event release it": a released command
\* does not move the avatar.
ReleasedIsAtRest ==
    \A c \in Commands : commands[c].place = "retired" => engine[c] \notin Running
=============================================================================
