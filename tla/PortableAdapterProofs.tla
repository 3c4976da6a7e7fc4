----------------------- MODULE PortableAdapterProofs -----------------------
(***************************************************************************)
(* Proofs about the portable adapter: whatever is lost, late, cancelled or *)
(* read in an unlucky order, a command that the avatar executes or may     *)
(* still start can be stopped, an arrival was completed, a confirmed stop  *)
(* beats a late acknowledgement, and the adapter implements OwnedMotion.   *)
(* All of it holds for any number of commands, polls and stops.            *)
(***************************************************************************)
EXTENDS PortableAdapter, TLAPS

Ended == {"over", "adrift"}
Seen  == {"stopped", "completed", "failed"}

\* What the record of a command says of the navigate call that made it.
RecordOf(c) ==
    /\ commands[c].place = "none" <=> nav[c] = "idle"
    /\ commands[c].place = "active" =>
          /\ commands[c].terminal = "none"
          /\ <<nav[c], commands[c].dispatch>> \in
                {<<"world", "awaiting_world">>, <<"post", "dispatching">>,
                 <<"accepted", "accepted">>, <<"returned", "unknown">>}
    /\ stopped[c] => commands[c].place = "retired"

\* Calls are made for a command that is known, and polls for one that was accepted.
CallsOf(c) ==
    /\ feed[c] # Idle => nav[c] = "accepted"
    /\ halt[c].call # Idle => nav[c] # "idle"

\* The avatar reports a command once, after its end, and a call that has read the report
\* has read what still stands.
ReportOf(c) ==
    /\ nav[c] \in {"idle", "world"} => engine[c] = "none"
    /\ events[c] # "none" => engine[c] \in Ended
    /\ events[c] = "completed" => engine[c] = "over"
    /\ feed[c].event \in Seen => feed[c].event = events[c] /\ ~early[c]
    /\ halt[c].call.event \in Seen => events[c] # "none"
    /\ arrived[c] => events[c] = "completed" /\ ~early[c] /\ nav[c] = "accepted"

\* A record is retired when the command can no longer become the active one.
RetiredIsOver(c) ==
    /\ commands[c].place = "retired" => engine[c] # "live" /\ (engine[c] = "sent" => c \in tombstones)
    /\ engine[c] = "adrift" => use.othersSpeak

CommandInv(c) == RecordOf(c) /\ CallsOf(c) /\ ReportOf(c) /\ RetiredIsOver(c)

IInv == TypeOK /\ \A c \in Commands : CommandInv(c)

-----------------------------------------------------------------------------
(* Types                                                                   *)

Halted == [call : Call, made : 0..use.stops, stray : BOOLEAN,
           message : {"none", "sent", "acknowledged"}]

LEMMA AdapterTypeInit == Init => TypeOK
<1> SUFFICES ASSUME Init PROVE TypeOK
  OBVIOUS
<1>1. shown \in Live
  BY DEF Init, LiveState, Live
<1>2. use \in Uses /\ use.stops \in Nat
  BY AdapterAssumption DEF Init, Use
<1>3. Idle \in Call /\ NoRecord \in Record
  BY DEF Idle, Call, NoRecord, Record
<1>4. halt \in [Commands -> Halted]
  BY <1>2, <1>3 DEF Init, Halted
<1> QED BY <1>1, <1>2, <1>3, <1>4 DEF Init, TypeOK, Fates, Halted

\* The updates of a record and of a call that the handlers make.
LEMMA RecordUpdates ==
    ASSUME NEW record \in Record, NEW dispatch \in {"dispatching", "unknown", "accepted"}
    PROVE  [record EXCEPT !.dispatch = dispatch] \in Record
  BY DEF Record

LEMMA CallUpdates ==
    ASSUME NEW call \in Call, NEW motion \in {"active", "inactive"},
           NEW event \in {"none"} \cup Seen
    PROVE  /\ [call EXCEPT !.at = "gather"] \in Call
           /\ [call EXCEPT !.motion = motion] \in Call
           /\ [call EXCEPT !.event = event] \in Call
           /\ \A n \in BOOLEAN : [call EXCEPT !.event = event, !.note = n] \in Call
  BY DEF Call, Seen

\* What is read is what a call may have read.
LEMMA ReadsType ==
    ASSUME TypeOK, NEW c \in Commands
    PROVE  /\ MotionShown(c) \in {"active", "inactive"}
           /\ CurrentEvent(c) \in {"none"} \cup Seen
           /\ events[c] \in {"none"} \cup Seen
           /\ Idle \in Call
           /\ \A at \in {"gather", "settle"}, note \in BOOLEAN : Again(at, note) \in Call
  BY DEF TypeOK, MotionShown, CurrentEvent, Seen, Idle, Call, Again

LEMMA RetireType ==
    ASSUME TypeOK, NEW c \in Commands,
           NEW terminal \in {"arrived", "stopped", "failed", "cancelled", "rejected"},
           NEW dispatch \in {"none", "awaiting_world", "dispatching", "unknown", "accepted",
                             "never_dispatched", "rejected"},
           Retire(c, terminal, dispatch)
    PROVE  /\ commands' \in [Commands -> Record]
           /\ commands'[c] = Retired(commands[c], terminal, dispatch)
           /\ \A d \in Commands \ {c} : commands'[d] = commands[d]
<1>1. Retired(commands[c], terminal, dispatch) \in Record
  BY DEF Retired, Record, TypeOK
<1> QED BY <1>1 DEF Retire, TypeOK

LEMMA NavigateType ==
    ASSUME TypeOK, UNCHANGED use, NEW c \in Commands, Navigate(c)
    PROVE  TypeOK'
<1>1. CASE NavigateEnter(c)
  <2>1. commands' \in [Commands -> Record]
    <3> DEFINE fresh == [place |-> "active", dispatch |-> "awaiting_world",
                         terminal |-> "none"]
               local(outcome) == [place |-> "retired", terminal |-> outcome[1],
                                  dispatch |-> outcome[2]]
    <3>1. /\ fresh \in Record /\ local(<<"failed", "never_dispatched">>) \in Record
          /\ local(<<"rejected", "rejected">>) \in Record
      BY DEF Record
    <3>2. \E record \in Record : commands' = [commands EXCEPT ![c] = record]
      BY <1>1, <3>1 DEF NavigateEnter
    <3> QED BY <3>2 DEF TypeOK
  <2> QED BY <1>1, <2>1 DEF NavigateEnter, TypeOK, avatar
<1>2. CASE WorldFails(c)
  BY <1>2, RetireType DEF WorldFails, TypeOK, avatar
<1>3. CASE WorldArrives(c)
  <2>1. CASE Retire(c, "rejected", "rejected")
    BY <1>3, <2>1, RetireType DEF WorldArrives, TypeOK, Fates
  <2>2. CASE commands' = [commands EXCEPT ![c].dispatch = "dispatching"]
    <3>1. [commands[c] EXCEPT !.dispatch = "dispatching"] \in Record
      BY RecordUpdates DEF TypeOK
    <3>2. commands' \in [Commands -> Record]
      BY <2>2, <3>1 DEF TypeOK
    <3> QED BY <1>3, <3>2 DEF WorldArrives, TypeOK, Fates
  <2> QED BY <1>3, <2>1, <2>2 DEF WorldArrives
<1>4. CASE PostFails(c)
  <2>1. commands' \in {commands, [commands EXCEPT ![c].dispatch = "unknown"]}
    BY <1>4 DEF PostFails, TypeOK, Record
  <2>2. commands[c] \in Record /\ [commands[c] EXCEPT !.dispatch = "unknown"] \in Record
    BY RecordUpdates DEF TypeOK
  <2>3. commands' \in [Commands -> Record]
    BY <2>1, <2>2 DEF TypeOK
  <2> QED BY <1>4, <2>3 DEF PostFails, TypeOK, avatar
<1>5. CASE PostAnswered(c)
  <2>1. CASE Retire(c, "rejected", "rejected")
    BY <1>5, <2>1, RetireType DEF PostAnswered, TypeOK, Fates
  <2>2. CASE commands' = [commands EXCEPT ![c].dispatch = "accepted"] \/ UNCHANGED commands
    <3>1. [commands[c] EXCEPT !.dispatch = "accepted"] \in Record
      BY RecordUpdates DEF TypeOK
    <3>2. commands' \in [Commands -> Record]
      BY <2>2, <3>1 DEF TypeOK
    <3> QED BY <1>5, <3>2 DEF PostAnswered, TypeOK, Fates
  <2> QED BY <1>5, <2>1, <2>2 DEF PostAnswered
<1> QED BY <1>1, <1>2, <1>3, <1>4, <1>5 DEF Navigate

LEMMA FeedbackType ==
    ASSUME TypeOK, UNCHANGED use, NEW c \in Commands, Feedback(c)
    PROVE  TypeOK'
<1>1. \/ commands' = commands
      \/ \E terminal \in {"arrived", "stopped", "failed"} :
            Retire(c, terminal, commands[c].dispatch)
  BY DEF Feedback, FeedbackEnter, FeedbackReads, FeedbackFails, Settle, SettleRunsOut,
         FeedbackReturns
<1>2. commands[c].dispatch \in {"none", "awaiting_world", "dispatching", "unknown", "accepted",
                                "never_dispatched", "rejected"}
  BY DEF TypeOK, Record
<1>3. commands' \in [Commands -> Record]
  BY <1>1, <1>2, RetireType DEF TypeOK
<1>4. feed' \in [Commands -> Call]
  <2>1. feed \in [Commands -> Call] /\ feed[c] \in Call
    BY DEF TypeOK
  <2>2. ASSUME FeedbackEnter(c) \/ FeedbackReads(c)
        PROVE  \E call \in Call : feed' = [feed EXCEPT ![c] = call]
    <3>0. /\ [feed[c] EXCEPT !.at = "gather"] \in Call
          /\ [feed[c] EXCEPT !.motion = MotionShown(c)] \in Call
          /\ [feed[c] EXCEPT !.event = CurrentEvent(c)] \in Call
      BY <2>1, CallUpdates, ReadsType
    <3>1. CASE FeedbackEnter(c)
      BY <3>0, <3>1 DEF FeedbackEnter
    <3>2. CASE feed' = [feed EXCEPT ![c].motion = MotionShown(c)]
      BY <3>0, <3>2
    <3>3. CASE feed' = [feed EXCEPT ![c].event = CurrentEvent(c)]
      BY <3>0, <3>3
    <3> QED BY <2>2, <3>1, <3>2, <3>3 DEF FeedbackReads
  <2>3. ASSUME FeedbackFails(c) \/ Settle(c) \/ SettleRunsOut(c) \/ FeedbackReturns(c)
        PROVE  \E call \in Call : feed' = [feed EXCEPT ![c] = call]
    BY <2>3, ReadsType DEF FeedbackFails, Settle, SettleRunsOut, FeedbackReturns
  <2> QED BY <2>1, <2>2, <2>3 DEF Feedback
<1>5. arrived' \in [Commands -> BOOLEAN] /\ UNCHANGED <<nav, halt, stopped, early, avatar>>
  BY DEF Feedback, FeedbackEnter, FeedbackReads, FeedbackFails, Settle, SettleRunsOut,
         FeedbackReturns, TypeOK
<1> QED BY <1>3, <1>4, <1>5 DEF TypeOK, avatar

\* The updates of the stop of a command.
LEMMA HaltUpdates ==
    ASSUME TypeOK, NEW c \in Commands, NEW h \in [Commands -> Halted],
           \/ \E call \in Call : halt' = [h EXCEPT ![c].call = call]
           \/ halt' = [h EXCEPT ![c].message = "acknowledged"]
           \/ halt' = [h EXCEPT ![c].stray = FALSE]
    PROVE  halt' \in [Commands -> Halted]
<1>1. h[c] \in Halted
  OBVIOUS
<1>2. /\ \A call \in Call : [h[c] EXCEPT !.call = call] \in Halted
      /\ [h[c] EXCEPT !.message = "acknowledged"] \in Halted
      /\ [h[c] EXCEPT !.stray = FALSE] \in Halted
  BY <1>1 DEF Halted
<1>3. \E x \in Halted : halt' = [h EXCEPT ![c] = x]
  <2>1. CASE \E call \in Call : halt' = [h EXCEPT ![c].call = call]
    BY <1>2, <2>1
  <2>2. CASE halt' = [h EXCEPT ![c].message = "acknowledged"]
    BY <1>2, <2>2
  <2>3. CASE halt' = [h EXCEPT ![c].stray = FALSE]
    BY <1>2, <2>3
  <2> QED BY <2>1, <2>2, <2>3
<1> QED BY <1>3

LEMMA StopType ==
    ASSUME TypeOK, UNCHANGED use, NEW c \in Commands, Stop(c)
    PROVE  TypeOK'
<1>1. commands[c].dispatch \in {"none", "awaiting_world", "dispatching", "unknown", "accepted",
                                "never_dispatched", "rejected"}
  BY DEF TypeOK, Record
<1>2. \/ commands' = commands
      \/ \E dispatch \in {commands[c].dispatch, "never_dispatched"} :
            Retire(c, "stopped", dispatch)
  BY DEF Stop, StopEnter, StopPosted, StopReads, StopReturns
<1>3. commands' \in [Commands -> Record]
  BY <1>1, <1>2, RetireType DEF TypeOK
<1>4. stopped' \in [Commands -> BOOLEAN] /\ UNCHANGED <<nav, feed, arrived, early, avatar>>
  BY DEF Stop, StopEnter, StopPosted, StopReads, StopReturns, TypeOK
<1>5. halt \in [Commands -> Halted] /\ halt[c].call \in Call /\ use.stops \in Nat
  BY AdapterAssumption DEF TypeOK, Halted, Use
<1>6. \A at \in {"idle", "post", "gather"} : [Idle EXCEPT !.at = at] \in Call
  BY DEF Idle, Call
<1>7. halt' \in [Commands -> Halted]
  <2>1. CASE StopEnter(c)
    <3>1. CASE halt[c].made < use.stops
             /\ halt' = [halt EXCEPT ![c] = [call |-> [Idle EXCEPT !.at = "post"],
                                             message |-> "sent",
                                             stray |-> @.message = "sent" \/ @.stray,
                                             made |-> @.made + 1]]
      <4>1. [call |-> [Idle EXCEPT !.at = "post"], message |-> "sent",
             stray |-> halt[c].message = "sent" \/ halt[c].stray,
             made |-> halt[c].made + 1] \in Halted
        <5>1. halt[c].made + 1 \in 0..use.stops
          BY <1>5, <3>1 DEF Halted
        <5>2. (halt[c].message = "sent" \/ halt[c].stray) \in BOOLEAN
          OBVIOUS
        <5> QED BY <1>6, <5>1, <5>2 DEF Halted
      <4> QED BY <1>5, <3>1, <4>1
    <3>2. CASE halt' = halt
      BY <1>5, <3>2
    <3> QED BY <2>1, <3>1, <3>2 DEF StopEnter
  <2>2. CASE StopPosted(c)
    BY <1>5, <1>6, <2>2, HaltUpdates DEF StopPosted
  <2>3. CASE StopReads(c)
    <3>1. CASE halt' = [halt EXCEPT ![c].call.motion = MotionShown(c)]
      <4>1. [halt[c].call EXCEPT !.motion = MotionShown(c)] \in Call
        BY <1>5, CallUpdates, ReadsType
      <4> QED BY <1>5, <3>1, <4>1, HaltUpdates
    <3>2. CASE halt' = [halt EXCEPT ![c].call.event = events[c],
                                    ![c].call.note = halt[c].message = "acknowledged"]
      <4>1. [halt[c].call EXCEPT !.event = events[c],
                                 !.note = halt[c].message = "acknowledged"] \in Call
        BY <1>5, CallUpdates, ReadsType
      <4>2. halt' = [halt EXCEPT ![c].call =
                        [halt[c].call EXCEPT !.event = events[c],
                                             !.note = halt[c].message = "acknowledged"]]
        BY <1>5, <3>2 DEF Halted
      <4> QED BY <1>5, <4>1, <4>2, HaltUpdates
    <3> QED BY <2>3, <3>1, <3>2 DEF StopReads
  <2>4. CASE StopReturns(c)
    BY <1>5, <2>4, HaltUpdates, ReadsType DEF StopReturns
  <2> QED BY <2>1, <2>2, <2>3, <2>4 DEF Stop
<1> QED BY <1>3, <1>4, <1>7 DEF TypeOK, Halted, avatar

LEMMA LiveStateType ==
    ASSUME NEW fate \in [Commands -> Fates]
    PROVE  LiveState(fate) \in Live
  BY DEF LiveState, Live

LEMMA AvatarType ==
    ASSUME TypeOK, UNCHANGED use,
           (\E c \in Commands : Avatar(c)) \/ SpeechBegins \/ SpeechEnds \/ Publish
    PROVE  TypeOK'
<1> DEFINE Typed == /\ engine' \in [Commands -> Fates] /\ speaking' \in BOOLEAN
                    /\ events' \in [Commands -> {"none"} \cup Seen]
                    /\ tombstones' \in SUBSET Commands /\ shown' \in Live
<1>0. /\ engine \in [Commands -> Fates] /\ speaking \in BOOLEAN
      /\ events \in [Commands -> {"none"} \cup Seen]
      /\ tombstones \in SUBSET Commands /\ shown \in Live
  BY DEF TypeOK, Seen
<1>1. \A fate \in [Commands -> Fates] :
          Becomes(fate) => engine' \in [Commands -> Fates] /\ shown' \in Live
  BY <1>0, LiveStateType DEF Becomes
<1>2. ASSUME NEW c \in Commands, Avatar(c) PROVE Typed
  <2>0. [engine EXCEPT ![c] = "over"] \in [Commands -> Fates]
    BY <1>0 DEF Fates
  <2>1. CASE Deliver(c)
    <3>1. [d \in Commands |-> IF d = c THEN "live"
              ELSE IF engine[d] \in Running THEN "over" ELSE engine[d]] \in [Commands -> Fates]
      BY <1>0 DEF Fates
    <3>2. /\ events' \in [Commands -> {"none"} \cup Seen] /\ speaking' \in BOOLEAN
          /\ tombstones' = tombstones
      BY <1>0, <2>1 DEF Deliver, Seen
    <3> QED BY <1>0, <1>1, <2>0, <2>1, <3>1, <3>2 DEF Deliver
  <2>2. CASE Lose(c)
    BY <1>0, <2>0, <2>2 DEF Lose
  <2>3. CASE RouteEnds(c)
    <3>1. events' \in [Commands -> {"none"} \cup Seen]
      BY <1>0, <2>3 DEF RouteEnds, Seen
    <3> QED BY <1>0, <1>1, <2>0, <2>3, <3>1 DEF RouteEnds
  <2>4. CASE StopArrives(c)
    <3>1. events' \in [Commands -> {"none"} \cup Seen]
      BY <1>0, <2>4 DEF StopArrives, Seen
    <3> QED BY <1>0, <1>1, <2>0, <2>4, <3>1 DEF StopArrives
  <2> QED BY <1>2, <2>1, <2>2, <2>3, <2>4 DEF Avatar
<1>3. ASSUME SpeechBegins \/ SpeechEnds \/ Publish PROVE Typed
  <2>1. CASE SpeechBegins
    <3>1. [d \in Commands |-> IF engine[d] = "live" THEN "adrift" ELSE engine[d]]
              \in [Commands -> Fates]
      BY <1>0 DEF Fates
    <3>2. events' \in [Commands -> {"none"} \cup Seen]
      BY <1>0, <2>1 DEF SpeechBegins, Seen
    <3> QED BY <1>0, <1>1, <2>1, <3>1, <3>2 DEF SpeechBegins
  <2>2. CASE SpeechEnds
    BY <1>0, <2>2 DEF SpeechEnds
  <2>3. CASE Publish
    BY <1>0, <2>3, LiveStateType DEF Publish
  <2> QED BY <1>3, <2>1, <2>2, <2>3
<1>4. halt' \in [Commands -> Halted]
  <2>1. halt \in [Commands -> Halted]
    BY DEF TypeOK, Halted
  <2>2. halt' = halt
        \/ \E c \in Commands : \/ halt' = [halt EXCEPT ![c].message = "acknowledged"]
                               \/ halt' = [halt EXCEPT ![c].stray = FALSE]
    BY DEF Avatar, Deliver, Lose, RouteEnds, StopArrives, SpeechBegins, SpeechEnds, Publish,
           adapter
  <2> QED BY <2>1, <2>2, HaltUpdates
<1>5. UNCHANGED <<commands, nav, feed, stopped, arrived, early>>
  BY DEF Avatar, Deliver, Lose, RouteEnds, StopArrives, SpeechBegins, SpeechEnds, Publish,
         adapter
<1> QED BY <1>2, <1>3, <1>4, <1>5 DEF TypeOK, Halted, Seen

LEMMA AdapterTypeStep == TypeOK /\ [Next]_vars => TypeOK'
<1> SUFFICES ASSUME TypeOK, [Next]_vars PROVE TypeOK'
  OBVIOUS
<1>1. use.ids \subseteq Commands
  BY AdapterAssumption DEF TypeOK, Use
<1>2. CASE UNCHANGED vars
  BY <1>2 DEF vars, adapter, avatar, TypeOK
<1>3. CASE Next
  BY <1>1, <1>3, NavigateType, FeedbackType, StopType, AvatarType DEF Next
<1> QED BY <1>2, <1>3

-----------------------------------------------------------------------------
(* The invariant                                                           *)

\* Nothing that concerns d changes.
Same(d) ==
    /\ commands'[d] = commands[d] /\ nav'[d] = nav[d] /\ feed'[d] = feed[d]
    /\ halt'[d] = halt[d] /\ stopped'[d] = stopped[d] /\ arrived'[d] = arrived[d]
    /\ engine'[d] = engine[d] /\ events'[d] = events[d] /\ early'[d] = early[d]
    /\ d \in tombstones' <=> d \in tombstones

LEMMA SameKeeps ==
    ASSUME NEW d \in Commands, CommandInv(d), UNCHANGED use, Same(d)
    PROVE  CommandInv(d)'
  BY DEF Same, CommandInv, RecordOf, CallsOf, ReportOf, RetiredIsOver

\* A handler touches what concerns its own command only.
LEMMA HandlersAreLocal ==
    ASSUME TypeOK, NEW c \in Commands, NEW d \in Commands \ {c},
           Navigate(c) \/ Feedback(c) \/ Stop(c)
    PROVE  Same(d)
<1>1. CASE Navigate(c)
  BY <1>1 DEF Navigate, NavigateEnter, WorldFails, WorldArrives, PostFails, PostAnswered,
     Retire, avatar, TypeOK, Same
<1>2. CASE Feedback(c)
  BY <1>2 DEF Feedback, FeedbackEnter, FeedbackReads, FeedbackFails, Settle, SettleRunsOut,
     FeedbackReturns, Retire, avatar, TypeOK, Same
<1>3. CASE Stop(c)
  BY <1>3 DEF Stop, StopEnter, StopPosted, StopReads, StopReturns,
     Retire, avatar, TypeOK, Same
<1> QED BY <1>1, <1>2, <1>3

LEMMA NavigateKeeps ==
    ASSUME IInv, UNCHANGED use, NEW c \in Commands, Navigate(c)
    PROVE  CommandInv(c)'
<1>1. TypeOK /\ CommandInv(c)
  BY DEF IInv
<1>3. UNCHANGED <<feed, halt, stopped, arrived, tombstones, events>>
  BY DEF Navigate, NavigateEnter, WorldFails, WorldArrives, PostFails, PostAnswered, avatar
<1>4. CASE NavigateEnter(c)
  <2>1. /\ commands[c].place = "none" /\ nav'[c] \in {"world", "returned"}
        /\ commands'[c] = IF nav'[c] = "world"
              THEN [place |-> "active", dispatch |-> "awaiting_world", terminal |-> "none"]
              ELSE [place |-> "retired", dispatch |-> commands'[c].dispatch,
                    terminal |-> commands'[c].terminal]
        /\ UNCHANGED <<engine, early>>
    BY <1>1, <1>4 DEF NavigateEnter, TypeOK, avatar
  <2> QED BY <1>1, <1>3, <2>1
          DEF CommandInv, RecordOf, CallsOf, ReportOf, RetiredIsOver
<1>5. CASE WorldFails(c)
  <2>1. /\ nav[c] = "world" /\ nav'[c] = "returned" /\ commands'[c].place = "retired"
        /\ UNCHANGED <<engine, early>>
    BY <1>1, <1>5 DEF WorldFails, Retire, Retired, TypeOK, avatar
  <2> QED BY <1>1, <1>3, <2>1 DEF CommandInv, RecordOf, CallsOf, ReportOf, RetiredIsOver
<1>6. CASE WorldArrives(c)
  <2>1. nav[c] = "world" /\ UNCHANGED early
    BY <1>6 DEF WorldArrives
  <2>2. CASE Retire(c, "rejected", "rejected") /\ nav' = [nav EXCEPT ![c] = "returned"]
             /\ UNCHANGED engine
    <3>1. nav'[c] = "returned" /\ commands'[c].place = "retired"
      BY <1>1, <2>2 DEF Retire, Retired, TypeOK
    <3> QED BY <1>1, <1>3, <2>1, <2>2, <3>1
            DEF CommandInv, RecordOf, CallsOf, ReportOf, RetiredIsOver
  <2>3. CASE /\ commands[c].place = "active"
             /\ commands' = [commands EXCEPT ![c].dispatch = "dispatching"]
             /\ nav' = [nav EXCEPT ![c] = "post"] /\ engine' = [engine EXCEPT ![c] = "sent"]
    <3>1. /\ nav'[c] = "post" /\ engine'[c] = "sent"
          /\ commands'[c].place = "active" /\ commands'[c].dispatch = "dispatching"
          /\ commands'[c].terminal = commands[c].terminal
      BY <1>1, <2>3 DEF TypeOK, Record
    <3> QED BY <1>1, <1>3, <2>1, <2>3, <3>1
            DEF CommandInv, RecordOf, CallsOf, ReportOf, RetiredIsOver, Ended
  <2> QED BY <1>6, <2>2, <2>3 DEF WorldArrives
<1>7. CASE PostFails(c)
  <2>1. /\ nav[c] = "post" /\ nav'[c] = "returned"
        /\ commands'[c].place = commands[c].place /\ commands'[c].terminal = commands[c].terminal
        /\ commands[c].place = "active" => commands'[c].dispatch = "unknown"
        /\ UNCHANGED <<engine, early>>
    BY <1>1, <1>7 DEF PostFails, TypeOK, Record, avatar
  <2> QED BY <1>1, <1>3, <2>1 DEF CommandInv, RecordOf, CallsOf, ReportOf, RetiredIsOver
<1>8. CASE PostAnswered(c)
  <2>1. nav[c] = "post" /\ commands[c].place # "none"
    BY <1>1, <1>8 DEF PostAnswered, CommandInv, RecordOf
  <2>2. CASE /\ commands[c].place = "active"
             /\ commands' = [commands EXCEPT ![c].dispatch = "accepted"]
             /\ nav' = [nav EXCEPT ![c] = "accepted"] /\ UNCHANGED engine
    <3>1. /\ nav'[c] = "accepted" /\ commands'[c].dispatch = "accepted"
          /\ commands'[c].place = "active" /\ commands'[c].terminal = commands[c].terminal
      BY <1>1, <2>2 DEF TypeOK, Record
    <3>2. feed[c] = Idle /\ ~arrived[c]
      BY <1>1, <2>1 DEF CommandInv, CallsOf, ReportOf
    <3>3. feed[c].event = "unread"
      BY <3>2 DEF Idle
    <3> QED BY <1>1, <1>3, <2>1, <2>2, <3>1, <3>2, <3>3
            DEF CommandInv, RecordOf, CallsOf, ReportOf, RetiredIsOver, Seen
  <2>3. CASE /\ commands[c].place = "retired" /\ nav' = [nav EXCEPT ![c] = "returned"]
             /\ UNCHANGED <<commands, early, engine>>
    <3>1. nav'[c] = "returned"
      BY <1>1, <2>3 DEF TypeOK
    <3> QED BY <1>1, <1>3, <2>1, <2>3, <3>1
            DEF CommandInv, RecordOf, CallsOf, ReportOf, RetiredIsOver
  <2>4. CASE /\ engine[c] = "sent" /\ Retire(c, "rejected", "rejected")
             /\ nav' = [nav EXCEPT ![c] = "returned"] /\ engine' = [engine EXCEPT ![c] = "over"]
             /\ UNCHANGED early
    <3>1. nav'[c] = "returned" /\ commands'[c].place = "retired" /\ engine'[c] = "over"
      BY <1>1, <2>4 DEF Retire, Retired, TypeOK
    <3> QED BY <1>1, <1>3, <2>1, <2>4, <3>1
            DEF CommandInv, RecordOf, CallsOf, ReportOf, RetiredIsOver, Ended
  <2> QED BY <1>8, <2>2, <2>3, <2>4 DEF PostAnswered
<1> QED BY <1>4, <1>5, <1>6, <1>7, <1>8 DEF Navigate

LEMMA FeedbackKeeps ==
    ASSUME IInv, UNCHANGED use, NEW c \in Commands, Feedback(c)
    PROVE  CommandInv(c)'
<1>1. TypeOK /\ CommandInv(c) /\ Idle.event = "unread"
  BY DEF IInv, Idle
<1>2. UNCHANGED <<nav, halt, stopped, early, engine, tombstones, events>>
  BY DEF Feedback, FeedbackEnter, FeedbackReads, FeedbackFails, Settle, SettleRunsOut,
         FeedbackReturns, avatar
<1>3. ASSUME UNCHANGED <<commands, arrived>>, nav[c] = "accepted",
             feed'[c].event \in {"unread", "none", feed[c].event, CurrentEvent(c)}
      PROVE  CommandInv(c)'
  <2>1. CurrentEvent(c) \in Seen => CurrentEvent(c) = events[c] /\ ~early[c]
    BY DEF CurrentEvent, Seen
  <2> QED BY <1>1, <1>2, <1>3, <2>1
          DEF CommandInv, RecordOf, CallsOf, ReportOf, RetiredIsOver, Seen
<1>4. feed[c] # Idle => nav[c] = "accepted"
  BY <1>1 DEF CommandInv, CallsOf
<1>5. CASE FeedbackEnter(c)
  <2>1. nav[c] = "accepted" /\ feed'[c].event = "unread" /\ UNCHANGED <<commands, arrived>>
    BY <1>1, <1>5 DEF FeedbackEnter, TypeOK, Call, Idle
  <2> QED BY <1>3, <2>1
<1>6. CASE FeedbackReads(c)
  <2>1. /\ feed[c] # Idle /\ UNCHANGED <<commands, arrived>>
        /\ feed'[c].event \in {feed[c].event, CurrentEvent(c)}
    BY <1>1, <1>6 DEF FeedbackReads, TypeOK, Call, Idle
  <2> QED BY <1>3, <1>4, <2>1
<1>7. CASE FeedbackFails(c) \/ Settle(c) \/ SettleRunsOut(c)
  <2>1. Again("settle", FALSE).event = "unread" /\ Again("settle", TRUE).event = "unread"
    BY DEF Again, Idle
  <2>2. /\ UNCHANGED <<commands, arrived>>
        /\ \E call \in {Idle, Again("settle", FALSE), Again("settle", TRUE)} :
              feed' = [feed EXCEPT ![c] = call]
    BY <1>7 DEF FeedbackFails, Settle, SettleRunsOut
  <2>3. feed[c] # Idle
    <3>1. feed[c].at # "idle" \/ feed[c].event # "unread"
      BY <1>7 DEF FeedbackFails, Settle, SettleRunsOut, Gathered
    <3> QED BY <1>1, <3>1 DEF Idle
  <2>4. feed'[c].event = "unread"
    BY <1>1, <2>1, <2>2 DEF TypeOK
  <2> QED BY <1>3, <1>4, <2>2, <2>3, <2>4
<1>8. CASE FeedbackReturns(c)
  <2>1. feed'[c] = Idle /\ feed[c].event # "unread" /\ nav[c] = "accepted"
    BY <1>1, <1>4, <1>8 DEF FeedbackReturns, TypeOK, Gathered
  <2>2. CASE UNCHANGED <<commands, arrived>>
    BY <1>1, <1>3, <2>1, <2>2
  <2>3. CASE /\ feed[c].event # "none"
             /\ \E terminal \in {"arrived", "stopped", "failed"} :
                   Retire(c, terminal, commands[c].dispatch)
             /\ arrived' \in {arrived, [arrived EXCEPT ![c] = TRUE]}
             /\ arrived' # arrived => feed[c].event = "completed"
    <3>1. commands'[c].place = "retired"
      BY <1>1, <2>3 DEF Retire, Retired, TypeOK
    <3>2. feed[c].event \in Seen
      BY <1>1, <2>1, <2>3 DEF TypeOK, Call, Seen
    <3>3. arrived'[c] => arrived[c] \/ feed[c].event = "completed"
      BY <1>1, <2>3 DEF TypeOK
    <3> QED BY <1>1, <1>2, <2>1, <3>1, <3>2, <3>3
            DEF CommandInv, RecordOf, CallsOf, ReportOf, RetiredIsOver, Seen, Ended
  <2> QED BY <1>8, <2>2, <2>3 DEF FeedbackReturns
<1> QED BY <1>5, <1>6, <1>7, <1>8 DEF Feedback

LEMMA StopKeeps ==
    ASSUME IInv, UNCHANGED use, NEW c \in Commands, Stop(c)
    PROVE  CommandInv(c)'
<1>1. TypeOK /\ CommandInv(c) /\ Idle.event = "unread"
  BY DEF IInv, Idle
<1>2. UNCHANGED <<nav, feed, arrived, early, engine, tombstones, events>>
  BY DEF Stop, StopEnter, StopPosted, StopReads, StopReturns, avatar
<1>3. halt[c].call # Idle => nav[c] # "idle"
  BY <1>1 DEF CommandInv, CallsOf
<1>4. ASSUME UNCHANGED <<commands, stopped>>, nav[c] # "idle",
             halt'[c].call.event \in {"unread", "none", halt[c].call.event, events[c]}
      PROVE  CommandInv(c)'
  <2>1. events[c] \in Seen => events[c] # "none"
    BY DEF Seen
  <2> QED BY <1>1, <1>2, <1>4, <2>1
          DEF CommandInv, RecordOf, CallsOf, ReportOf, RetiredIsOver, Seen
<1>5. ASSUME \E dispatch \in {commands[c].dispatch, "never_dispatched"} :
                 Retire(c, "stopped", dispatch),
             stopped' = [stopped EXCEPT ![c] = TRUE], nav[c] # "idle",
             halt'[c].call.event \in {"unread", halt[c].call.event},
             engine[c] = "none" \/ engine[c] \in Ended \/ commands[c].place = "retired"
      PROVE  CommandInv(c)'
  <2>1. commands'[c].place = "retired"
    BY <1>1, <1>5 DEF Retire, Retired, TypeOK
  <2> QED BY <1>1, <1>2, <1>5, <2>1
          DEF CommandInv, RecordOf, CallsOf, ReportOf, RetiredIsOver, Seen, Ended
<1>6. CASE StopEnter(c)
  <2>1. nav[c] # "idle"
    BY <1>1, <1>6 DEF StopEnter, CommandInv, RecordOf
  <2>2. CASE /\ LocallyTerminal(c) /\ Retire(c, "stopped", "never_dispatched")
             /\ stopped' = [stopped EXCEPT ![c] = TRUE] /\ UNCHANGED halt
    <3>1. engine[c] = "none" \/ commands[c].place = "retired"
      BY <1>1, <1>6, <2>2
         DEF LocallyTerminal, CommandInv, RecordOf, ReportOf, TypeOK, Record, StopEnter
    <3> QED BY <1>5, <2>1, <2>2, <3>1
  <2>3. CASE /\ halt' = [halt EXCEPT ![c] = [call |-> [Idle EXCEPT !.at = "post"],
                                             message |-> "sent",
                                             stray |-> @.message = "sent" \/ @.stray,
                                             made |-> @.made + 1]]
             /\ UNCHANGED <<commands, stopped>>
    <3>1. halt'[c].call.event = "unread"
      BY <1>1, <2>3 DEF TypeOK, Idle
    <3> QED BY <1>4, <2>1, <2>3, <3>1
  <2> QED BY <1>6, <2>2, <2>3 DEF StopEnter
<1>7. CASE StopPosted(c)
  <2>1. /\ halt[c].call # Idle /\ UNCHANGED <<commands, stopped>>
        /\ halt'[c].call.event = "unread"
    BY <1>1, <1>7 DEF StopPosted, TypeOK, Idle
  <2> QED BY <1>3, <1>4, <2>1
<1>8. CASE StopReads(c)
  <2>1. /\ halt[c].call # Idle /\ UNCHANGED <<commands, stopped>>
        /\ halt'[c].call.event \in {halt[c].call.event, events[c]}
    BY <1>1, <1>8 DEF StopReads, TypeOK, Idle, Call
  <2> QED BY <1>3, <1>4, <2>1
<1>9. CASE StopReturns(c)
  <2>1. halt[c].call # Idle
    BY <1>9 DEF StopReturns, Idle
  <2>2. CASE /\ StopConfirmed(halt[c].call) /\ Retire(c, "stopped", commands[c].dispatch)
             /\ stopped' = [stopped EXCEPT ![c] = TRUE]
             /\ halt' = [halt EXCEPT ![c].call = Idle]
    <3>1. halt[c].call.event \in Seen
      BY <1>1, <2>2 DEF StopConfirmed, Gathered, TypeOK, Call, Seen
    <3>2. engine[c] \in Ended
      BY <1>1, <3>1 DEF CommandInv, ReportOf
    <3>3. halt'[c].call.event = "unread"
      BY <1>1, <2>2 DEF TypeOK
    <3> QED BY <1>3, <1>5, <2>1, <2>2, <3>2, <3>3
  <2>3. CASE /\ UNCHANGED <<commands, stopped>>
             /\ \/ halt' = [halt EXCEPT ![c].call = Idle]
                \/ halt' = [halt EXCEPT ![c].call = Again("gather", FALSE)]
    <3>0. Again("gather", FALSE).event = "unread"
      BY DEF Again, Idle
    <3>1. \A call : halt' = [halt EXCEPT ![c].call = call] => halt'[c].call = call
      BY <1>1 DEF TypeOK
    <3>2. halt'[c].call.event = "unread"
      BY <1>1, <2>3, <3>0, <3>1
    <3> QED BY <1>3, <1>4, <2>1, <2>3, <3>2
  <2> QED BY <1>9, <2>2, <2>3 DEF StopReturns
<1> QED BY <1>6, <1>7, <1>8, <1>9 DEF Stop

\* What a step of the avatar or its bridge may do to command d.
Moved(d) ==
    \/ engine'[d] = engine[d] /\ events'[d] = events[d]
    \/ engine[d] = "sent" /\ engine'[d] = "over" /\ events'[d] \in {events[d], "failed"}
    \/ engine[d] = "sent" /\ d \notin tombstones /\ engine'[d] = "live" /\ events'[d] = events[d]
    \/ engine[d] = "live" /\ engine'[d] = "over" /\ events'[d] \in Seen
    \/ /\ engine[d] = "live" /\ engine'[d] = "adrift" /\ events'[d] = "stopped"
       /\ use.othersSpeak
    \/ engine[d] = "adrift" /\ engine'[d] = "over" /\ events'[d] = events[d]

LEMMA AvatarMoves ==
    ASSUME TypeOK, (\E c \in Commands : Avatar(c)) \/ SpeechBegins \/ SpeechEnds \/ Publish,
           NEW d \in Commands
    PROVE  /\ Moved(d)
           /\ UNCHANGED <<commands, nav, feed, stopped, arrived, early>>
           /\ halt'[d].call = halt[d].call
           /\ tombstones \subseteq tombstones'
<1>1. ASSUME NEW c \in Commands, Deliver(c) PROVE Moved(d)
  <2>1. CASE Becomes([engine EXCEPT ![c] = "over"]) /\ events' = [events EXCEPT ![c] = "failed"]
    BY <1>1, <2>1 DEF Deliver, Becomes, Moved, TypeOK
  <2>2. CASE /\ c \notin tombstones
             /\ Becomes([e \in Commands |-> IF e = c THEN "live"
                           ELSE IF engine[e] \in Running THEN "over" ELSE engine[e]])
             /\ events' = [e \in Commands |-> IF engine[e] = "live" THEN "stopped" ELSE events[e]]
    BY <1>1, <2>2 DEF Deliver, Becomes, Moved, Running, TypeOK, Seen
  <2> QED BY <1>1, <2>1, <2>2 DEF Deliver
<1>2. ASSUME NEW c \in Commands, Lose(c) PROVE Moved(d)
  BY <1>2 DEF Lose, Moved, TypeOK
<1>3. ASSUME NEW c \in Commands, RouteEnds(c) PROVE Moved(d)
  <2>1. engine' = [engine EXCEPT ![c] = "over"] /\ engine[c] \in Running
    BY <1>3 DEF RouteEnds, Becomes
  <2> QED BY <1>3, <2>1 DEF RouteEnds, Moved, Running, TypeOK, Seen
<1>4. ASSUME NEW c \in Commands, StopArrives(c) PROVE Moved(d)
  <2>1. CASE engine[c] = "live"
    <3>1. engine' = [engine EXCEPT ![c] = "over"] /\ events' = [events EXCEPT ![c] = "stopped"]
      BY <1>4, <2>1 DEF StopArrives, Becomes
    <3> QED BY <2>1, <3>1 DEF Moved, TypeOK, Seen
  <2>2. CASE engine[c] # "live"
    BY <1>4, <2>2 DEF StopArrives, Moved
  <2> QED BY <2>1, <2>2
<1>5. ASSUME SpeechBegins PROVE Moved(d)
  BY <1>5 DEF SpeechBegins, Becomes, Moved, TypeOK
<1>6. ASSUME SpeechEnds \/ Publish PROVE Moved(d)
  BY <1>6 DEF SpeechEnds, Publish, Moved
<1>7. Moved(d)
  BY <1>1, <1>2, <1>3, <1>4, <1>5, <1>6 DEF Avatar
<1>8. UNCHANGED <<commands, nav, feed, stopped, arrived, early>> /\ tombstones \subseteq tombstones'
  BY DEF Avatar, Deliver, Lose, RouteEnds, StopArrives, SpeechBegins, SpeechEnds, Publish, adapter
<1>9. halt'[d].call = halt[d].call
  <2>1. \A c \in Commands :
            \/ halt' = [halt EXCEPT ![c].message = "acknowledged"]
            \/ halt' = [halt EXCEPT ![c].stray = FALSE]
            => halt'[d].call = halt[d].call
    BY DEF TypeOK
  <2> QED BY <2>1 DEF Avatar, Deliver, Lose, RouteEnds, StopArrives, SpeechBegins, SpeechEnds,
          Publish, adapter
<1> QED BY <1>7, <1>8, <1>9

LEMMA AvatarKeeps ==
    ASSUME IInv, UNCHANGED use, NEW d \in Commands,
           (\E c \in Commands : Avatar(c)) \/ SpeechBegins \/ SpeechEnds \/ Publish
    PROVE  CommandInv(d)'
<1>1. TypeOK /\ CommandInv(d)
  BY DEF IInv
<1>2. /\ Moved(d) /\ UNCHANGED <<commands, nav, feed, stopped, arrived, early>>
      /\ halt'[d].call = halt[d].call /\ tombstones \subseteq tombstones'
  BY <1>1, AvatarMoves
<1>3. RecordOf(d)'
  BY <1>1, <1>2 DEF CommandInv, RecordOf
<1>5. ReportOf(d)'
  BY <1>1, <1>2 DEF CommandInv, ReportOf, Moved, Ended, Seen
<1>6. RetiredIsOver(d)'
  BY <1>1, <1>2 DEF CommandInv, RetiredIsOver, ReportOf, Moved, Ended
<1>7. CallsOf(d)'
  BY <1>1, <1>2 DEF CommandInv, CallsOf
<1> QED BY <1>3, <1>5, <1>6, <1>7 DEF CommandInv

LEMMA AdapterInvInit == Init => IInv
<1> SUFFICES ASSUME Init PROVE IInv
  OBVIOUS
<1>1. ASSUME NEW c \in Commands PROVE CommandInv(c)
  BY DEF Init, CommandInv, RecordOf, CallsOf, ReportOf, RetiredIsOver, NoRecord, Idle, Seen
<1> QED BY <1>1, AdapterTypeInit DEF IInv

LEMMA AdapterInvStep == IInv /\ [Next]_vars => IInv'
<1> SUFFICES ASSUME IInv, [Next]_vars PROVE IInv'
  OBVIOUS
<1>1. TypeOK /\ use.ids \subseteq Commands
  BY AdapterAssumption DEF IInv, TypeOK, Use
<1>2. ASSUME UNCHANGED use, NEW c \in Commands, Navigate(c) \/ Feedback(c) \/ Stop(c),
             NEW d \in Commands
      PROVE  CommandInv(d)'
  <2>1. CASE d = c
    BY <1>2, <2>1, NavigateKeeps, FeedbackKeeps, StopKeeps
  <2>2. CASE d # c
    <3>1. Same(d) /\ CommandInv(d)
      BY <1>1, <1>2, <2>2, HandlersAreLocal DEF IInv
    <3> QED BY <1>2, <3>1, SameKeeps
  <2> QED BY <2>1, <2>2
<1>3. ASSUME UNCHANGED vars, NEW d \in Commands PROVE CommandInv(d)'
  <2>1. Same(d) /\ CommandInv(d) /\ UNCHANGED use
    BY <1>3 DEF IInv, vars, adapter, avatar, Same
  <2> QED BY <2>1, SameKeeps
<1>4. \A d \in Commands : CommandInv(d)'
  BY <1>1, <1>2, <1>3, AvatarKeeps DEF Next
<1> QED BY <1>1, <1>4, AdapterTypeStep DEF IInv

LEMMA AdapterInvariant == Spec => []IInv
  BY AdapterInvInit, AdapterInvStep, PTL DEF Spec

-----------------------------------------------------------------------------
(* The properties                                                          *)

\* Types of the adapter's records, of the calls on them and of the avatar's state.
THEOREM AdapterTypes == Spec => []TypeOK
<1>1. IInv => TypeOK
  BY DEF IInv
<1> QED BY <1>1, AdapterInvariant, PTL

\* As long as the avatar executes a command, or may still start it, a stop goes to the
\* avatar: neither retirement nor the record's own fields answer it.
THEOREM StoppableAlways == Spec => []StoppableWhileLive
<1>1. ASSUME IInv, NEW c \in Commands,
             engine[c] = "live" \/ (engine[c] = "sent" /\ c \notin tombstones)
      PROVE  commands[c].place = "active" /\ ~LocallyTerminal(c)
  <2>1. commands[c] \in Record /\ nav[c] \notin {"idle", "world"} /\ CommandInv(c)
    BY <1>1 DEF IInv, TypeOK, CommandInv, ReportOf
  <2> QED BY <1>1, <2>1
          DEF CommandInv, RecordOf, RetiredIsOver, LocallyTerminal, Record
<1>2. IInv => StoppableWhileLive
  BY <1>1 DEF StoppableWhileLive
<1> QED BY <1>2, AdapterInvariant, PTL

\* feedback reports an arrival only for a route that the avatar completed after it was
\* accepted, and that is over.
THEOREM ArrivalsAreCompleted == Spec => []ArrivedIsCompleted
<1>1. IInv => ArrivedIsCompleted
  BY DEF IInv, CommandInv, ReportOf, ArrivedIsCompleted
<1> QED BY <1>1, AdapterInvariant, PTL

\* After a confirmed stop navigate never reports the command as accepted, however late
\* the acknowledgement of its POST is.
THEOREM StopsBeatAcceptance == Spec => StopBeatsAccept
<1>1. ASSUME IInv, [Next]_vars, NEW c \in Commands, stopped[c], nav[c] # "accepted"
      PROVE  nav'[c] # "accepted"
  <2>1. TypeOK /\ use.ids \subseteq Commands /\ commands[c].place = "retired"
    BY <1>1, AdapterAssumption DEF IInv, CommandInv, RecordOf, TypeOK, Use
  <2>2. ASSUME NEW d \in Commands, Navigate(d) \/ Feedback(d) \/ Stop(d) PROVE nav'[c] # "accepted"
    <3>1. CASE d # c
      BY <1>1, <2>1, <2>2, <3>1, HandlersAreLocal DEF Same
    <3>2. CASE d = c
      BY <1>1, <2>1, <2>2, <3>2
         DEF Navigate, NavigateEnter, WorldFails, WorldArrives, PostFails, PostAnswered, Retire,
             Feedback, FeedbackEnter, FeedbackReads, FeedbackFails, Settle, SettleRunsOut,
             FeedbackReturns, Stop, StopEnter, StopPosted, StopReads, StopReturns, TypeOK
    <3> QED BY <3>1, <3>2
  <2>3. CASE UNCHANGED vars
    BY <1>1, <2>3 DEF vars, adapter
  <2> QED BY <1>1, <2>1, <2>2, <2>3, AvatarMoves DEF Next
<1>2. IInv /\ [Next]_vars =>
        [\A c \in Commands : stopped[c] /\ nav[c] # "accepted" => nav'[c] # "accepted"]_vars
  BY <1>1
<1> QED BY <1>2, AdapterInvariant, PTL DEF Spec, StopBeatsAccept

-----------------------------------------------------------------------------
(* The adapter implements OwnedMotion                                      *)

\* The abstract owner of c and whether it moves the avatar, as KeepsOwnership maps them.
OwnerAt(place) == CASE place = "none" -> "free"
                    [] place = "active" -> "held"
                    [] place = "retired" -> "released"
Owners == [c \in Commands |-> OwnerAt(commands[c].place)]
Moving == [c \in Commands |-> ~use.othersSpeak /\ MayStillRun(c)]

\* Unless others speak, only a command with an active record can move.
LEMMA MovingIsHeld ==
    ASSUME IInv, NEW c \in Commands
    PROVE  Moving[c] => commands[c].place = "active"
<1>1. CommandInv(c) /\ commands[c] \in Record
  BY DEF IInv, TypeOK
<1> QED BY <1>1 DEF Moving, MayStillRun, Running, CommandInv, RecordOf, ReportOf,
           RetiredIsOver, Record

LEMMA OwnedInitially == Init => Owned!OwnedInit
<1> SUFFICES ASSUME Init PROVE Owned!OwnedInit
  OBVIOUS
<1>1. \A c \in Commands : commands[c].place = "none" /\ ~MayStillRun(c)
  BY DEF Init, NoRecord, MayStillRun, Running
<1>2. Owners = [c \in Commands |-> "free"]
  BY <1>1 DEF Owners, OwnerAt
<1>3. Moving = [c \in Commands |-> FALSE]
  BY <1>1 DEF Moving
<1> QED BY <1>2, <1>3 DEF Owned!OwnedInit, Owners, OwnerAt, Moving

\* A record is made once and retired once.
LEMMA PlacesGoOn ==
    ASSUME IInv, NEW c \in Commands, Navigate(c) \/ Feedback(c) \/ Stop(c)
    PROVE  \/ commands'[c].place \in {commands[c].place, "retired"}
           \/ /\ commands[c].place = "none" /\ commands'[c].place = "active"
              /\ UNCHANGED avatar
<1>1. TypeOK
  BY DEF IInv
<1>2. ASSUME \E terminal, dispatch : Retire(c, terminal, dispatch)
      PROVE  commands'[c].place = "retired"
  BY <1>1, <1>2 DEF Retire, Retired, TypeOK
<1>3. CASE Navigate(c)
  <2>1. CASE NavigateEnter(c)
    BY <1>1, <2>1 DEF NavigateEnter, TypeOK
  <2>2. CASE WorldFails(c)
    BY <1>2, <2>2 DEF WorldFails
  <2>3. CASE WorldArrives(c) \/ PostFails(c) \/ PostAnswered(c)
    <3>1. \/ \E terminal, dispatch : Retire(c, terminal, dispatch)
          \/ UNCHANGED commands
          \/ \E dispatch : commands' = [commands EXCEPT ![c].dispatch = dispatch]
      BY <2>3 DEF WorldArrives, PostFails, PostAnswered
    <3> QED BY <1>1, <1>2, <3>1 DEF TypeOK, Record
  <2> QED BY <1>3, <2>1, <2>2, <2>3 DEF Navigate
<1>4. CASE Feedback(c) \/ Stop(c)
  <2>1. UNCHANGED commands \/ \E terminal, dispatch : Retire(c, terminal, dispatch)
    BY <1>4 DEF Feedback, FeedbackEnter, FeedbackReads, FeedbackFails, Settle, SettleRunsOut,
       FeedbackReturns, Stop, StopEnter, StopPosted, StopReads, StopReturns
  <2> QED BY <1>2, <2>1
<1> QED BY <1>3, <1>4

\* A handler claims, dispatches or releases the command it is about, or does nothing.
LEMMA HandlerOwns ==
    ASSUME IInv, IInv', UNCHANGED use, NEW c \in Commands, Navigate(c) \/ Feedback(c) \/ Stop(c)
    PROVE  [Owned!OwnedNext]_(Owned!ownedVars)
<1>1. TypeOK /\ TypeOK' /\ commands[c] \in Record
  BY DEF IInv, TypeOK
<1>2. ASSUME NEW d \in Commands, d # c
      PROVE  Owners'[d] = Owners[d] /\ Moving'[d] = Moving[d]
  <2>1. Same(d)
    BY <1>1, <1>2, HandlersAreLocal
  <2> QED BY <2>1 DEF Same, Owners, Moving, MayStillRun
<1>3. /\ Owners' = [Owners EXCEPT ![c] = Owners'[c]]
      /\ Moving' = [Moving EXCEPT ![c] = Moving'[c]]
      /\ Moving[c] \in BOOLEAN /\ Moving'[c] \in BOOLEAN
  <2>1. Owners' = [Owners EXCEPT ![c] = Owners'[c]]
    BY <1>2 DEF Owners
  <2>2. Moving' = [Moving EXCEPT ![c] = Moving'[c]]
    BY <1>2 DEF Moving
  <2>3. Moving[c] \in BOOLEAN /\ Moving'[c] \in BOOLEAN
    BY DEF Moving
  <2> QED BY <2>1, <2>2, <2>3
<1>4. /\ commands'[c].place \in {"none", "active", "retired"}
      /\ commands[c].place \in {"none", "active", "retired"}
      /\ commands'[c].place # "active" => ~Moving'[c]
      /\ commands[c].place # "active" => ~Moving[c]
  <2>1. (Moving[c] => commands[c].place = "active")'
    <3>1. CommandInv(c)' /\ (commands[c] \in Record)'
      BY <1>1 DEF IInv, TypeOK
    <3> QED BY <3>1 DEF Moving, MayStillRun, Running, CommandInv, RecordOf, ReportOf,
            RetiredIsOver, Record
  <2> QED BY <1>1, <2>1, MovingIsHeld DEF TypeOK, Record
<1>5. CASE commands[c].place = "none" /\ commands'[c].place = "active" /\ UNCHANGED avatar
  <2>1. Moving'[c] = Moving[c]
    BY <1>5 DEF Moving, MayStillRun, avatar
  <2>2. Owners[c] = "free" /\ Owners'[c] = "held"
    BY <1>5 DEF Owners, OwnerAt
  <2>3. Owned!Claim(c)
    BY <1>3, <2>1, <2>2 DEF Owned!Claim, Owners, OwnerAt, Moving
  <2> QED BY <2>3 DEF Owned!OwnedNext
<1>6. CASE commands[c].place # "retired" /\ commands'[c].place = "retired"
  <2>1. Owners[c] # "released" /\ Owners'[c] = "released" /\ Moving'[c] = FALSE
    BY <1>4, <1>6 DEF Owners, OwnerAt
  <2>2. Owned!Release(c)
    BY <1>3, <2>1 DEF Owned!Release, Owners, OwnerAt, Moving
  <2> QED BY <2>2 DEF Owned!OwnedNext
<1>7. CASE commands'[c].place = commands[c].place
  <2>1. Owners' = Owners
    BY <1>3, <1>7 DEF Owners
  <2>2. CASE Moving'[c] = Moving[c]
    BY <1>3, <2>1, <2>2 DEF Owned!ownedVars, Owners, OwnerAt, Moving
  <2>3. CASE Moving'[c] /\ ~Moving[c]
    <3>1. Owners[c] = "held"
      BY <1>4, <1>7, <2>3 DEF Owners, OwnerAt
    <3>2. Owned!Dispatch(c)
      BY <1>3, <2>1, <2>3, <3>1 DEF Owned!Dispatch, Owners, OwnerAt, Moving
    <3> QED BY <3>2 DEF Owned!OwnedNext
  <2>4. CASE ~Moving'[c] /\ Moving[c]
    <3>1. Owned!Cease({c})
      BY <1>3, <2>1, <2>4 DEF Owned!Cease, Owners, OwnerAt, Moving
    <3> QED BY <3>1 DEF Owned!OwnedNext
  <2> QED BY <1>3, <2>2, <2>3, <2>4
<1> QED BY <1>4, <1>5, <1>6, <1>7, PlacesGoOn

\* The avatar ends motions, and starts none that could not start before.
LEMMA AvatarCeases ==
    ASSUME IInv, UNCHANGED use,
           (\E c \in Commands : Avatar(c)) \/ SpeechBegins \/ SpeechEnds \/ Publish
    PROVE  Owned!OwnedNext
<1> DEFINE ended == {d \in Commands : ~Moving'[d]}
<1>1. ASSUME NEW d \in Commands PROVE Moving'[d] => Moving[d]
  BY <1>1, AvatarMoves DEF IInv, Moved, Moving, MayStillRun, Running
<1>2. Moving' = [d \in Commands |-> Moving[d] /\ d \notin ended]
  BY <1>1 DEF Moving
<1>3. Owners' = Owners
  <2>1. \A d \in Commands : commands'[d] = commands[d]
    BY AvatarMoves DEF IInv
  <2> QED BY <2>1 DEF Owners
<1>4. Owned!Cease(ended)
  BY <1>2, <1>3 DEF Owned!Cease, Owners, OwnerAt, Moving
<1> QED BY <1>4 DEF Owned!OwnedNext

\* The adapter implements OwnedMotion: a command is held before its POST can move the
\* avatar, moves only while its record is active, and is retired once, when it is over.
THEOREM ImplementsOwnedMotion == Spec => KeepsOwnership
<1>1. ASSUME IInv, [Next]_vars PROVE [Owned!OwnedNext]_(Owned!ownedVars)
  <2>1. IInv' /\ use.ids \subseteq Commands
    BY <1>1, AdapterInvStep, AdapterAssumption DEF IInv, TypeOK, Use
  <2>2. CASE UNCHANGED vars
    BY <2>2 DEF vars, adapter, avatar, Owned!ownedVars, MayStillRun
  <2>3. CASE Next
    BY <1>1, <2>1, <2>3, HandlerOwns, AvatarCeases DEF Next
  <2> QED BY <1>1, <2>2, <2>3
<1>2. IInv /\ [Next]_vars => [Owned!OwnedNext]_(Owned!ownedVars)
  BY <1>1
<1> QED BY <1>2, OwnedInitially, AdapterInvariant, PTL DEF Spec, KeepsOwnership, Owned!OwnedSpec
=============================================================================
