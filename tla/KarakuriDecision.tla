--------------------------- MODULE KarakuriDecision ---------------------------
(***************************************************************************)
(* lumina_next/karakuri_world.py: what Lumina does with a notification     *)
(* that offers choices.  A language model answers with a choice, or fails; *)
(* rules replace its answer where it stalls, repeats itself, buys what it  *)
(* cannot pay or works without need.  A decision names a choice (0: none)  *)
(* and parameters that add to those of the choice.                         *)
(*                                                                         *)
(* A choice has a command, the place and the action its own parameters     *)
(* name, and whether all required ones are there (ready).  A situation is  *)
(* what notification and memories say: where Lumina is, her money, the     *)
(* actions whose prices she knows, where other agents are, whether that    *)
(* was asked lately, whether a partner can be made out, whether the        *)
(* partner was called lately and whether there is something to follow up.  *)
(* Ties of the rankings, which visits and distances break, are left open.  *)
(***************************************************************************)
EXTENDS Integers, Sequences, FiniteSets, SequencesExt, Absent

CONSTANTS
    Offers,         \* notifications: the choices, and what is known when they arrive (bound)
    Prices,         \* of each action: what it costs, negative when it earns
    ShortWindow,    \* 5, the recent turns of _repeat_pressure
    ShortLimit,     \* 3, as many of one command are too many
    LongWindow,     \* 12
    LongLimit,      \* 5
    MenuLimit,      \* 4: of the actions with a price, the cheapest, and the best paid
    WorkWindow,     \* 6
    WorkLimit,      \* 3, shifts among the last turns that are too many
    Pittance,       \* 100: as little is always too little
    Modest,         \* 500: with less, paid work is taken
    Comfort         \* 2000: with as much, it is not

ASSUME DecisionAssumption ==
    /\ 0 < ShortLimit /\ ShortLimit =< ShortWindow /\ ShortWindow =< LongWindow
    /\ LongLimit =< LongWindow /\ WorkLimit \in Nat /\ MenuLimit \in Nat /\ Pittance < Modest /\ Modest =< Comfort

VARIABLES
    recent,   \* the turns that were carried out, the latest first: the command, and labour
              \* if the reason that was given speaks of work
    faced,    \* the last notification: choices and situation
    answer,   \* what the model answered, or None
    decided,  \* what _choose_action made of it
    done      \* what was sent to the world, or None

decisionVars == <<recent, faced, answer, decided, done>>

Replies  == {"conversation_speak"}
Reactive == Replies \cup {"conversation_leave"}
Social   == Reactive \cup {"conversation_start"}
Asks     == {"get_perception", "get_world_agents", "get_action_details", "get_map"}
Passive  == {"wait", "get_map"}
Observes == Asks \cup {"action", "wait"}

Nothing  == [index |-> 0, node |-> None, act |-> None, full |-> FALSE]
Picks(i) == [Nothing EXCEPT !.index = i]
Offered(cs) == {c.command : c \in Range(cs)}

\* The choice as the notification has it, and the command of a decision.
Own(cs, i)      == [index |-> i, node |-> cs[i].node, act |-> cs[i].act, full |-> cs[i].ready]
Picked(d, cs) == IF d.index \in DOMAIN cs THEN cs[d.index].command ELSE "nothing"
First(S)        == CHOOSE i \in S : \A j \in S : i =< j
Actionable(c)   == c.ready /\ c.command \notin Asks \cup {"wait"}
SomethingToDo(cs) == \E c \in Range(cs) : Actionable(c)
ReadyFor(cs, command) == {i \in DOMAIN cs : cs[i].command = command /\ cs[i].ready}
Best(rank)      == {i \in DOMAIN rank : \A j \in DOMAIN rank : rank[i] =< rank[j]}

-----------------------------------------------------------------------------
\* Places: the map and the position on it.

SameMap(a, b) == a[1] = b[1]
Apart(a, b)   == IF SameMap(a, b) THEN IF a[2] > b[2] THEN a[2] - b[2] ELSE b[2] - a[2] ELSE 1000
Elsewhere(s, c) == s.here # None /\ c.node # None /\ ~SameMap(s.here, c.node)
StaysPut(s, c)  == c.command = "move" /\ s.here # None /\ c.node = s.here
Known(s)    == {a \in s.agents : s.here = None \/ (a # s.here /\ SameMap(s.here, a))}
Nearest(s)  == IF Known(s) = {} THEN None
               ELSE CHOOSE a \in Known(s) : s.here # None => \A b \in Known(s) : Apart(s.here, a) =< Apart(s.here, b)
ToAgents(s, p) == IF p = None \/ s.agents \ {s.here} = {} THEN 1000
                  ELSE Apart(p, CHOOSE a \in s.agents \ {s.here} : \A b \in s.agents \ {s.here} : Apart(p, a) =< Apart(p, b))

\* Money: what is known to cost or to earn something.

Leading(S)  == {a \in S : Cardinality({b \in S : Prices[b] < Prices[a]}) < MenuLimit}
Costs(s) == Leading({a \in s.menu : Prices[a] > 0})
Earns(s) == Leading({a \in s.menu : Prices[a] < 0})
BestEarn(s) == IF Earns(s) = {} THEN None ELSE CHOOSE a \in Earns(s) : \A b \in Earns(s) : Prices[a] =< Prices[b]
Cheapest(s) == CHOOSE a \in Costs(s) : \A b \in Costs(s) : Prices[a] =< Prices[b]
NeedsIncome(s) ==
    /\ s.money # None
    /\ s.money =< Pittance \/ (Costs(s) # {} /\ s.money < Prices[Cheapest(s)]) \/ (Earns(s) # {} /\ s.money < Modest)
Comfortable(s) ==
    /\ s.money # None /\ ~NeedsIncome(s) /\ s.money >= Comfort
    /\ Costs(s) = {} \/ s.money >= 3 * Prices[Cheapest(s)]
BuysUnpaid(s, act) == act \in Costs(s) /\ s.money # None /\ s.money < Prices[act]
ActOf(d, cs) == IF d.act # None THEN d.act ELSE IF Picked(d, cs) = "action" THEN cs[d.index].act ELSE None
Works(act) == act # None /\ Prices[act] < 0
WorkDone == Cardinality({i \in DOMAIN recent : i =< WorkWindow /\ recent[i].command = "action" /\ recent[i].labour})

\* Repetition: commands that the last turns have seen too often.

Times(command, n) == Cardinality({i \in DOMAIN recent : i =< n /\ recent[i].command = command})
Recently == {recent[i].command : i \in {j \in DOMAIN recent : j =< ShortWindow}}
Observed == Cardinality({i \in DOMAIN recent : i =< ShortWindow /\ recent[i].command \in Observes}) >= ShortLimit
Avoided ==
    {c \in {r.command : r \in Range(recent)} :
        \/ Times(c, ShortWindow) >= ShortLimit
        \/ Times(c, LongWindow) >= LongLimit
        \/ Observed /\ c \in Recently \cap Observes}
Pressed == Avoided # {} \/ Observed \/ (Len(recent) >= ShortWindow - 1 /\ Cardinality(Recently) =< 2)
Worn(cs) == {i \in DOMAIN cs : cs[i].command \in Avoided}

-----------------------------------------------------------------------------
\* Rankings. An index of 0 says that there is none.

ActRank(command) ==
    CASE command \in Social -> 0 [] command = "action" -> 1 [] command = "move" -> 3
      [] command \in Asks -> 5 [] command = "wait" -> 6 [] OTHER -> 4

Reachable(s, c) ==
    c.command = "move" => /\ c.node # None \/ (s.here # None /\ Known(s) # {})
                          /\ ~Elsewhere(s, c)
BestActionable(cs, s, excluded, observe, wait) ==
    LET open == {i \in DOMAIN cs \ excluded :
                    /\ cs[i].ready /\ Reachable(s, cs[i])
                    /\ cs[i].command = "wait" => wait
                    /\ cs[i].command \in Asks => observe}
    IN  IF open = {} THEN 0 ELSE First(Best([i \in open |-> ActRank(cs[i].command)]))

FirstOf(cs, commands) ==    \* the first ready choice of the first command that has one
    LET having == {k \in DOMAIN commands : ReadyFor(cs, commands[k]) # {}}
    IN  IF having = {} THEN 0 ELSE First(ReadyFor(cs, commands[First(having)]))

ActionIndex(cs) == FirstOf(cs, <<"action">>)
Earning(cs, s)  == [Picks(ActionIndex(cs)) EXCEPT !.act = BestEarn(s)]
MustEarn(s)     == NeedsIncome(s) /\ Earns(s) # {}

\* The rules alone: work when money is needed, talk, walk to somebody, act, and look about last.

Category(s, c) ==
    LET poor == NeedsIncome(s)
        near == IF poor THEN 2 ELSE 1
    IN  CASE poor /\ c.command \in Reactive                     -> 0
          [] MustEarn(s) /\ c.command = "action"                -> 0
          [] poor /\ c.command = "get_action_details"           -> 0
          [] c.command \in Social                               -> IF poor THEN 1 ELSE 0
          [] c.command = "get_world_agents" /\ ~s.asked /\ ~Pressed -> near
          [] c.command = "move"                                 -> IF c.node \in Known(s) THEN near ELSE near + 1
          [] c.command = "wait" /\ Pressed                        -> 3
          [] c.command \in Observes                             -> IF Pressed \/ poor THEN 6 ELSE 4
          [] OTHER                                              -> 3

TalkRank(command) ==
    CASE command = "conversation_speak" -> 0 [] command = "conversation_start" -> 4
      [] command = "conversation_leave" -> 5 [] OTHER -> 99

Candidates(cs, s, excluded) ==
    {i \in DOMAIN cs \ excluded :
        /\ cs[i].ready /\ ~StaysPut(s, cs[i])
        /\ cs[i].command = "move" => /\ ~Elsewhere(s, cs[i])
                                     /\ cs[i].node # None \/ Known(s) # {}}

Walking(s, i, c) == [Picks(i) EXCEPT !.node = IF c.node = None THEN Nearest(s) ELSE c.node]

Deterministic(cs, s, excluded) ==
    LET open == Candidates(cs, s, excluded)
        best == Best([i \in Best([j \in open |-> Category(s, cs[j])]) |-> TalkRank(cs[i].command)])
    IN  IF MustEarn(s) /\ ActionIndex(cs) \notin excluded \cup {0} THEN {Earning(cs, s)}
        ELSE IF open = {} THEN {Nothing}
        ELSE {CASE cs[i].command = "action" /\ MustEarn(s) -> [Picks(i) EXCEPT !.act = BestEarn(s)]
                [] cs[i].command = "move"                  -> Walking(s, i, cs[i])
                [] OTHER                                   -> Picks(i) : i \in best}

-----------------------------------------------------------------------------
\* Talking before anything else: _prefer_active_choice.

\* A conversation can be had if its parameters are there, were answered, or can be made out.
SocialUsable(d, s, c) == c.ready \/ d.full \/ s.partner

\* Calls that were not answered, and how many minutes ago, by the last twelve minutes, half an
\* hour, two hours and six.
Since(s, minutes) == Cardinality({k \in DOMAIN s.calls : s.calls[k] < minutes})
Cooling(s) ==
    \/ Since(s, 12) >= 1
    \/ Since(s, 60) >= 2 /\ Since(s, 30) >= 1
    \/ Since(s, 360) >= 3 /\ Since(s, 120) >= 1

Talks(d, cs, s)   == {i \in DOMAIN cs : cs[i].command \in Social /\ SocialUsable(d, s, cs[i])}
Blocked(d, cs, s) == {i \in Talks(d, cs, s) : cs[i].command = "conversation_start" /\ Cooling(s)}
Answers(d, cs, s) == {i \in Talks(d, cs, s) : cs[i].command \in Replies}

Lapses(d, cs, s) ==         \* the conversation that was chosen cannot be had now
    d.index \in Blocked(d, cs, s) \/ (Picked(d, cs) \in Social /\ d.index \notin Talks(d, cs, s))
GiveWayRank(command) ==
    CASE command \in Replies -> 0 [] command \in {"get_perception", "get_world_agents"} -> 1
      [] command = "action" -> 2 [] command = "move" -> 3 [] command = "wait" -> 4
      [] command = "get_map" -> 5 [] OTHER -> 6
GivesWayTo(d, cs, s) ==
    {i \in DOMAIN cs \ Blocked(d, cs, s) :
        i \in Talks(d, cs, s) \/ (cs[i].command \notin Social /\ cs[i].ready)}

Talking(d, cs, i) == [Picks(i) EXCEPT !.full = TRUE]

Others(s)  == s.agents \ {s.here}
Reaches(d, cs) == IF cs[d.index].node # None THEN cs[d.index].node ELSE d.node
Nearer(d, cs, s) ==
    LET moves == {i \in DOMAIN cs : cs[i].command = "move" /\ cs[i].ready /\ ~StaysPut(s, cs[i])}
    IN  {i \in Best([j \in moves |-> ToAgents(s, cs[j].node)]) :
            ToAgents(s, cs[i].node) < ToAgents(s, Reaches(d, cs))}

\* A choice that only passes the time, or a move to where she has just been, may give way.
Idles(d, cs, s) ==
    LET c == cs[d.index]
    IN  /\ \/ c.command \in Passive
           \/ c.command = "move" /\ c.node \notin Others(s) /\ (c.node = None \/ s.retraced)
        /\ c.command = "wait" \/ (recent # <<>> /\ Head(recent).command \in Passive)
Livelier(d, cs, s) ==
    LET open == {i \in DOMAIN cs \ Blocked(d, cs, s) :
                    cs[i].ready /\ cs[i].command \notin Passive /\ ~StaysPut(s, cs[i])}
        social == {i \in open : cs[i].command \in Social}
        toward == {i \in open : cs[i].node # None /\ cs[i].node \in Others(s)}
    IN  IF social # {} THEN social ELSE IF toward # {} THEN toward ELSE open

Preferred(d, cs, s) ==
    LET command == Picked(d, cs)
        looks   == ReadyFor(cs, "get_world_agents")
    IN  CASE d.index \notin DOMAIN cs -> {d}
          [] Lapses(d, cs, s) /\ GivesWayTo(d, cs, s) # {} ->
                 LET i == First(Best([j \in GivesWayTo(d, cs, s) |-> GiveWayRank(cs[j].command)]))
                 IN  {IF cs[i].command \in Social THEN Talking(d, cs, i) ELSE Own(cs, i)}
          [] command \notin Social /\ Answers(d, cs, s) # {} -> {Talking(d, cs, First(Answers(d, cs, s)))}
          [] /\ command \in Observes /\ s.followUp
             /\ Talks(d, cs, s) \ Blocked(d, cs, s) # {} ->
                 {Talking(d, cs, i) : i \in Talks(d, cs, s) \ Blocked(d, cs, s)}
          [] d.index \in Talks(d, cs, s) -> {[d EXCEPT !.full = TRUE]}
          [] command = "move" /\ Others(s) = {} /\ ~s.asked /\ looks # {} -> {Picks(First(looks))}
          [] command = "move" /\ Others(s) # {} /\ Reaches(d, cs) = None /\ Nearest(s) # None ->
                 {[Picks(d.index) EXCEPT !.node = Nearest(s)]}
          [] command = "move" /\ Others(s) # {} /\ Nearer(d, cs, s) # {} -> {Own(cs, First(Nearer(d, cs, s)))}
          [] Idles(d, cs, s) /\ Livelier(d, cs, s) # {} -> {Own(cs, i) : i \in Livelier(d, cs, s)}
          [] OTHER -> {d}

\* _force_action_required: something is done when nothing, a wait or a look was chosen.
Forced(cs, s, excluded) ==
    LET index == LET lively == BestActionable(cs, s, excluded, FALSE, FALSE)
                     asking == BestActionable(cs, s, excluded, TRUE, FALSE)
                 IN  CASE lively # 0 -> lively [] asking # 0 -> asking
                       [] OTHER -> BestActionable(cs, s, excluded, TRUE, TRUE)
        mine  == IF cs[index].command = "move" /\ cs[index].node = None
                 THEN [Own(cs, index) EXCEPT !.node = Nearest(s)] ELSE Own(cs, index)
        stalls(d) == \/ d.index = 0
                     \/ Picked(d, cs) = "wait"
                     \/ Picked(d, cs) \in Asks /\ SomethingToDo(cs)
    IN  UNION {Preferred(IF stalls(d) /\ index # 0 THEN mine ELSE d, cs, s) : d \in Deterministic(cs, s, excluded)}

-----------------------------------------------------------------------------
\* What becomes of the model's answer.

\* _apply_anti_repeat_rewrite: of a model's choice, only a loop is broken.
AntiRepeat(d, cs, s, trusted) ==
    LET command  == Picked(d, cs)
        again    == \/ Times(command, ShortWindow) >= IF trusted THEN ShortWindow ELSE ShortLimit
                    \/ ~trusted /\ command \in Avoided
        excluded == Worn(cs) \cup {i \in DOMAIN cs : cs[i].command = command}
        instead(r) == CASE r.index # 0        -> Preferred(r, cs, s)
                        [] SomethingToDo(cs)  -> Forced(cs, s, excluded)
                        [] OTHER              -> {Nothing}
    IN  IF d.index \in DOMAIN cs /\ again THEN UNION {instead(r) : r \in Deterministic(cs, s, excluded)} ELSE {d}

\* Mutant of Survival: earning comes before the price is looked at.
SurvivalUnpriced(d, cs, s, trusted) ==
    CASE Picked(d, cs) \in Reactive \/ trusted -> d
      [] MustEarn(s) /\ ActionIndex(cs) # 0      -> Earning(cs, s)
      [] OTHER                                   -> d

\* _apply_survival_prefer: nothing that cannot be paid for, and work when money is needed.
Survival(d, cs, s, trusted) ==
    LET act  == ActOf(d, cs)
        paid == ~BuysUnpaid(s, act)
        seek == FirstOf(cs, <<"get_action_details", "get_map">>)
    IN  CASE Picked(d, cs) \in Reactive /\ paid                       -> d
          [] ~paid /\ MustEarn(s) /\ ActionIndex(cs) # 0                -> Earning(cs, s)
          [] ~paid                                                      -> Nothing
          [] trusted \/ (MustEarn(s) /\ act = BestEarn(s))              -> d
          [] MustEarn(s) /\ ActionIndex(cs) # 0                         -> Earning(cs, s)
          [] NeedsIncome(s) /\ seek # 0 /\ Picked(d, cs) # cs[seek].command -> Picks(seek)
          [] OTHER                                                      -> d

\* _apply_avoid_unnecessary_work: no shift after shift when money is not needed.
AvoidWork(d, cs, s, trusted) ==
    LET drudgery == IF trusted THEN Comfortable(s) /\ WorkDone >= WorkLimit
                               ELSE Comfortable(s) \/ WorkDone >= 1
        treat    == s.money # None /\ Costs(s) # {} /\ s.money >= Prices[Cheapest(s)]
    IN  IF NeedsIncome(s) \/ ~Works(ActOf(d, cs)) \/ ~drudgery THEN {d}
        ELSE IF ActionIndex(cs) # 0 /\ treat THEN {[Picks(ActionIndex(cs)) EXCEPT !.act = Cheapest(s)]}
        ELSE Deterministic(cs, s, {i \in DOMAIN cs : cs[i].command = "action"})

\* _choose_action. A decision is trusted while it is the model's.
Stalls(d, cs) == (d.index = 0 \/ Picked(d, cs) = "wait") /\ SomethingToDo(cs)
Undo(D, trusted) == {[made |-> d, trusted |-> trusted] : d \in D}

Proposed(cs, s, given) ==
    IF given = None THEN Undo(Deterministic(cs, s, Worn(cs)), FALSE) ELSE {[made |-> given, trusted |-> TRUE]}
Answered(p, cs, s) ==
    CASE p.made.index # 0 -> {p}
      [] NeedsIncome(s) ->
             UNION {Undo(IF d.index = 0 /\ SomethingToDo(cs) THEN Forced(cs, s, Worn(cs)) ELSE {d}, p.trusted) :
                       d \in Deterministic(cs, s, Worn(cs))}
      [] OTHER -> IF SomethingToDo(cs) THEN Undo(Forced(cs, s, Worn(cs)), FALSE) ELSE {p}
Unstalled(p, cs, s) == IF Stalls(p.made, cs) THEN Undo(Forced(cs, s, Worn(cs)), FALSE) ELSE {p}
Enlivened(p, cs, s) ==
    IF p.trusted THEN {p}
    ELSE UNION {Unstalled([made |-> d, trusted |-> FALSE], cs, s) : d \in Preferred(p.made, cs, s)}
Varied(p, cs, s) == Undo(AntiRepeat(p.made, cs, s, p.trusted), p.trusted)
Sustained(p, cs, s) == AvoidWork(Survival(p.made, cs, s, p.trusted), cs, s, p.trusted)
Named(d, cs, s) ==
    CASE d.index \in DOMAIN cs \cup {0} -> {d}
      [] SomethingToDo(cs)              -> Forced(cs, s, Worn(cs))
      [] OTHER                          -> {Nothing}

Choose(cs, s, given) ==
    LET dozing == FirstOf(cs, <<"wait", "get_map">>)
        P1 == UNION {Answered(p, cs, s) : p \in Proposed(cs, s, given)}
        P2 == UNION {Enlivened(p, cs, s) : p \in P1}
        P3 == UNION {Varied(p, cs, s) : p \in P2}
        P4 == UNION {Unstalled(p, cs, s) : p \in P3}
        D  == UNION {Sustained(p, cs, s) : p \in P4}
    IN  CASE s.asleep -> IF dozing # 0 THEN {Picks(dozing)} ELSE Deterministic(cs, s, {})
          [] s.off    -> {Nothing}       \* the language model is switched off
          [] OTHER    -> UNION {Named(d, cs, s) : d \in D}

-----------------------------------------------------------------------------
\* What is done in the end: the choice with the parameters of the decision over its own. A move
\* has one target, and every required parameter is there; else another choice is looked for.

Complete(d, cs) ==
    LET c == cs[d.index] IN (c.ready \/ d.full) /\ (c.command = "move" => c.node # None \/ d.node # None)
Carried(d, cs) ==
    LET c == cs[d.index]
    IN  [command |-> c.command,
         node    |-> IF c.command # "move" THEN None ELSE IF d.node # None THEN d.node ELSE c.node,
         act     |-> IF c.command # "action" THEN None ELSE IF d.act # None THEN d.act ELSE c.act]

Resolved(d, cs, s) ==
    LET Other[excluded \in SUBSET DOMAIN cs] ==
            LET last == BestActionable(cs, s, excluded, TRUE, TRUE)
                try(i, r) == IF Complete(r, cs) THEN {r} ELSE Other[excluded \cup {i}]
                next(r) == IF r.index \in DOMAIN cs \ excluded THEN try(r.index, r)
                           ELSE IF last = 0 THEN {Nothing} ELSE try(last, Own(cs, last))
            IN  UNION {next(r) : r \in Forced(cs, s, excluded)}
    IN  IF Complete(d, cs) THEN {d} ELSE Other[{d.index}]

Outcomes(d, cs, s) ==
    LET again(r) == IF r.index = 0 \/ ~Complete(r, cs) THEN None ELSE Carried(r, cs)
        send(r)  == CASE r.index = 0 -> {None}
                      [] /\ Carried(r, cs).command = "move" /\ s.here # None
                         /\ Carried(r, cs).node = s.here ->
                             {again(o) : o \in Deterministic(cs, s, {r.index})}
                      [] OTHER -> {Carried(r, cs)}
    IN  IF d.index = 0 THEN {None} ELSE UNION {send(r) : r \in Resolved(d, cs, s)}

\* What the model may answer: any choice, with or without parameters, no choice, or one that
\* there is not.
Proposals(cs, s) ==
    {None, Nothing, Picks(Len(cs) + 1)} \cup
    {[index |-> i, node |-> n, act |-> a, full |-> f] :
        i \in DOMAIN cs, n \in {None} \cup (IF "move" \in Offered(cs) THEN s.agents ELSE {}),
        a \in {None} \cup (IF "action" \in Offered(cs) THEN s.menu ELSE {}), f \in BOOLEAN}

\* A notification is decided on and the command sent, ...
KarakuriDecide ==
    /\ faced = None
    /\ \E n \in Offers : \E given \in Proposals(n.choices, n.when) :
           \E d \in Choose(n.choices, n.when, given) : \E what \in Outcomes(d, n.choices, n.when) :
               faced' = n /\ answer' = given /\ decided' = d /\ done' = what
    /\ UNCHANGED recent

\* ... and what the world accepts is remembered: a decision for nothing, or one that is refused,
\* leaves the recent turns as they are.  Whether a turn was work is told from the words of its
\* reason: those of the rules for work speak of it, and so do those for a meal instead.
KarakuriMark ==
    /\ faced # None
    /\ faced' = None /\ answer' = None /\ decided' = Nothing /\ done' = None
    /\ \E accepted, labour \in BOOLEAN :
           /\ decided.act # None /\ answer # decided => labour
           /\ recent' = IF done = None \/ ~accepted THEN recent
                        ELSE SubSeq(<<[command |-> done.command, labour |-> labour]>> \o recent, 1,
                                    IF Len(recent) < LongWindow THEN Len(recent) + 1 ELSE LongWindow)

DecisionInit ==
    /\ recent = <<>> /\ faced = None /\ answer = None /\ decided = Nothing /\ done = None
DecisionNext == KarakuriDecide \/ KarakuriMark
DecisionSpec == DecisionInit /\ [][DecisionNext]_decisionVars
-----------------------------------------------------------------------------
\* The answer names a choice that is there, with all its parameters.
Sensible == answer # None /\ answer.index \in DOMAIN faced.choices /\ Complete(answer, faced.choices)
Going    == faced # None /\ ~faced.when.asleep /\ ~faced.when.off

\* What is known to cost more than she has is not bought, "never execute a purchase the agent
\* cannot pay for" (line 2886), if the decision could be carried out as it was made: the rules
\* that replace a choice which is not there, lacks parameters or leads where she is do not look
\* at prices.
PurchasesArePaid ==
    Going /\ done # None /\ (answer # None => answer.index \in DOMAIN faced.choices \cup {0})
          /\ (decided.index # 0 => done = Carried(decided, faced.choices)) =>
        ~BuysUnpaid(faced.when, done.act)

\* "When IQ2 decided successfully, keep its choice. Guards only hard-stop impossible or
\* extreme-loop actions" (line 1465): the model's choice stands unless it waits where something
\* can be done, cannot be paid for, or repeats itself or works on and on.
ModelIsKept ==
    Going /\ Sensible /\ done # None =>
        LET cs == faced.choices
            s  == faced.when
        IN  \/ done = Carried(answer, cs)
            \/ Stalls(answer, cs) \/ BuysUnpaid(s, ActOf(answer, cs))
            \/ Times(Picked(answer, cs), ShortWindow) >= ShortWindow
            \/ Comfortable(s) /\ WorkDone >= WorkLimit /\ Works(ActOf(answer, cs))
            \/ Carried(answer, cs).command = "move" /\ Carried(answer, cs).node = s.here

\* Where something can be done, "a real act when null/wait would stall autonomy" (line 1996) is
\* found, unless every command for it is worn out, what was to be done cannot be paid for or is
\* work she need not do, or it only leads where she is or where she cannot go.
NeverStalls ==
    Going /\ SomethingToDo(faced.choices) /\ (done = None \/ done.command = "wait") =>
        LET acts == {c \in Range(faced.choices) : Actionable(c)}
        IN  \/ answer # None /\ BuysUnpaid(faced.when, ActOf(answer, faced.choices))
            \/ \A c \in acts : c.command \in Avoided
            \/ \E c \in acts :
                  \/ StaysPut(faced.when, c) \/ ~Reachable(faced.when, c)
                  \/ c.command = "action" /\ (BuysUnpaid(faced.when, c.act) \/ Works(c.act))
                  \/ c.command = "conversation_start" /\ Cooling(faced.when)

\* Asleep she keeps still whenever that is offered, and the model is not asked.
SleepIsQuiet ==
    faced # None /\ faced.when.asleep /\ FirstOf(faced.choices, <<"wait", "get_map">>) # 0 =>
        done # None /\ done.command \in Passive
=============================================================================
