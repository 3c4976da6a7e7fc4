----------------------------- MODULE MCPolicies -----------------------------
(***************************************************************************)
(* The parts that are sequential, or that one lock serves, the turns and   *)
(* rules of a room, one at a time: a behaviour is of one part, and the     *)
(* others stay as they began.                                              *)
(***************************************************************************)
EXTENDS ModelBroker, LiteRTSession, KarakuriNotices, Reconciliation, PortableGrid,
        KarakuriDecision, PortableGrounding, ArrivalEvidence, VisualPerception, AutonomyPlan,
        PortableFrames, AutonomyLoop, Initiative, SpeechGateways, LifeTick, PrivateTurns,
        SocialTurns, CommunityRules, WorldProofs, TurnProofs, TLC

CONSTANTS c1, v1, r1, r2, r3, s1, s2, n1, n2, d1, d2, d3, m1, m2, room, e1, e2, o1, o2, a1, a2,
          a3, yes1

VARIABLE part  \* the part a behaviour is of

\* broker: a chat, a scene request and close() on one broker.
MCChats == {c1}
MCScenes == {v1}

\* turns: two turns of one session and one of another.
MCTurnIds == {r1, r2, r3}
MCSessions == {s1, s2}
MCSessionOf == r1 :> s1 @@ r2 :> s1 @@ r3 :> s2

\* notice: two notifications, by webhook and by their channel.
MCNotices == {n1, n2}

\* session: two deliveries of one message and one of another.
MCDeliveries == {d1, d2, d3}
MCMessages == {m1, m2}

\* state: rival claims about one key that differ in version, authority, time or value.
Claimed(version, profile, source, value, observed, stale) ==
    [key |-> room, version |-> version, profile |-> profile, source |-> source, value |-> value,
     observed |-> observed, stale |-> stale]
MCClaims == {Claimed(1, "spatial_fact", "godot_engine", "a", 0, FALSE), Claimed(1, "spatial_fact", "godot_engine", "b", 1, FALSE),
             Claimed(1, "spatial_fact", "godot_engine", "c", 1, FALSE), Claimed(1, "spatial_fact", "stt_result", "b", 0, FALSE),
             Claimed(1, "user_intent", "user_action", "a", 0, FALSE), Claimed(2, "spatial_fact", "user_action", "a", 1, FALSE),
             Claimed(2, "spatial_fact", "user_action", "a", 1, TRUE),
             Claimed(2, "spatial_fact", "perception_inference", "b", 0, FALSE),
             Claimed(2, "spatial_fact", "stt_result", "b", 2, FALSE)}
MCLifetime == [godot_engine |-> 1, user_action |-> 2, stt_result |-> 2, perception_inference |-> 1]

\* walk: segments between the points of three cells by three, half a cell apart.
MCPoints == 0..6

\* search: every map of four cells by three, from a corner to a target with two points of its surface in two others.
MCStart == {<<0, 0>>}
MCTarget == {{<<3, 2>>, <<0, 2>>}}
MCReach == {1}

\* choice: offers to talk, walk, act or wait, with and without money, awake and asleep.
Choice(command, node, act, isReady) == [command |-> command, node |-> node, act |-> act, ready |-> isReady]
InHall(money, menu, agents, talks, calls, sleeping) ==
    [here |-> <<"hall", 0>>, money |-> money, menu |-> menu, agents |-> agents, asked |-> FALSE, partner |-> talks,
     calls |-> calls, followUp |-> talks, retraced |-> TRUE, asleep |-> sleeping, off |-> FALSE]
MCOffers ==
    {[choices |-> <<Choice("conversation_speak", None, None, FALSE), Choice("wait", None, None, TRUE),
                    Choice("action", None, "eat", TRUE)>>,
      when |-> InHall(1, {"eat"}, {}, FALSE, <<>>, FALSE)],
     [choices |-> <<Choice("conversation_start", None, None, FALSE), Choice("move", <<"hall", 1>>, None, TRUE),
                    Choice("get_world_agents", None, None, TRUE)>>,
      when |-> InHall(1, {"eat", "work"}, {<<"hall", 2>>}, TRUE, <<20, 40>>, FALSE)],
     [choices |-> <<Choice("move", None, None, TRUE), Choice("move", <<"hall", 0>>, None, TRUE),
                    Choice("action", None, "eat", TRUE)>>,
      when |-> InHall(6, {"eat", "work"}, {<<"hall", 2>>}, TRUE, <<>>, FALSE)],
     [choices |-> <<Choice("action", None, "rest", TRUE), Choice("wait", None, None, TRUE)>>,
      when |-> InHall(None, {}, {}, FALSE, <<>>, FALSE)],
     [choices |-> <<Choice("action", None, "work", TRUE), Choice("wait", None, None, TRUE)>>,
      when |-> InHall(1, {"eat", "work"}, {}, FALSE, <<>>, TRUE)]}
MCPrices == [eat |-> 2, rest |-> 0, work |-> -2]

\* ground: a wide box across a body, its twin and the ground, with something before its middle.
Ray(i, uv, depth, what, role) == [index |-> i, uv |-> uv, depth |-> depth, sure |-> 4, id |-> what, role |-> role]
Body(i, uv)  == Ray(i, uv, 5, "body", "navigation_obstacle")
Twin(i, uv)  == Ray(i, uv, 6, "twin", "navigation_obstacle")
Cover(i, uv) == Ray(i, uv, 2, "cover", "navigation_obstacle")
Floor(i, uv) == Ray(i, uv, 7, "floor", "walkable_ground")
Back(i, uv)  == Ray(i, uv, 8, "body", "navigation_obstacle")
MCCaptures ==
    {[camera |-> 0,
      rays |-> {IF u \in twins THEN Twin(u, <<u, 0>>) ELSE IF u \in covered THEN Cover(u, <<u, 0>>) ELSE Body(u, <<u, 0>>) : u \in 0..6}
                  \cup CASE below = "floor" -> {Floor(10 + u, <<u, 2>>) : u \in {0, 1, 5, 6}}
                         [] below = "back"  -> {Back(10 + u, <<u, 2>>) : u \in {0, 1, 5, 6}}
                         [] OTHER -> {}] :
        twins \in SUBSET {0, 1, 5}, covered \in {{}, {2}, {2, 3}, {3, 4}, {2, 3, 4}}, below \in {"floor", "back", "nothing"}}
Sought(box, before, role, prior) == [box |-> box, occluders |-> before, expects |-> role, prior |-> prior]
MCGroundings ==
    LET wide == <<0, 0, 6, 2>>
        prior(id, role) == [points |-> {5}, within |-> 1, id |-> id, role |-> role]
    IN {Sought(wide, {<<2, 0, 4, 2>>}, "navigation_obstacle", None), Sought(wide, {<<2, 0, 4, 2>>}, None, None),
        Sought(wide, {}, None, None), Sought(<<4, 0, 6, 2>>, {}, None, None),
        Sought(wide, {}, None, prior("body", "navigation_obstacle")), Sought(wide, {}, None, prior(None, None))}

\* arrival: a sofa beside another body, seen whole, in parts, and from its far end.
MCBodies == {"sofa", "other", "floor"}
MCPlaces == "sofa" :> 10 @@ "other" :> 17 @@ "floor" :> 24
Part(b, off) == [body |-> b, off |-> off]
Sofa(offs) == [i \in DOMAIN offs |-> Part("sofa", offs[i])]
Whole  == Sofa(<<0, 2, 3, 3, 3>>) \o <<Part("other", 0), Part("floor", 0)>>
Deep   == Sofa(<<0, 0, 3, 3, 2, 2>>) \o <<Part("floor", 0)>>
FarEnd == Sofa(<<3, 3, 3, 3>>) \o <<Part("other", 0), Part("other", 0), Part("floor", 0)>>
MCViews == {Whole, Deep, FarEnd}
Row(i, what, color, box) == [id |-> i, kind |-> what, color |-> color, box |-> box]
Answer(rows, i) == [visible |-> TRUE, sure |-> TRUE, quiet |-> FALSE, rows |-> rows, target |-> CHOOSE r \in rows : r.id = i]
MCTargetBox == <<1, 0, 7, 2>>
MCDetections ==
    {Answer({Row(0, "sofa", color, MCTargetBox), Row(1, "cup", "red", <<2, 0, 3, 2>>)}, 0) : color \in {"purple", "red"}} \cup
    {Answer({Row(0, "sofa", "purple", <<1, 0, 4, 2>>), Row(1, "cushion", "purple", <<4, 0, 6, 2>>)}, 0),
     Answer({Row(0, "sofa", "purple", <<4, 0, 6, 2>>)}, 0),
     [visible |-> FALSE, sure |-> FALSE, quiet |-> TRUE, target |-> None,
      rows |-> {Row(0, "sofa", "pink", <<1, 0, 3, 2>>), Row(1, "sofa", "purple", <<2, 0, 5, 2>>), Row(2, "cup", "red", <<2, 0, 4, 2>>)}],
     [visible |-> FALSE, sure |-> FALSE, quiet |-> TRUE, target |-> None,
      rows |-> {Row(0, "sofa", "pink", <<1, 0, 2, 2>>), Row(1, "sofa", "purple", <<3, 0, 5, 2>>)}]}
MCStops == {1, 4}
MCPlans == {5 :> a @@ 8 :> b : a, b \in {"route", "no_safe_arrival", "disconnected"}}

\* eye: sofas and lamps, two at a time, alone, dropped, contradictory and uncertain.
Purple == <<"purple", None>>
LightPurple == <<"purple", "light">>
DarkPurple == <<"purple", "dark">>
Red == <<"red", None>>
Seen1(id, what, color, l, r) == [id |-> id, kind |-> what, says |-> None, plain |-> TRUE, color |-> color, box |-> <<l, r>>]
FirstRows == {Seen1(1, "sofa", Purple, 0, 4), Seen1(1, "sofa", LightPurple, 4, 7), Seen1(1, "lamp", Red, 0, 4)}
OtherRows ==
    {Seen1(2, what, color, at[1], at[2]) :
        what \in {"sofa", "lamp"}, color \in {DarkPurple, Red}, at \in {<<4, 7>>, <<6, 10>>, <<5, 5>>}} \cup
    {[Seen1(2, "sofa", Purple, 6, 10) EXCEPT !.plain = FALSE],
     [Seen1(2, "sofa", Red, 6, 10) EXCEPT !.says = Purple],
     [Seen1(2, "sofa", Red, 6, 6) EXCEPT !.plain = FALSE],
     Seen1(2, "lamp", None, 6, 10), Seen1(2, "chair", Red, 0, 9)}
MCInventories ==
    {{}} \cup {{o} : o \in FirstRows} \cup {{o, p} : o \in FirstRows, p \in OtherRows} \cup
    {{o, Seen1(2, "sofa", Purple, 5, 9), Seen1(3, "sofa", Red, 1, 4)} : o \in FirstRows}
Plain(lang, noun) ==
    [lang |-> lang, nouns |-> {noun}, colors |-> {}, sides |-> {}, act |-> "approach", question |-> FALSE,
     polite |-> FALSE, bare |-> TRUE, negated |-> FALSE, vague |-> FALSE, form |-> "free"]
MCWishes ==
    {[Plain("ja", "sofa") EXCEPT !.colors = c, !.sides = s] :
        c \in {{}, {Purple}}, s \in {{}, {"left"}, {"right"}, {"center"}}} \cup
    {[Plain("ja", "sofa") EXCEPT !.act = a, !.question = TRUE, !.polite = p] : a \in {"approach", "observe"}, p \in BOOLEAN} \cup
    {[Plain("ja", "sofa") EXCEPT !.nouns = @ \cup {n}, !.bare = FALSE] : n \in {"sofa", "chair", "lamp"}} \cup
    {[Plain("en", n) EXCEPT !.colors = {LightPurple}, !.form = "descriptor"] : n \in {"sofa", "lamp"}} \cup
    {[Plain("en", n) EXCEPT !.form = "category"] : n \in {"sofa", "lamp"}} \cup
    {[Plain("ja", "lamp") EXCEPT !.act = a, !.sides = s] : a \in {"approach", "observe"}, s \in {{}, {"left"}}} \cup
    {[Plain("en", "lamp") EXCEPT !.negated = TRUE], [Plain("ja", "lamp") EXCEPT !.vague = TRUE]}
MCSelections ==
    {[row |-> i, intent |-> a, category |-> n, certain |-> TRUE, copied |-> TRUE] :
        i \in 1..2, a \in {"approach", "observe"}, n \in {"sofa", "lamp"}} \cup
    {[row |-> 1, intent |-> "approach", category |-> "lamp", certain |-> b, copied |-> ~b] : b \in BOOLEAN} \cup
    {[row |-> None, intent |-> a, category |-> None, certain |-> b, copied |-> TRUE] : a \in {"approach", "none"}, b \in BOOLEAN}
MCVerifications ==
    {[certain |-> TRUE, span |-> n, translated |-> m] : n, m \in {"sofa", "lamp"}} \cup
    {[certain |-> FALSE, span |-> "lamp", translated |-> "lamp"]}

\* grid: obstacles and rays on a map of seven cells by six, and ways around them.
Hit(x, y, o) == [at |-> <<x, y>>, obstacle |-> o]
Eye(x, y, hits) == [camera |-> <<x, y>>, hits |-> hits]
Sweep == {Hit(x, y, FALSE) : x \in {6, 9, 13, 17, 21, 25}, y \in {5, 9, 13, 17, 19}}
MCTerrains ==
    {[obstacles |-> obs, capture |-> cap] :
        obs \in {{}, {[kind |-> "circle", centre |-> <<13, 11>>, radius |-> 2]}, {[kind |-> "aabb", centre |-> <<11, 7>>, half |-> <<2, 1>>]}},
        cap \in {None, Eye(2, 10, {Hit(14, 6, TRUE), Hit(21, 5, FALSE), Hit(10, 10, FALSE)})}} \cup
    {[obstacles |-> None, capture |-> Eye(x, 10, hits)] :
        x \in {2, -2}, hits \in {Sweep, Sweep \cup {Hit(14, 10, TRUE)}, Sweep \cup {Hit(13, 9, TRUE), Hit(26, 10, TRUE)}}}
MCWays ==
    {<<<<6, 6>>, <<6, 14>>, <<18, 14>>, <<18, 6>>>>, <<<<6, 14>>, <<10, 14>>, <<14, 14>>, <<18, 10>>>>,
     <<<<6, 6>>, <<10, 6>>, <<14, 6>>, <<18, 6>>>>, <<<<6, 6>>, <<10, 10>>, <<10, 14>>, <<15, 13>>>>,
     <<<<5, 5>>, <<18, 14>>>>, <<<<6, 10>>>>, <<<<6, 14>>, <<30, 14>>>>,
     <<<<10, 10>>, <<14, 10>>>>, <<<<6, 6>>, <<6, 10>>, <<6, 14>>, <<6, 18>>, <<14, 18>>, <<22, 18>>>>,
     <<<<6, 6>>, <<6, 10>>, <<6, 14>>, <<10, 14>>, <<14, 14>>>>,
     <<<<6, 6>>, <<9, 9>>, <<14, 14>>>>}
MCEnds == {<<18, 8>>, <<14, 13>>, <<14, 10>>, <<22, 18>>}

\* plan: what the model may answer when a visitor stands far, near or too near.
Tried(act, at, key, score) == [act |-> act, target |-> at, steps |-> <<>>, key |-> key, score |-> score]
InSteps(steps, score) == [act |-> "act_sequence", target |-> None, steps |-> steps, key |-> None, score |-> score]
MCLiking ==
    [walk_to |-> 16, sit |-> 14, stand |-> 20, look_at |-> 18, speak |-> 21, wait |-> 6, set_mood |-> 5,
     look_around |-> 19, approach_user |-> 24, idle_gesture |-> 9, demo |-> 3]
Allowing(move, speak, demo) == [move |-> move, speak |-> speak, demo |-> demo]
MCAt(allow, distance, near, how, restless) ==
    [allow |-> allow, distance |-> distance, near |-> near, mode |-> how, sitting |-> restless,
     last |-> IF restless THEN <<"speak", None>> ELSE None,
     journal |-> IF restless THEN <<SimpleIntent("speak", None), SimpleIntent("walk_to", "sofa"), SimpleIntent("walk_to", "table")>>
                 ELSE <<SimpleIntent("walk_to", "table"), SimpleIntent("wait", None)>>,
     social |-> IF restless THEN 14 ELSE 18, tired |-> ~restless, curious |-> restless]
MCSituations ==
    {MCAt(Allowing(m, s, d), x, near, how, r) :
        m \in BOOLEAN, s \in BOOLEAN, d \in BOOLEAN, x \in {None, 5, 9, 12, 30}, near \in {{}, {"sofa", "table"}},
        how \in {"auto", "speech", "off"}, r \in BOOLEAN}
MCProposals ==
    {Tried(None, "self", <<"look_at", None>>, 15)} \cup
    {Tried(a, t, None, 15) : a \in {"walk_to", "sit", "look_at"}, t \in {None, "user", "self", "sofa", "table"}} \cup
    {Tried(a, None, None, 12) : a \in {"stand", "speak", "approach_user", "look_around", "idle_gesture", "dance"}} \cup
    {Tried("demo", r, None, 9) : r \in {"presence_cycle", "somersault"}} \cup
    {Tried(a, t, <<"sit", "sofa">>, 13) : a \in {None, "walk_to"}, t \in {None, "table"}} \cup
    {InSteps(<<SimpleIntent("look_at", "self"), SimpleIntent("walk_to", "user"), SimpleIntent("speak", None)>>, 22),
     InSteps(<<SimpleIntent("speak", None), SimpleIntent("speak", None)>>, 30),
     InSteps(<<SimpleIntent("sit", "sofa"), SimpleIntent("idle_gesture", None)>>, 17),
     InSteps(<<SimpleIntent("wait", None), SimpleIntent("look_around", None), SimpleIntent("wait", None),
               SimpleIntent("look_around", None), SimpleIntent("wait", None), SimpleIntent("demo", "presence_cycle")>>, 14)}
MCPlanAnswers ==
    {{}} \cup {{p} : p \in MCProposals} \cup
    {{Tried("walk_to", "user", None, 20), Tried("approach_user", None, None, 12), Tried("look_at", None, None, 3)}}

\* frame: two frames that reuse an id, a room that is served late, early or by a clock ahead.
RayOf(spot, what, kind) == [at |-> spot, surface |-> what, role |-> kind]
EyeSees(lens, rays, things, right) == [camera |-> lens, depth |-> rays, objects |-> things, attested |-> right]
Thing(spot, cover) == [at |-> spot, iou |-> cover]
MCWithDepth == EyeSees(1, {RayOf("p", "s1", "physical_surface"), RayOf("q", "s2", None)}, {Thing("q", 90)}, TRUE)
MCNoDepth   == EyeSees(1, None, {Thing("p", 40), Thing("q", 48), Thing("r", 11)}, TRUE)
MCLong ==
    [bounds |-> [minX |-> -9, maxX |-> 17, minZ |-> -12, maxZ |-> 11], radius |-> 1, agent |-> 0,
     obstacles |-> {[kind |-> "rect", centre |-> [x |-> 3, z |-> -2], half |-> [x |-> 5, z |-> 1]]}]
MCSquare ==
    [bounds |-> [minX |-> -14, maxX |-> 14, minZ |-> -14, maxZ |-> 14], radius |-> 2, agent |-> 1,
     obstacles |-> {[kind |-> "circle", centre |-> [x |-> 5, z |-> -3], radius |-> 3],
                    [kind |-> "rect", centre |-> [x |-> -30, z |-> 6], half |-> [x |-> 2, z |-> 4]]}]
MCShot(v, inside, n, early) == [view |-> v, layout |-> inside, native |-> 1, of |-> n, ahead |-> early]
MCShots ==
    {MCShot(MCWithDepth, None, 1, 1), MCShot(MCWithDepth, MCLong, 1, -2), MCShot(MCNoDepth, None, 1, 1),
     MCShot(MCNoDepth, MCSquare, 2, 0)}
MCRooms == {[layout |-> MCSquare, ahead |-> 0]}

\* loop: wishes of a user, a venue and the role that outbid one another, and samples of two actions.
Wish(kind, weight, soon) == [type |-> kind, priority |-> weight, short |-> soon, stale |-> FALSE]
MCRoleGoals ==
    {Wish("maintain_role", 10, FALSE) @@ [allowed |-> {"maintain_role", "guide_user", "manage_venue_flow", "external_purchase"}],
     Wish("maintain_role", 10, TRUE) @@ [allowed |-> {"maintain_role"}]}
MCUserGoals ==
    {None} \cup {Wish("guide_user", weight, FALSE) @@ [owner |-> o1, explicit |-> weight = 1] : weight \in {1, 90}} \cup
    {Wish("external_purchase", 50, TRUE) @@ [owner |-> o2, explicit |-> TRUE]}
MCVenueGoals == {None, Wish("manage_venue_flow", 100, TRUE), [Wish("manage_venue_flow", 0, FALSE) EXCEPT !.stale = TRUE]}
MCCircumstances ==
    {[signals |-> s, lapse |-> None] : s \in {{}, {"emergency_stop", "user_cancel"}, {"role_revoked"}, {"resume_ready"}, {"interrupt_request"}}} \cup
    {[signals |-> {}, lapse |-> l] : l \in {"world", "outer", "relationship"}}
MCLoopOrders ==
    {[plan |-> None, mode |-> "execute_local", right |-> "local"], [plan |-> None, mode |-> "execute_local", right |-> None],
     [plan |-> <<"local", "other">>, mode |-> "execute_local", right |-> "local"]}

\* first: a user who lets her speak first, and a boundary, quiet hours and a promise that are set, doubted and corrected.
Saying(kind, what, op, value, standing, certain) ==
    [category |-> kind, key |-> what, op |-> op, value |-> value, state |-> standing, sure |-> certain]
MCQuietSpans == [late |-> [from |-> 2, until |-> 1], early |-> [from |-> 0, until |-> 2]]
AtFirst(what) == what @@ [at |-> 0, names |-> {}, target |-> None]
MCBeginning ==
    <<AtFirst(Saying("preference", "proactive_policy", "set", "allow", "confirmation", TRUE)),
      AtFirst(Saying("boundary", "no_voice_interruptions", "enforce", "yes", "prior", TRUE)),
      AtFirst(Saying("promise", "song", "open", "sing", "observation", TRUE))>>
MCSayings ==
    {Saying("preference", "proactive_policy", "correct", "important_only", "correction", TRUE),
     Saying("preference", "quiet_hours_local", "set", "late", "confirmation", TRUE),
     Saying("boundary", "no_voice_interruptions", "enforce", "yes", "correction", TRUE),
     Saying("boundary", "no_voice_interruptions", "relax", "no", "correction", TRUE),
     Saying("promise", "song", "fulfill", "sing", "correction", TRUE),
     Saying("promise", "song", "breach", "sing", "observation", TRUE)}
Offer(kind, grave, loud) ==
    [type |-> kind, critical |-> grave, important |-> grave, voice |-> loud, validated |-> grave, permitted |-> TRUE,
     disengaged |-> FALSE, due |-> TRUE, evident |-> TRUE]
MCFirstOffers == {Offer("assistance", FALSE, TRUE), Offer("reminder", TRUE, FALSE), Offer("safety_alert", TRUE, TRUE)}

\* hear: two callers that ask for different languages, with chatty, short, faint, empty and speechless clips.
Uttered(token, size, jp, loud) == [word |-> token, length |-> size, japanese |-> jp, voice |-> loud]
MCChatty == <<Uttered("kyou", 1, TRUE, TRUE), Uttered("", 1, FALSE, FALSE), Uttered("wa", 1, TRUE, TRUE),
              Uttered("hello", 2, FALSE, TRUE)>>
MCBrief == <<Uttered("ano", 1, TRUE, TRUE), Uttered("eto", 1, TRUE, FALSE)>>
MCNoisy == <<Uttered("", 2, FALSE, TRUE), Uttered("psst", 1, FALSE, FALSE)>>
Recorded(wrong, tongue, sounds) == [flaws |-> wrong, language |-> tongue, clip |-> sounds]
MCRecordings == {Recorded({}, "ja", MCChatty), Recorded({}, None, MCBrief),
                 Recorded({}, "en", MCNoisy), Recorded({}, "ja", <<Uttered("shh", 1, TRUE, FALSE)>>),
                 Recorded({}, "en", <<>>), Recorded({"other_rate", "bad_language"}, "xx", MCBrief)}

\* say: two speakers and texts that end at, before and after the limit; the files come late.
MCOrders ==
    {[kind |-> "whole", text |-> <<" ", "a", ",", "a", "a", ".", "a">>],
     [kind |-> "stream", text |-> <<"a", "a", " ", " ", "a", "a", "a", ",", ".">>],
     [kind |-> "stream", text |-> None], [kind |-> "whole", text |-> <<" ", " ">>], [kind |-> "health", text |-> <<"a">>]}

\* life: a model that says the same, wants what it does not see, or names a node; pictures that grow old.
Raw(what, words, aim, byNode) == [action |-> what, text |-> words, target |-> aim, native |-> byNode]
MCRawPlans == {Raw("speak", "hello", None, FALSE), Raw("look", None, "red ball", FALSE), Raw("look", None, "blue cup", TRUE)}
MCUtterances == {"hi"}
MCSightRows == {<<"red ball">>, <<"blue cup", None>>}

\* private: two people in one conversation, of whom one always speaks in private and the other now and then.
TurnOf(who, conv, scope, ask, size) == [who |-> who, conv |-> conv, scope |-> scope, ask |-> ask, size |-> size]
MCQuestions == {TurnOf("ann", "den", "session_only", "talk", 1), TurnOf("bob", "den", "session_only", "name", 4),
                TurnOf("bob", "den", "default", "name", 1)}
MCRawAnswers == {"brand", "claim"}

\* room: three people and one consent.
MCParticipants == {a1, a2, a3}
MCConsents == {yes1}

\* rules: a member with three tokens, of which one expires, and a guest with one; one of them may be speaking.
MCGuests == {"gia", "hal"}
Badge(id, who, role, until) ==
    [id |-> id, who |-> [subject |-> who, role |-> role, may |-> {"action", "memory"}], operation |-> "action",
     at |-> 0, until |-> until]
MCBadges == {Badge(1, "gia", "member", 2), Badge(2, "hal", "guest", 2), Badge(3, "gia", "member", 2),
             Badge(4, "gia", "member", 1)}
MCRolePolicy == [roles |-> {"member"}, needs |-> {"action"}, allowed |-> {"inform"}, forbidden |-> {"publish"},
                 handoffs |-> {"crisis"}, exits |-> {"user_exit"}]
MCRoleIntents == {"inform", "exit_role"}
MCRoleTriggers == {None, "user_exit"}
MCCategories == [insult |-> {"warn", "mute"}]
MCRequestNames == {1, 2}
MCIncidentNames == {1}
MCAppealNames == {1}

Parts == {"broker", "turns", "notice", "session", "state", "walk", "search", "choice", "ground",
          "arrival", "eye", "grid", "plan", "frame", "loop", "first", "hear", "say", "life",
          "private", "room", "rules"}

partsVars == <<part, brokerVars, turnVars, deliveryVars, karakuriVars, reconcilerVars,
                  traversalVars, searchVars, decisionVars, groundingVars, evidenceVars,
                  perceptionVars, gridVars, planVars, framesVars, loopVars, initiativeVars,
                  sttVars, ttsVars, lifeVars, chatVars, socialVars, rulesVars>>

\* A part that may begin in several ways begins in one of them in the behaviours of the others.
PartsInit ==
    /\ part \in Parts
    /\ IF part = "notice" THEN TRUE ELSE byWebhook = FALSE
    /\ IF part = "walk" THEN TRUE ELSE from = <<0, 0>> /\ to = <<0, 0>>
    /\ IF part = "search" THEN TRUE ELSE free = {}
    /\ IF part = "rules" THEN TRUE ELSE talking = None
    /\ BrokerInit /\ SessionInit /\ DeliveryInit /\ KarakuriInit /\ ReconcilerInit
    /\ TraversalInit /\ SearchInit /\ DecisionInit /\ GroundingInit /\ EvidenceInit
    /\ PerceptionInit /\ GridInit /\ PlanInit /\ FramesInit /\ GoalInit /\ WatchInit
    /\ InitiativeInit /\ TranscriptionInit /\ SynthesisInit /\ LifeInit /\ ChatInit
    /\ SocialInit /\ RulesInit

OthersRest ==
    /\ UNCHANGED part
    /\ IF part = "broker" THEN TRUE ELSE UNCHANGED brokerVars
    /\ IF part = "turns" THEN TRUE ELSE UNCHANGED turnVars
    /\ IF part = "notice" THEN TRUE ELSE UNCHANGED deliveryVars
    /\ IF part = "session" THEN TRUE ELSE UNCHANGED karakuriVars
    /\ IF part = "state" THEN TRUE ELSE UNCHANGED reconcilerVars
    /\ IF part = "walk" THEN TRUE ELSE UNCHANGED traversalVars
    /\ IF part = "search" THEN TRUE ELSE UNCHANGED searchVars
    /\ IF part = "choice" THEN TRUE ELSE UNCHANGED decisionVars
    /\ IF part = "ground" THEN TRUE ELSE UNCHANGED groundingVars
    /\ IF part = "arrival" THEN TRUE ELSE UNCHANGED evidenceVars
    /\ IF part = "eye" THEN TRUE ELSE UNCHANGED perceptionVars
    /\ IF part = "grid" THEN TRUE ELSE UNCHANGED gridVars
    /\ IF part = "plan" THEN TRUE ELSE UNCHANGED planVars
    /\ IF part = "frame" THEN TRUE ELSE UNCHANGED framesVars
    /\ IF part = "loop" THEN TRUE ELSE UNCHANGED loopVars
    /\ IF part = "first" THEN TRUE ELSE UNCHANGED initiativeVars
    /\ IF part = "hear" THEN TRUE ELSE UNCHANGED sttVars
    /\ IF part = "say" THEN TRUE ELSE UNCHANGED ttsVars
    /\ IF part = "life" THEN TRUE ELSE UNCHANGED lifeVars
    /\ IF part = "private" THEN TRUE ELSE UNCHANGED chatVars
    /\ IF part = "room" THEN TRUE ELSE UNCHANGED socialVars
    /\ IF part = "rules" THEN TRUE ELSE UNCHANGED rulesVars

PartsNext ==
    \/ part = "broker" /\ OthersRest /\ BrokerNext
    \/ part = "turns" /\ OthersRest /\ SessionNext
    \/ part = "notice" /\ OthersRest /\ DeliveryNext
    \/ part = "session" /\ OthersRest /\ KarakuriNext
    \/ part = "state" /\ OthersRest /\ ReconcilerNext
    \/ part = "walk" /\ OthersRest /\ TraversalNext
    \/ part = "search" /\ OthersRest /\ SearchNext
    \/ part = "choice" /\ OthersRest /\ DecisionNext
    \/ part = "ground" /\ OthersRest /\ GroundingNext
    \/ part = "arrival" /\ OthersRest /\ EvidenceNext
    \/ part = "eye" /\ OthersRest /\ PerceptionNext
    \/ part = "grid" /\ OthersRest /\ GridNext
    \/ part = "plan" /\ OthersRest /\ PlanNext
    \/ part = "frame" /\ OthersRest /\ FramesNext
    \/ part = "loop" /\ OthersRest /\ LoopNext
    \/ part = "first" /\ OthersRest /\ InitiativeNext
    \/ part = "hear" /\ OthersRest /\ TranscriptionNext
    \/ part = "say" /\ OthersRest /\ SynthesisNext
    \/ part = "life" /\ OthersRest /\ LifeNext
    \/ part = "private" /\ OthersRest /\ ChatNext
    \/ part = "room" /\ OthersRest /\ SocialNext
    \/ part = "rules" /\ OthersRest /\ RulesNext

PartsSpec == PartsInit /\ [][PartsNext]_partsVars

-----------------------------------------------------------------------------
\* Each property gathers what the modules of one concern promise; their comments say what
\* it is about.  NoticesAreClaimed is of KarakuriNotices, RoomsAreFair, BeliefsAreUnbeaten
\* and ActsWithinBounds of WorldProofs, TurnsStayGrounded of TurnProofs.

\* Ways: the cells of a segment are all looked at, and the plan is a shortest clear one.
PathsAreClear ==
    /\ part = "walk" => WalkIsComplete /\ WalkStaysOnCourse
    /\ part = "search" => PlanIsShortest /\ WayBackIsClear
    /\ part = "grid" => FreeIsClear /\ PulledIsClear /\ PullNeverFails /\ MapsAreConservative

\* Choices: the rules that replace a model's answer in the Karakuri world buy nothing that cannot
\* be paid for, keep what can stand, find something to do, and let her sleep; of a plan that a
\* language model answers with, what is done is allowed, and something is done.
ChoicesAreSound ==
    /\ part = "choice" => PurchasesArePaid /\ ModelIsKept /\ NeverStalls /\ SleepIsQuiet
    /\ part = "plan" => PlanIsAllowed /\ SomethingIsDone

\* Senses: a target is one surface of the world; every word is heard, kept in its turn and spoken.
SensesAreEvident ==
    /\ part = "ground" => GroundingIsSound
    /\ part = "arrival" => ArrivalIsEvident /\ ApproachIsConnected
    /\ part = "eye" => NoOtherCouldBeMeant /\ GoesWhenTold
    /\ part = "hear" => NothingIsUnheard
    /\ part = "private" => PrivateIsRemembered
    /\ part = "say" => ChunksKeepTheText
=============================================================================
