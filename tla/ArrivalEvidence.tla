--------------------------- MODULE ArrivalEvidence ---------------------------
(***************************************************************************)
(* What it takes to say "arrived": lumina_next/visual_navigation.py,       *)
(* recognition's two groundings (_run_portable_job_body) and the semantic  *)
(* revalidation (_portable_revalidate_arrival), and the fast path between  *)
(* them (arrival_pose_epoch_fast_path_v1.py).                              *)
(*                                                                         *)
(* The world is the axis the agent walks along; bodies stand on it, and a  *)
(* column of the image shows a part of one of them.  A surface id stands   *)
(* for a body at a place: one that moves gets another id, which is what    *)
(* the semantics revision of the contract says.  The engine publishes      *)
(* frames when it likes, each with the map of its own moment, and anything *)
(* may happen between two of them.  Distances are in decimetres; medians   *)
(* and uncertainties are doubled, as in PortableGrounding.                 *)
(***************************************************************************)
EXTENDS PortableGrounding, Sequences

CONSTANTS
    Bodies, FirstView, ArrivalViews, \* what a column shows: a body, and how far behind its front
    FirstPlaces,   \* where the bodies stand at first
    TargetBox, TargetKind, TargetColor,  \* what recognition selected
    Detections,    \* what perception may answer at the arrival (bound)
    Stops,         \* where the motion may end (bound)
    Plans,         \* what the planner may say of each radius (bound)
    Slack,         \* 0.08 m, ARRIVAL_REVALIDATION_TOLERANCE_M
    Near,          \* 0.20 m, how far a ray may be from the certified surface
    Drift,         \* 0.20 m, between the report and the map
    MaxDoubt,      \* 0.35 m
    ImageSide,     \* of the whole image
    MaxUpsets      \* bound

VARIABLES
    scene,    \* the world
    latest,   \* the frame published last
    journey,  \* the job: its stage, frames, certification, radius and feedback
    upsets    \* what has happened to the world

evidenceVars == <<scene, latest, journey, upsets>>

Obstacle == "navigation_obstacle"

\* portable_expected_surface_role: by a short list of kinds.
ExpectedRole(what) == CASE what \in {"sofa", "chair", "plant", "table"} -> Obstacle
                        [] what \in {"floor", "rug", "path"} -> "walkable_ground"
                        [] OTHER -> None

\* A frame: its rays, its camera, the moment, and the world it shows, from which its map is made.
BodyRole(b) == IF b = "floor" THEN "walkable_ground" ELSE Obstacle
SurfaceId(s, b) == IF s.known = "none" THEN None ELSE <<b, s.place[b]>>
SeenRole(s, b, u) == IF s.known = "none" THEN None ELSE IF s.known = "odd" /\ u = Min(DOMAIN s.view)
                     THEN "walkable_ground" ELSE BodyRole(b)
Frame(s, moment) ==
    [camera |-> s.agent, at |-> moment, truth |-> s,
     rays |-> {LET b == s.view[u].body IN
               [index |-> u, uv |-> <<u, 1>>, depth |-> s.place[b] + s.view[u].off - s.agent, sure |-> 4,
                id |-> SurfaceId(s, b), role |-> SeenRole(s, b, u)] : u \in DOMAIN s.view}]
Attested(f) == f.truth.known # "none"

\* portable_pose_matches.
SamePose(f, g) == f.truth.frame = g.truth.frame /\ f.camera = g.camera

-----------------------------------------------------------------------------

\* What the navigation asks of an image: the surface of a box, or the part of it that continues
\* a surface that is known.
Request(box, before, role, surface) == [box |-> box, occluders |-> before, expects |-> role, prior |-> surface]

Continuing(g) == [points |-> g.points, within |-> Near, id |-> g.id,
                  role |-> IF g.id = None THEN None ELSE g.role]

IsGrounded(g) == g.status = "grounded"
Certain(g)    == g.doubt =< MaxDoubt /\ g.firm
SameSpot(g, h) == Absolute(g.at - h.at) =< Min({6, Wider(2, g.doubt + h.doubt + 1)})

\* _record_arrival_certification: what later frames are compared with.
Certification(one, two, f, g, role) ==
    [id |-> two.id, role |-> IF two.id = None THEN None ELSE two.role, expects |-> role,
     points |-> two.points, doubt |-> two.doubt, frame |-> g.truth.frame, at |-> g.at, attested |-> Attested(g),
     agreed |-> one.id = two.id /\ one.role = two.role /\ Attested(f) = Attested(g)]

\* Recognition: one grounding in the frame perception saw, one that continues it in a later one.
Confirmed(one, two, f, g, role) ==
    IF /\ IsGrounded(one) /\ SamePose(f, g) /\ IsGrounded(two)
       /\ Certain(one) /\ Certain(two) /\ SameSpot(one, two)
       /\ one.id \in {None, two.id} /\ one.role = two.role
    THEN Certification(one, two, f, g, role)
    ELSE None
Continued(one, f, g, role) ==
    Confirmed(one, Ground(g, Request(TargetBox, {}, role, Continuing(one))), f, g, role)
Recognized(f, g) ==
    LET role == ExpectedRole(TargetKind)
    IN Continued(Ground(f, Request(TargetBox, {}, role, None)), f, g, role)

\* plan_portable_approach: the nearest radius with a safe place, unless there is no way to it;
\* of a wide and low target the largest one that is no nearer, if that plans.
StandOff(plan, wide) ==
    LET open == {r \in DOMAIN plan : plan[r] # "no_safe_arrival"}
        base == Min(open)
    IN IF open = {} \/ plan[base] # "route" THEN None
       ELSE IF ~wide THEN base
       ELSE IF plan[Max(open)] = "route" THEN Max(open) ELSE None

\* portable_wide_low_target_needs_visibility_standoff, pixels only.
WideAndLow(b) == 4 * Edge(b, 1) >= 3 * ImageSide /\ 4 * Edge(b, 2) =< ImageSide /\ Edge(b, 1) >= 3 * Edge(b, 2)

-----------------------------------------------------------------------------

\* count_exact_reference_rays: rays of the certified body, in its role and where it stood.
Exact(f, c) == {p \in f.rays : /\ p.sure >= 1 /\ p.id = c.id /\ p.role = c.role
                               /\ \E at \in c.points : Absolute(Place(f, p) - at) =< Near}
Contradicted(f, c) == \E p \in f.rays : p.id = c.id /\ p.role \notin {None, c.role}

PlanarDistance(points, agent) == Min({Absolute(agent - at) : at \in points})

\* What no later look can excuse: of the certification, of the two frames, of the map, and of
\* the report.
Unsound(c) ==
    \/ c.id # None /\ ~c.attested
    \/ ~c.agreed
    \/ None \notin {c.role, c.expects} /\ c.role # c.expects
OutOfEpoch(c, f, g, cutoff) ==
    \/ ~(g.at > f.at /\ f.at > c.at /\ f.at > cutoff)
    \/ f.truth.frame # c.frame \/ ~SamePose(f, g)
Unsafe(c, g)       == g.truth.frame # c.frame \/ g.truth.blocked
Restless(g, report) == ~report.clear \/ Absolute(g.camera - report.agent) > Drift

\* evaluate_arrival_pose_epoch_fast_path.
FastPath(c, f, g, report, cutoff, radius) ==
    IF Unsound(c) \/ OutOfEpoch(c, f, g, cutoff) \/ Unsafe(c, g) \/ Restless(g, report) THEN "hard_fail"
    ELSE IF None \in {c.id, c.role, c.expects} \/ {c.role, c.expects} # {Obstacle} THEN "fallback_eligible"
    ELSE IF \E h \in {f, g} : Contradicted(h, c) THEN "hard_fail"
    ELSE IF \E h \in {f, g} : ~Attested(h) \/ Cardinality(Spots(Exact(h, c))) < MinRays THEN "fallback_eligible"
    ELSE IF PlanarDistance({Place(g, p) : p \in Exact(g, c)}, g.camera) > radius + Slack THEN "fallback_eligible"
    ELSE "pass"

-----------------------------------------------------------------------------

SameHue(a, b) == a = b
\* Purple and pink may be one thing in another light, if the metric evidence says so.
LikeHue(a, b) == SameHue(a, b) \/ {a, b} = {"purple", "pink"}

Hull(boxes) == <<Min({b[1] : b \in boxes}), Min({b[2] : b \in boxes}), Max({b[3] : b \in boxes}), Max({b[4] : b \in boxes})>>
Joined(R, near) ==
    \A S \in SUBSET R \ {{}, R} : \E r \in S, t \in R \ S : <<r, t>> \in near
Area(b) == Edge(b, 1) * Edge(b, 2)
UnitsOf(b) == (b[1]..b[3] - 1) \X (b[2]..b[4] - 1)

\* portable_arrival_fragment_union: one target that perception split into overlapping boxes of
\* its kind; only where the body is known by its id.
Fragments(d) == {r \in d.rows : r.kind = TargetKind}
Splits(d, c) ==
    LET R == Fragments(d)
    IN /\ ~d.visible /\ d.quiet /\ c.id # None /\ c.role = Obstacle /\ c.expects = Obstacle
       /\ Cardinality(d.rows) \in 2..8 /\ Cardinality(R) >= 2
       /\ \A r \in R : LikeHue(r.color, TargetColor) /\ \A t \in R : LikeHue(r.color, t.color)
       /\ Joined(R, {<<r, t>> \in R \X R : Overlaps(r.box, t.box)})

\* What perception found, with the rows that are the target itself; None if nothing certain.
FoundTarget(d, c) ==
    IF Splits(d, c) THEN [box |-> Hull({r.box : r \in Fragments(d)}), own |-> Fragments(d), split |-> TRUE]
    ELSE IF d.visible /\ d.sure /\ d.target.kind = TargetKind /\ LikeHue(d.target.color, TargetColor)
    THEN [box |-> d.target.box, own |-> {d.target}, split |-> FALSE]
    ELSE None

\* portable_occluder_bboxes: the other rows that overlap the target.
Hints(d, found) == {r.box : r \in {r \in d.rows \ found.own : Overlaps(r.box, found.box)}}

ExactIn(f, c, box) == {p \in Exact(f, c) : InBox(p, box)}

\* portable_arrival_fragment_occluder_policy: not what the target's own rays lie in.
KeptHints(hints, found, c, f, g) ==
    IF ~found.split \/ ~(c.attested /\ Attested(f) /\ Attested(g)) THEN hints
    ELSE {b \in hints : \E h \in {f, g} : Cardinality(Spots(ExactIn(h, c, Common(b, found.box)))) < MinRays}

\* portable_arrival_sofa_part_union: cushions in a band with the one sofa are parts of it.
InBand(b, c) ==
    LET rows == Edge(Common(b, c), 2)
    IN rows > 0 /\ 10 * rows >= 8 * Min({Edge(b, 2), Edge(c, 2)}) /\ Wider(b[1], c[1]) =< Min({b[3], c[3]})
Cushions(d) == {r.box : r \in {r \in d.rows : r.kind = "cushion"}}
HasParts(d, c) ==
    LET all  == Cushions(d) \cup {d.target.box}
        hull == Hull(all)
    IN /\ d.visible /\ TargetKind = "sofa" /\ c.id # None /\ c.role = Obstacle /\ c.expects = Obstacle
       /\ {r \in d.rows : r.kind = "sofa"} = {d.target} /\ Cardinality(Cushions(d)) \in 1..5
       /\ \A r \in d.rows : r.kind \in {"sofa", "cushion"} => SameHue(r.color, TargetColor)
       /\ \A b \in Cushions(d) : d.target.box[2] =< b[2] /\ b[4] =< d.target.box[4]
       /\ Joined(all, {<<b, e>> \in all \X all : InBand(b, e)})
       /\ 2 * Edge(hull, 1) =< 5 * Edge(d.target.box, 1) /\ Edge(hull, 2) = Edge(d.target.box, 2)
       /\ 100 * Area(hull) =< 45 * ImageSide * ImageSide /\ 100 * Area(d.target.box) >= 35 * Area(hull)
       /\ 100 * Cardinality(UNION {UnitsOf(b) : b \in all}) >= 85 * Area(hull)

\* portable_arrival_sofa_part_surface_support: the body is seen in the sofa and in its parts.
Supported(f, c, d) ==
    LET all == ExactIn(f, c, Hull(Cushions(d) \cup {d.target.box}))
    IN /\ Attested(f)
       /\ Independent({p \in all : InBox(p, d.target.box)})
       /\ Independent({p \in all : ~InBox(p, d.target.box)})

-----------------------------------------------------------------------------

\* The two groundings at the arrival: of the box, or, where both are ambiguous, of the box with
\* the parts that both frames support; None if these do not.
Pair(c, f, g, box, before) ==
    LET ask(h) == Ground(h, Request(box, before, c.expects, Continuing(c))) IN <<ask(f), ask(g)>>
InParts(d, box) == [box |-> Hull(Cushions(d) \cup {box}), own |-> {r \in d.rows : r.kind \in {"sofa", "cushion"}}]
Assembles(c, d, found, f, g, first) ==
    /\ ~found.split /\ c.attested /\ Attested(f) /\ Attested(g) /\ HasParts(d, c)
    /\ first[1].status = "ambiguous" /\ first[2].status = "ambiguous"
Widened(c, d, found, f, g, first) ==
    IF ~Assembles(c, d, found, f, g, first) THEN first
    ELSE IF ~Supported(f, c, d) \/ ~Supported(g, c, d) THEN None
    ELSE LET whole == InParts(d, found.box) IN Pair(c, f, g, whole.box, Hints(d, whole))
Regrounded(c, d, found, f, g) ==
    Widened(c, d, found, f, g,
            Pair(c, f, g, found.box, KeptHints(Hints(d, found), found, c, f, g)))

\* Both are of the body that was certified, at one place.
SameBody(c, one, two) ==
    /\ \A g \in {one, two} : /\ IsGrounded(g) /\ Certain(g) /\ c.id \in {None, g.id} /\ c.role \in {None, g.role}
                             /\ None \notin {c.expects, g.role} => c.expects = g.role
    /\ None \notin {one.role, two.role} => one.role = two.role
    /\ SameSpot(one, two)

\* select_portable_arrival_planar_distance: near what is seen now; or, the body being known to
\* be the same and unmoved, near what was seen of it first.
Within(points, doubt, agent, radius) == 2 * PlanarDistance(points, agent) =< 2 * (radius + Slack) + doubt
NearEnough(c, one, two, f, g, radius) ==
    \/ Within(two.points, two.doubt, g.camera, radius)
    \/ /\ c.id # None /\ c.role = Obstacle /\ c.expects = Obstacle
       /\ c.attested /\ Attested(f) /\ Attested(g)
       /\ \A h \in {one, two} : h.id = c.id /\ h.role = c.role /\ Cardinality(h.rays) >= MinRays
       /\ Within(c.points, c.doubt, g.camera, radius)

IsSame(c, pair, f, g, radius) ==
    pair # None /\ SameBody(c, pair[1], pair[2]) /\ NearEnough(c, pair[1], pair[2], f, g, radius)
StillThere(c, d, found, f, g, radius) ==
    /\ found # None /\ SamePose(f, g)
    /\ g.truth.frame = c.frame /\ ~g.truth.blocked
    /\ IsSame(c, Regrounded(c, d, found, f, g), f, g, radius)
Rechecked(c, d, f, g, radius) == StillThere(c, d, FoundTarget(d, c), f, g, radius)

-----------------------------------------------------------------------------

EvidenceInit ==
    /\ GroundingInit
    /\ scene = [place |-> FirstPlaces, agent |-> 0, view |-> FirstView, known |-> "all", blocked |-> FALSE, frame |-> 0]
    /\ latest = Frame(scene, 0)
    /\ journey = [stage |-> "looking", shots |-> <<>>, certified |-> None, radius |-> 0, plan |-> None,
                  report |-> None, quick |-> FALSE]
    /\ upsets = 0

Shots == journey.shots
LastShot == Shots[Len(Shots)]
\* The moment after which the next frame must be taken.
Cutoff == Wider(IF Shots = <<>> THEN 0 ELSE LastShot.at, IF journey.report = None THEN 0 ELSE journey.report.at)

\* A frame that a later one replaces before it is taken makes no difference.
Publish ==
    /\ journey.stage \notin {"arrived", "refused"} /\ latest.at =< Cutoff
    /\ latest' = Frame(scene, latest.at + 1)
    /\ UNCHANGED <<scene, journey, upsets, groundingVars>>

\* A body moves or changes place with another, the adapter loses its identities or mixes their
\* roles, something comes close, the agent is pushed, the engine starts again.
Upset ==
    /\ journey.stage \notin {"arrived", "refused"} /\ upsets < MaxUpsets
    /\ \/ \E b \in Bodies, by \in {-1, 3} : scene' = [scene EXCEPT !.place[b] = @ + by]
       \/ \E b, c \in Bodies : scene' = [scene EXCEPT !.place[b] = scene.place[c], !.place[c] = scene.place[b]]
       \/ \E what \in {"none", "odd", "all"} : scene' = [scene EXCEPT !.known = what]
       \/ scene' = [scene EXCEPT !.blocked = TRUE]
       \/ scene' = [scene EXCEPT !.agent = @ + 1]
       \/ scene' = [scene EXCEPT !.frame = @ + 1]
    /\ scene' # scene
    /\ upsets' = upsets + 1
    /\ UNCHANGED <<latest, journey, groundingVars>>

\* _portable_capture_after: the published frame, when it is newer than the moment.
Shoot == latest.at > Cutoff /\ UNCHANGED <<scene, latest, upsets, groundingVars>>

Look ==
    /\ journey.stage = "looking" /\ journey.shots = <<>> /\ Shoot
    /\ journey' = [journey EXCEPT !.shots = <<latest>>]

LookAgain ==
    /\ journey.stage = "looking" /\ journey.shots # <<>> /\ Shoot
    /\ \E c \in {Recognized(journey.shots[1], latest)} :
          journey' = [journey EXCEPT !.stage = IF c = None THEN "refused" ELSE "planning",
                                     !.certified = c, !.shots = Append(@, latest)]

Approach ==
    /\ journey.stage = "planning"
    /\ \E plan \in Plans, quick \in BOOLEAN :
          LET r == StandOff(plan, WideAndLow(TargetBox))
          IN journey' = [journey EXCEPT !.stage = IF r = None THEN "refused" ELSE "walking",
                                        !.radius = IF r = None THEN 0 ELSE r, !.plan = plan, !.quick = quick]
    /\ UNCHANGED <<scene, latest, upsets, groundingVars>>

\* The adapter reports that the agent has arrived.
Halt ==
    /\ journey.stage = "walking"
    /\ \E agent \in Stops, view \in ArrivalViews, clear \in BOOLEAN :
          /\ scene' = [scene EXCEPT !.agent = agent, !.view = view]
          /\ latest' = Frame(scene', latest.at + 1)
          /\ journey' = [journey EXCEPT !.stage = IF journey.quick THEN "confirming" ELSE "asking",
                                        !.plan = None,
                                        !.report = [at |-> latest.at + 1, agent |-> agent, clear |-> clear]]
    /\ UNCHANGED <<upsets, groundingVars>>

\* _portable_arrival_fast_path: two frames after the report.
ShootFirst ==
    /\ journey.stage = "confirming" /\ Shoot
    /\ journey' = [journey EXCEPT !.stage = "evaluating", !.shots = Append(@, latest)]

JudgeShots ==
    /\ journey.stage = "evaluating" /\ Shoot
    /\ LET out == FastPath(journey.certified, LastShot, latest, journey.report,
                           Wider(Shots[2].at, journey.report.at), journey.radius)
       IN journey' = [journey EXCEPT !.shots = Append(@, latest),
                                     !.stage = CASE out = "pass" -> "arrived"
                                                 [] out = "hard_fail" -> "refused"
                                                 [] OTHER -> "asking"]

\* _portable_revalidate_arrival: a frame for perception, under the lease, with its map.
Ask ==
    /\ journey.stage = "asking" /\ Shoot
    /\ journey' = [journey EXCEPT !.shots = Append(@, latest),
                                  !.stage = IF latest.truth.frame = journey.certified.frame THEN "inferring" ELSE "refused"]

\* What perception answers, and a frame after the one it saw.
Revalidate ==
    /\ journey.stage = "inferring" /\ Shoot
    /\ \E d \in Detections :
          journey' = [journey EXCEPT !.shots = Append(@, latest),
                                     !.stage = IF Rechecked(journey.certified, d, LastShot, latest, journey.radius)
                                               THEN "arrived" ELSE "refused"]

EvidenceNext ==
    Publish \/ Upset \/ Look \/ LookAgain \/ Approach \/ Halt \/ ShootFirst \/ JudgeShots \/ Ask \/ Revalidate

-----------------------------------------------------------------------------

\* Whoever is said to have arrived has, in two frames later than the report and from one camera,
\* the body that was certified where it was certified, several rays of it in each; nothing stands
\* in the agent's cell, and the body is in reach of the radius that was planned.  Where the body
\* was not known by an id, something stands where its surface was.
ArrivalIsEvident ==
    journey.stage = "arrived" =>
        LET c == journey.certified
            f == Shots[Len(Shots) - 1]
            g == LastShot
            there(h) == {p \in h.rays : \E at \in c.points : Absolute(Place(h, p) - at) =< Near}
        IN /\ journey.report.at < f.at /\ f.at < g.at
           /\ f.camera = g.camera /\ f.truth.frame = c.frame /\ g.truth.frame = c.frame /\ ~g.truth.blocked
           /\ \A h \in {f, g} : Cardinality(Spots(there(h))) >= MinRays
           /\ c.id # None => \A h \in {f, g} : h.truth.place[c.id[1]] = c.id[2]
           /\ Within(c.points \cup {Place(g, p) : p \in there(g)}, MaxDoubt, g.camera, journey.radius)

\* A radius is one that has a route, and never one at which the target can be seen where the
\* nearest safe places have no way to them: that is the other side of a wall.
ApproachIsConnected ==
    journey.stage = "walking" =>
        LET open == {r \in DOMAIN journey.plan : journey.plan[r] # "no_safe_arrival"}
        IN journey.plan[journey.radius] = "route" /\ journey.plan[Min(open)] = "route"
=============================================================================
