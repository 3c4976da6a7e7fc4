-------------------------- MODULE PortableGrounding --------------------------
(***************************************************************************)
(* lumina_next/portable_navigation_core_v1.py, ground_bbox_to_depth: the   *)
(* surface that a box of the image stands for, found among the depth rays  *)
(* of the same image.                                                      *)
(*                                                                         *)
(* A ray has a place in the image, a depth, a confidence in quarters, and  *)
(* the opaque id and the role of the surface it met, where the adapter     *)
(* knows them.  The world is the camera's axis: a ray meets it at the      *)
(* camera's place plus its depth.  Gaps and tolerances do not grow with    *)
(* the depth, and a ray's weight falls with its distance from the middle   *)
(* of the box in four steps.                                               *)
(***************************************************************************)
EXTENDS Integers, FiniteSets, FiniteSetsExt, Absent

CONSTANTS
    Captures,   \* images with their rays (bound)
    Groundings, \* what is asked of an image: a box, boxes before it, a role, a prior surface (bound)
    MinRays,    \* 3, _MIN_INDEPENDENT_DEPTH_SAMPLES
    ClusterGap, \* 0.35 m, between the depths of one surface
    LayerGap,   \* 0.20 m, for the layers of wide furniture
    Behind,       \* 0.15 m, by which what is in front is nearer
    Margin      \* 0.08 m, by which a prior surface is nearer than any other

ASSUME GroundingAssumption == MinRays \in Nat \ {0} /\ {ClusterGap, LayerGap, Behind, Margin} \subseteq Nat

VARIABLES
    shown,    \* the image
    sought,   \* what was asked of it, or None
    evidence  \* the result, or None

groundingVars == <<shown, sought, evidence>>

Absolute(n)  == IF n < 0 THEN -n ELSE n
Wider(a, b)  == IF a > b THEN a ELSE b
Earlier(a, b) == \E i \in DOMAIN a : a[i] < b[i] /\ \A j \in 1..i - 1 : a[j] = b[j]

\* Boxes are <<left, top, right, bottom>>.  An inset of 12% leaves the middle of one.
Edge(b, axis)   == b[axis + 2] - b[axis]
InBox(p, b)     == \A axis \in 1..2 : b[axis] =< p.uv[axis] /\ p.uv[axis] =< b[axis + 2]
InInset(p, b)   == \A axis \in 1..2 : /\ 100 * (p.uv[axis] - b[axis]) >= 12 * Edge(b, axis)
                                      /\ 100 * (b[axis + 2] - p.uv[axis]) >= 12 * Edge(b, axis)
Common(b, c)    == <<Wider(b[1], c[1]), Wider(b[2], c[2]), Min({b[3], c[3]}), Min({b[4], c[4]})>>
Overlaps(b, c)  == \A axis \in 1..2 : Edge(Common(b, c), axis) > 0
Major(b)        == IF Edge(b, 1) >= Edge(b, 2) THEN 1 ELSE 2
IsWide(b)       == Edge(b, Major(b)) >= 3 * Edge(b, 3 - Major(b))

\* project_depth_samples with a floor of a quarter.
Seen(capture, b) == {p \in capture.rays : p.sure >= 1 /\ InBox(p, b)}
Spots(P)         == {p.uv : p \in P}
Independent(P)   == Cardinality(Spots(P)) >= MinRays
Place(capture, p) == capture.camera + p.depth

\* A median is doubled: that of an even number lies between two.
Median(f) ==
    LET P == DOMAIN f
        values == {f[p] : p \in P}
        upto(v) == 2 * Cardinality({p \in P : f[p] =< v})
    IN Min({v \in values : upto(v) >= Cardinality(P)}) + Min({v \in values : upto(v) > Cardinality(P)})
MedianDepth(P) == Median([p \in P |-> p.depth])
FirstIndex(P) == Min({p.index : p \in P})

\* _depth_clusters: rays with no gap between their depths.
Linked(D, d, e, gap) ==
    \A r \in D : Min({d, e}) =< r /\ r < Wider(d, e) => \E s \in D : r < s /\ s - r =< gap
Clusters(P, gap) ==
    LET D == {p.depth : p \in P} IN {{q \in P : Linked(D, d, q.depth, gap)} : d \in D}

\* _uniform_surface_id and _uniform_surface_role: None unless all rays have the same one.
IdOf(P)   == IF Cardinality({p.id : p \in P}) = 1 THEN (CHOOSE p \in P : TRUE).id ELSE None
RoleOf(P) == IF Cardinality({p.role : p \in P}) = 1 THEN (CHOOSE p \in P : TRUE).role ELSE None

\* _surface_identity_partitions: None where some rays are identified and some are not.
PartlyIdentified(P) == \E p, q \in P : p.id = None /\ q.id # None
Layers(P, gap) == UNION {Clusters({q \in P : q.id = p.id}, gap) : p \in P}

\* A ray's support of a box: its confidence, and how central it is.
Weight(p, b) ==
    LET off == Max({(4 * Absolute(2 * p.uv[axis] - b[axis] - b[axis + 2])) \div Wider(1, Edge(b, axis)) : axis \in 1..2})
    IN p.sure * Wider(1, 4 - off)
Support(P, b) == MapThenSumSet(LAMBDA p : Weight(p, b), P)

\* The first of some sets of rays in the order of their keys, and the one after it.
FirstBy(key) == CHOOSE C \in DOMAIN key : \A D \in DOMAIN key \ {C} : Earlier(key[C], key[D])
Runner(key, won) ==
    IF DOMAIN key = {won} THEN {} ELSE FirstBy([C \in DOMAIN key \ {won} |-> key[C]])

-----------------------------------------------------------------------------

\* The rays of a cluster that may belong to the prior surface: of its id and role where these
\* are known, and close to it.
Matching(capture, C, prior) ==
    LET M == {p \in C : /\ prior.id \in {None, p.id} /\ prior.role \in {None, p.role}
                        /\ \E at \in prior.points : Absolute(Place(capture, p) - at) =< prior.within}
    IN IF Independent(M) THEN M ELSE {}

Reference(capture, p, prior) == Min({Absolute(Place(capture, p) - at) : at \in prior.points})
\* How far from the prior surface the third ray is.
ThirdNearest(capture, M, prior) ==
    Min({d \in {Reference(capture, p, prior) : p \in M} :
            Cardinality({p \in M : Reference(capture, p, prior) =< d}) >= Min({MinRays, Cardinality(M)})})

\* _arrival_continuity_surface_match: the one cluster that is nearest to the prior surface,
\* by a margin; a record of its matching rays and of those of the next one.
Nearness(capture, Ms, prior) ==
    [M \in Ms |-> <<ThirdNearest(capture, M, prior), -Cardinality(Spots(M)), MedianDepth(M), FirstIndex(M)>>]
NearestMatch(capture, prior, key) ==
    LET won    == FirstBy(key)
        runner == Runner(key, won)
    IN IF DOMAIN key = {} \/ (runner # {} /\ key[runner][1] < key[won][1] + Margin) THEN None
       ELSE [won |-> won, runner |-> runner,
             doubt |-> Median([p \in won |-> Reference(capture, p, prior)])]
PriorMatch(capture, Cs, prior) ==
    NearestMatch(capture, prior,
                 Nearness(capture, {Matching(capture, C, prior) : C \in Cs} \ {{}}, prior))

-----------------------------------------------------------------------------

\* How far some rays reach along the box's longer side, and whether that is some percent of it.
Reaching(P, b) ==
    LET at == {p.uv[Major(b)] : p \in P} IN Max(at) - Min(at)
Spans(P, b, percent) == 100 * Reaching(P, b) >= percent * Edge(b, Major(b))

\* A box in front of a wide one counts when it is narrow, covers the middle, and has a compact
\* surface of its own.
InFront(P, b, c) ==
    LET o == Common(b, c) IN {C \in Layers({p \in P : InBox(p, o)}, ClusterGap) :
                                  Independent(C) /\ 100 * Reaching(C, b) =< 30 * Edge(b, Major(b))}
MayOcclude(b, c) ==
    LET o == Common(b, c)
        m == Major(b)
    IN /\ Overlaps(b, c) /\ 100 * Edge(o, m) =< 40 * Edge(b, m)
       /\ 2 * o[m] =< b[m] + b[m + 2] /\ b[m] + b[m + 2] =< 2 * o[m + 2]

\* A layer may be the wide surface: rays on both sides of the middle, far apart, at much the
\* same depth, and behind what is in front.
Halves(P, b) ==
    LET m == Major(b) IN [left |-> {p \in P : 2 * p.uv[m] < b[m] + b[m + 2]},
                          right |-> {p \in P : 2 * p.uv[m] > b[m] + b[m + 2]}]
Bilateral(C, b, fronts) ==
    /\ Cardinality(Spots(C)) >= 2 * MinRays /\ Spans(C, b, 70)
    /\ Cardinality(Halves(C, b).left) >= MinRays /\ Cardinality(Halves(C, b).right) >= MinRays
    /\ Max({p.depth : p \in C}) - Min({p.depth : p \in C}) =< LayerGap
    /\ \E F \in fronts : MedianDepth(C) > MedianDepth(F) + 2 * Behind

Score(C, b) == Support(C, b) * Reaching(C, b)
\* A rescued surface; the doubt is the difference of its halves.
Rescued(C, b, total) ==
    [won |-> C, score |-> Score(C, b), total |-> total,
     doubt |-> Absolute(MedianDepth(Halves(C, b).left) - MedianDepth(Halves(C, b).right))]
NearestLayer(Cs) == FirstBy([C \in Cs |-> <<MedianDepth(C), FirstIndex(C)>>])
BySupport(Cs, b) == [C \in Cs |-> <<-Support(C, b), MedianDepth(C), FirstIndex(C)>>]

\* Mutant of Disputed: the best supported layer is taken.
DisputedByScore(Cs, b, expects) ==
    LET best == FirstBy(BySupport(Cs, b)) IN Rescued(best, b, Score(best, b))

\* Several layers: of one body, or of one obstacle that stands on the ground; else ambiguous.
Disputed(Cs, b, expects) ==
    LET bodies   == {C \in Cs : RoleOf(C) = "navigation_obstacle"}
        ground   == Cs \ bodies
        oneBody(Ds) == Ds # {} /\ \E i \in {IdOf(C) : C \in Ds} \ {None} : \A C \in Ds : IdOf(C) = i
        nearest  == NearestLayer(IF oneBody(Cs) THEN Cs ELSE bodies)
    IN IF oneBody(Cs) THEN Rescued(nearest, b, Score(nearest, b))
       ELSE IF /\ expects = "navigation_obstacle" /\ oneBody(bodies)
               /\ \A C \in ground : /\ RoleOf(C) = "walkable_ground"
                                    /\ 4 * Score(C, b) < 3 * Score(nearest, b)
            THEN Rescued(nearest, b, Score(nearest, b) + Max({0} \cup {Score(C, b) : C \in ground}))
            ELSE None

\* The boxes that do stand before the middle of a wide one.
Occluding(P, b, occluders) == {c \in occluders : MayOcclude(b, c) /\ InFront(P, b, c) # {}}

\* _wide_occlusion_surface_rescue: whether it applies, and what it finds, None if that is not
\* certain.
RescueApplies(capture, b, occluders) ==
    LET P == Seen(capture, b)
    IN IsWide(b) /\ occluders # {} /\ (PartlyIdentified(P) \/ Occluding(P, b, occluders) # {})
\* The layers that may be the wide surface: of the rays beside what is in front.
Flanks(P, b, before) ==
    LET fronts  == UNION {InFront(P, b, c) : c \in before}
        outside == {p \in P : \A c \in before : ~InBox(p, Common(b, c))}
    IN {C \in Layers(outside, LayerGap) : Bilateral(C, b, fronts)}
Undisputed(Cs, b, expects) ==
    IF Cs = {} THEN None
    ELSE IF Cardinality(Cs) > 1 THEN Disputed(Cs, b, expects)
    ELSE LET only == CHOOSE C \in Cs : TRUE IN Rescued(only, b, Score(only, b))
Rescue(P, b, occluders, expects) ==
    IF PartlyIdentified(P) THEN None
    ELSE Undisputed(Flanks(P, b, Occluding(P, b, occluders)), b, expects)

-----------------------------------------------------------------------------

Unresolved(why) == [status |-> why]

\* What is certified: the rays of the surface, its median place, and how sure it is; the
\* confidence is that of the box times that of the rays times the lead over the runner.
Grounded(capture, won, score, total, doubt) ==
    [status |-> "grounded", rays |-> won, id |-> IdOf(won), role |-> RoleOf(won),
     points |-> {Place(capture, p) : p \in won}, at |-> 2 * capture.camera + MedianDepth(won),
     doubt  |-> doubt,
     firm   |-> 2 * score * MapThenSumSet(LAMBDA p : p.sure, won)
                    >= 4 * total * Cardinality(won)]

\* The surface that wins: by its prior, by the rescue of a wide box, or by its support when
\* it leads clearly and a wide box is not filled by a small thing.
ByPrior(match, b) ==
    IF match = None THEN None
    ELSE [won |-> match.won, score |-> Support(match.won, b), doubt |-> match.doubt,
          total |-> Support(match.won, b) + Support(match.runner, b)]
ByLead(won, runner, b) ==
    LET lead   == Support(won, b)
        next   == Support(runner, b)
        middle == MedianDepth(won)
    IN IF 4 * next >= 3 * lead \/ (IsWide(b) /\ ~Spans(won, b, 50)) THEN None
       ELSE [won |-> won, score |-> lead, total |-> lead + next,
             doubt |-> Median([p \in won |-> Absolute(2 * p.depth - middle)]) \div 2]
FirstByLead(key, b) == LET won == FirstBy(key) IN ByLead(won, Runner(key, won), b)
Winner(capture, q, Cs) ==
    IF q.prior # None THEN ByPrior(PriorMatch(capture, Cs, q.prior), q.box)
    ELSE IF RescueApplies(capture, q.box, q.occluders)
    THEN Rescue(Seen(capture, q.box), q.box, q.occluders, q.expects)
    ELSE FirstByLead(BySupport(Cs, q.box), q.box)

\* ground_bbox_to_depth.
Resolution(capture, q, w) ==
    IF w = None \/ (q.expects # None /\ RoleOf(w.won) # q.expects) THEN Unresolved("ambiguous")
    ELSE IF ~Independent(w.won) THEN Unresolved("insufficient_depth_support")
    ELSE Grounded(capture, w.won, w.score, w.total, w.doubt)
Ground(capture, q) ==
    LET inset == {p \in Seen(capture, q.box) : InInset(p, q.box)}
        P == IF q.prior = None /\ Independent(inset) THEN inset ELSE Seen(capture, q.box)
    IN CASE P = {}             -> Unresolved("no_depth")
         [] ~Independent(P)    -> Unresolved("insufficient_depth_support")
         [] OTHER              -> Resolution(capture, q, Winner(capture, q, Clusters(P, ClusterGap)))

-----------------------------------------------------------------------------

GroundingInit == shown = [camera |-> 0, rays |-> {}] /\ sought = None /\ evidence = None

GroundBox ==
    /\ evidence = None
    /\ \E c \in Captures, q \in Groundings :
          shown' = c /\ sought' = q /\ evidence' = Ground(c, q)

GroundingNext == GroundBox

-----------------------------------------------------------------------------

\* The same image from an adapter that knows no surface, or not that of one ray.
Blind(c, P) == [c EXCEPT !.rays = {IF p \in P THEN [p EXCEPT !.id = None, !.role = None] ELSE p : p \in @}]

\* Two answers that do not contradict each other, and an answer that has no rival.
Agrees(one, other) == other.status = "grounded" => Spots(other.rays) \cap Spots(one.rays) # {}
Rescues(c, q)      == q.prior = None /\ RescueApplies(c, q.box, q.occluders)
Lacking(c, id)     == [c EXCEPT !.rays = {p \in @ : p.id # id}]

\* What is certified rests on several rays of the box at one surface, and never on an identity
\* that is only partly known: with fewer identities known the same surface is found, or none.
\* Under a prior whose id is known it is that body and no other; and in a wide box with
\* something before it nothing else that is seen could have been the target.
GroundingIsSound ==
    evidence # None /\ evidence.status = "grounded" =>
        /\ Independent(evidence.rays) /\ evidence.rays \subseteq Seen(shown, sought.box)
        /\ sought.prior # None => sought.prior.id \in {None, evidence.id}
        /\ sought.expects \in {None, evidence.role}
        /\ \A P \in {shown.rays} \cup {{p} : p \in shown.rays} :
              Agrees(evidence, Ground(Blind(shown, P), sought))
        /\ (\A c \in {shown, Lacking(shown, evidence.id)} : Rescues(c, sought)) =>
              Ground(Lacking(shown, evidence.id), sought).status # "grounded"
=============================================================================
