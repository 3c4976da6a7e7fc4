---------------------------- MODULE PortableGrid ----------------------------
(***************************************************************************)
(* The grids of lumina_next/portable_navigation_core_v1.py: three parts.   *)
(*                                                                         *)
(* Maps: obstacles and depth become cells that are free, occupied or       *)
(* unknown, and a way over them is checked and pulled straight.  Points    *)
(* are integers, CellSize to a cell, and never lie on the lines between    *)
(* cells.  A cell's half diagonal, CellSize / sqrt 2, is not an integer:   *)
(* the comparisons with it are squared.                                    *)
(*                                                                         *)
(* plan_path: A* from the agent's cell to the cells from which the target  *)
(* counts as reached, on a map whose blocked cells are inflated already.   *)
(* A step costs 100, a diagonal one 142, and the estimate is the straight  *)
(* distance in the same unit, rounded down.  One expansion of the loop is  *)
(* one action.                                                             *)
(*                                                                         *)
(* _continuous_segment_cells: the cells a straight segment touches, walked *)
(* from the cell of its start to the cell of its end by the next grid line *)
(* that is crossed.  Points are integers, Scale to a cell; times of        *)
(* crossing are compared as fractions, exactly.  Corner sides are          *)
(* included, as the collision check of a path asks for.                    *)
(***************************************************************************)
EXTENDS Integers, Sequences, FiniteSets, Absent

CONSTANTS
    CellSize,         \* of a cell, in points
    Columns, Rows,    \* of the map
    Terrains,         \* what a map is made of (bound)
    Clearance,        \* footprint and clearance of the request
    Extras,           \* what a check adds to it (bound)
    Ways,             \* the ways that are checked, as points (bound)
    Ends, ArrivalRadius  \* where a way should end (bound), and how near

ASSUME GridAssumption ==
    CellSize \in Nat \ {0} /\ CellSize % 2 = 0 /\ Columns \in Nat \ {0} /\ Rows \in Nat \ {0} /\ Clearance \in Nat

VARIABLES
    terrain,  \* the obstacles and the capture the map was made of, or None
    grid,     \* each cell's value
    way,      \* the way under check, and the map with what the check adds to it; or None
    pull      \* the straightened way so far, with its anchor and candidate; or None

gridVars == <<terrain, grid, way, pull>>

GridCells == (0..Columns - 1) \X (0..Rows - 1)
CellAt(p) == <<p[1] \div CellSize, p[2] \div CellSize>>
Centre(c) == <<c[1] * CellSize + CellSize \div 2, c[2] * CellSize + CellSize \div 2>>
Squared(p, q) == (p[1] - q[1]) * (p[1] - q[1]) + (p[2] - q[2]) * (p[2] - q[2])
Gap(m, n) == IF m < n THEN n - m ELSE m - n

\* A distance, squared or straight along an axis, is at most radius and a half diagonal.
InReach(square, radius) ==
    LET over == 2 * square - 2 * radius * radius - CellSize * CellSize
    IN over =< 0 \/ over * over =< 8 * CellSize * CellSize * radius * radius
InStraightReach(n, radius) == n =< radius \/ 2 * (n - radius) * (n - radius) =< CellSize * CellSize

\* _erode_boundary_cells: what is too near the edge, unless it is unknown.
NearEdge(c, radius) ==
    LET p == Centre(c)
    IN \E n \in {p[1], Columns * CellSize - p[1], p[2], Rows * CellSize - p[2]} : InStraightReach(n, radius)
Eroded(g, radius) ==
    [c \in GridCells |-> IF g[c] # "unknown" /\ NearEdge(c, radius) THEN "occupied" ELSE g[c]]

\* rasterize_occupancy: the cells whose centre lies in an obstacle that is widened by the
\* clearance and a half diagonal.
Covers(o, p, radius) ==
    IF o.kind = "circle" THEN InReach(Squared(p, o.centre), o.radius + radius)
    ELSE \A i \in 1..2 : InStraightReach(Gap(p[i], o.centre[i]), o.half[i] + radius)
Rasterized(obstacles, radius) ==
    Eroded([c \in GridCells |-> IF \E o \in obstacles : Covers(o, Centre(c), radius) THEN "occupied" ELSE "free"], radius)

\* inflate_occupancy: around every blocked cell, and the unknown ones stay unknown.
Barred(g, c) == c \notin GridCells \/ g[c] # "free"
Inflated(g, radius) ==
    IF radius = 0 THEN g
    ELSE [c \in GridCells |->
            IF g[c] = "free" /\ \E b \in GridCells : g[b] # "free" /\ InReach(Squared(Centre(b), Centre(c)), radius)
            THEN "occupied" ELSE g[c]]

-----------------------------------------------------------------------------

\* On which side of the line from p to q a point lies.
Turn(p, q, r) == (q[1] - p[1]) * (r[2] - p[2]) - (q[2] - p[2]) * (r[1] - p[1])
CornersOf(c)  == {<<(c[1] + i) * CellSize, (c[2] + j) * CellSize>> : i, j \in {0, 1}}
Straddles(p, q, c) ==
    \A i \in 1..2 : /\ p[i] > c[i] * CellSize \/ q[i] > c[i] * CellSize
                    /\ p[i] < (c[i] + 1) * CellSize \/ q[i] < (c[i] + 1) * CellSize

\* _continuous_segment_cells, without and with the cells beside a corner that is met.
CrossedCells(p, q) ==
    {c \in GridCells : /\ Straddles(p, q, c)
                       /\ p = q \/ \E r, s \in CornersOf(c) : Turn(p, q, r) < 0 /\ Turn(p, q, s) > 0}
MetCells(p, q) ==
    {c \in GridCells : /\ Straddles(p, q, c)
                       /\ p = q \/ \E r, s \in CornersOf(c) : Turn(p, q, r) =< 0 /\ Turn(p, q, s) >= 0}

\* occupancy_from_depth: what the rays went through is free, what they hit at the height of an
\* obstacle is occupied whatever else they went through, and the rest is unknown.
InView(capture) == {h \in capture.hits : CellAt(h.at) \in GridCells}
Through(capture, h) ==
    IF CellAt(capture.camera) \in GridCells THEN CrossedCells(capture.camera, h.at) \ {CellAt(h.at)} ELSE {}
Sensed(capture) ==
    LET hit   == {CellAt(h.at) : h \in {h \in InView(capture) : h.obstacle}}
        clear == {CellAt(h.at) : h \in InView(capture)} \cup UNION {Through(capture, h) : h \in InView(capture)}
    IN [c \in GridCells |-> IF c \in hit THEN "occupied" ELSE IF c \in clear THEN "free" ELSE "unknown"]
FromDepth(sensed, radius) == Eroded(Inflated(sensed, radius), radius)

\* build_occupancy_map: known obstacles make the map, and what depth says is occupied is added.
Merged(g, d) == [c \in GridCells |-> IF d[c] = "occupied" THEN "occupied" ELSE g[c]]
Built(t, sensed) ==
    IF t.obstacles = None THEN FromDepth(sensed, Clearance)
    ELSE IF t.capture = None THEN Rasterized(t.obstacles, Clearance)
    ELSE Merged(Rasterized(t.obstacles, Clearance), FromDepth(sensed, Clearance))

\* path_collision_report: every cell a segment meets, and the cells beside its corners.
SegmentClear(g, p, q) ==
    /\ {CellAt(p), CellAt(q)} \subseteq GridCells
    /\ \A c \in MetCells(p, q) : ~Barred(g, c)
WayClear(g, points) ==
    IF Len(points) = 1 THEN ~Barred(g, CellAt(points[1]))
    ELSE \A i \in 1..Len(points) - 1 : SegmentClear(g, points[i], points[i + 1])

-----------------------------------------------------------------------------

GridInit == terrain = None /\ grid = None /\ way = None /\ pull = None

BuildMap ==
    /\ terrain = None
    /\ \E t \in Terrains : \E sensed \in {IF t.capture = None THEN None ELSE Sensed(t.capture)} :
          terrain' = t /\ grid' = Built(t, sensed)
    /\ UNCHANGED <<way, pull>>

\* validate_or_simplify_path: a way must end near what it has to reach and be clear.
CheckWay ==
    /\ terrain # None /\ way = None
    /\ \E points \in Ways, end \in Ends, extra \in Extras : \E over \in {Inflated(grid, extra)} :
          LET ok == /\ Squared(points[Len(points)], end) =< ArrivalRadius * ArrivalRadius
                    /\ WayClear(over, points)
          IN /\ way' = [points |-> points, over |-> over, extra |-> extra, is |-> IF ok THEN "checked" ELSE "rejected"]
             /\ pull' = IF ok THEN [kept |-> <<points[1]>>, anchor |-> 1, candidate |-> Len(points)] ELSE None
    /\ UNCHANGED <<terrain, grid>>

InSight(i, j) == SegmentClear(way.over, way.points[i], way.points[j])
Pulling == way # None /\ way.is = "checked" /\ pull.anchor < Len(way.points)

\* simplify_path: the farthest point that is in clear sight of the anchor is next; the one
\* after the anchor needs no look.
Shorten ==
    /\ Pulling /\ pull.candidate > pull.anchor + 1 /\ ~InSight(pull.anchor, pull.candidate)
    /\ pull' = [pull EXCEPT !.candidate = @ - 1]
    /\ UNCHANGED <<terrain, grid, way>>

Advance ==
    /\ Pulling
    /\ pull.candidate = pull.anchor + 1 \/ InSight(pull.anchor, pull.candidate)
    /\ pull' = [kept |-> Append(pull.kept, way.points[pull.candidate]), anchor |-> pull.candidate,
                candidate |-> Len(way.points)]
    /\ UNCHANGED <<terrain, grid, way>>

\* The whole result is checked again.
FinishPull ==
    /\ way # None /\ way.is = "checked" /\ pull.anchor = Len(way.points)
    /\ way' = [way EXCEPT !.is = IF WayClear(way.over, pull.kept) THEN "taken" ELSE "rejected"]
    /\ UNCHANGED <<terrain, grid, pull>>

GridNext == BuildMap \/ CheckWay \/ Shorten \/ Advance \/ FinishPull

-----------------------------------------------------------------------------

\* Reference: how far the whole of a cell is from a point, along an axis and squared.
Beyond(c, p, i) ==
    IF p[i] < c[i] * CellSize THEN c[i] * CellSize - p[i]
    ELSE IF p[i] > (c[i] + 1) * CellSize THEN p[i] - (c[i] + 1) * CellSize ELSE 0
Away(c, p) == Beyond(c, p, 1) * Beyond(c, p, 1) + Beyond(c, p, 2) * Beyond(c, p, 2)
Excess(n, m) == IF n > m THEN n - m ELSE 0
AwayFrom(c, o) ==
    IF o.kind = "circle" THEN Away(c, o.centre) >= (o.radius + Clearance) * (o.radius + Clearance)
    ELSE LET d(i) == Excess(Beyond(c, o.centre, i), o.half[i])
         IN d(1) * d(1) + d(2) * d(2) >= Clearance * Clearance

\* A free cell is free as an area: wherever in it the agent stands, no known obstacle, no edge
\* of the map, and, of a map from depth alone, no cell that was hit or was not looked into is
\* nearer than the clearance; and some ray has gone through it, at no matter what height.
FreeIsClear ==
    (terrain # None /\ way = None) =>
        \A c \in {c \in GridCells : grid[c] = "free"} :
            /\ terrain.obstacles # None => \A o \in terrain.obstacles : AwayFrom(c, o)
            /\ \A i \in 1..2 : /\ c[i] * CellSize >= Clearance
                               /\ (c[i] + 1) * CellSize + Clearance =< CellSize * (IF i = 1 THEN Columns ELSE Rows)
            /\ terrain.capture # None =>
                  \A h \in InView(terrain.capture) :
                      h.obstacle => CellAt(h.at) # c /\ Away(c, Centre(CellAt(h.at))) >= Clearance * Clearance
            /\ terrain.obstacles = None =>
                  \A b \in GridCells : grid[b] = "unknown" =>
                      b # c /\ Away(c, Centre(b)) >= Clearance * Clearance

\* A way that is taken leads from its start to where it ended before, skips points but adds none,
\* and no point of it lies in a cell that is blocked once the check's own clearance is added.
PulledIsClear ==
    (way # None /\ way.is = "taken") =>
        LET kept == pull.kept
        IN /\ kept[1] = way.points[1] /\ kept[Len(kept)] = way.points[Len(way.points)]
           /\ Len(kept) =< Len(way.points)
           /\ \A i \in 1..Len(kept) - 1 : \A c \in CrossedCells(kept[i], kept[i + 1]) :
                  /\ grid[c] = "free"
                  /\ \A b \in GridCells : grid[b] # "free" /\ way.extra > 0 => Away(c, Centre(b)) >= way.extra * way.extra

\* Only the last check can refuse what was pulled, and it never has to.
PullNeverFails == (way # None /\ way.is = "rejected") => pull = None

-----------------------------------------------------------------------------
(* The search of a way                                                     *)

CONSTANTS
    Width, Height,  \* cells of the map
    AgentCells,         \* cells the agent may be in
    Targets,        \* the cells of a target's reference points: one, or several of its surface
    Reach           \* squares of the arrival radii, in cells

ASSUME SearchAssumption ==
    Width \in Nat \ {0} /\ Height \in Nat \ {0} /\ Reach \subseteq Nat /\ {} \notin Targets

VARIABLES
    free,      \* cells that are neither blocked nor unknown, after inflation
    start,     \* the agent's cell
    target,    \* target_references, as cells
    reach,     \* the arrival radius, squared
    frontier,  \* the heap: cells with the cost they were pushed with
    best,      \* best_cost, None where there is none
    came,      \* came_from
    expanded,  \* expansions
    plan       \* "searching", "NO_SAFE_ARRIVAL", "START_BLOCKED", "NO_PATH" or the cell reached

searchVars == <<free, start, target, reach, frontier, best, came, expanded, plan>>

Cells == (0..Width - 1) \X (0..Height - 1)
Square(c, d) == (c[1] - d[1]) * (c[1] - d[1]) + (c[2] - d[2]) * (c[2] - d[2])
Straight == [n \in 0..Width * Width + Height * Height |->
                CHOOSE r \in 0..100 * (Width + Height) : r * r =< 10000 * n /\ 10000 * n < (r + 1) * (r + 1)]

\* _arrival_cells, of every reference.
Goals == {c \in free : \E t \in target : Square(c, t) =< reach}

\* Mutant of Estimate: the arrival radius is not taken off.
EstimateToTarget(c) == CHOOSE e \in {Straight[Square(c, t)] : t \in target} :
                            \A t \in target : e =< Straight[Square(c, t)]

\* heuristic: what is left of the way to the nearest reference once the arrival radius is taken off.
Estimate(c) ==
    LET nearest == CHOOSE n \in {Square(c, t) : t \in target} : \A t \in target : n =< Square(c, t)
        left    == Straight[nearest] - Straight[reach] - 1
    IN IF left < 0 THEN 0 ELSE left

\* _neighbours: no diagonal step past a blocked cell.
Neighbours(c) ==
    {d \in free : /\ d # c /\ Square(c, d) =< 2
                  /\ <<c[1], d[2]>> \in free /\ <<d[1], c[2]>> \in free}

StepCost(c, d) == IF Square(c, d) = 1 THEN 100 ELSE 142

\* The heap's order: the sum, the estimate, the cost, the row and the column.
Before(a, b) ==
    LET key(n) == <<n.cost + Estimate(n.cell), Estimate(n.cell), n.cost, n.cell[2], n.cell[1]>>
    IN \E i \in 1..5 : key(a)[i] < key(b)[i] /\ \A j \in 1..i - 1 : key(a)[j] = key(b)[j]

SearchInit ==
    /\ free \in SUBSET Cells /\ start \in AgentCells /\ target \in Targets /\ reach \in Reach
    /\ frontier = {[cell |-> start, cost |-> 0]}
    /\ best = [c \in Cells |-> IF c = start THEN 0 ELSE None]
    /\ came = [c \in Cells |-> None] /\ expanded = 0
    /\ plan = IF start \notin free THEN "START_BLOCKED"
              ELSE IF Goals = {} THEN "NO_SAFE_ARRIVAL" ELSE "searching"

Popped == CHOOSE n \in frontier : \A m \in frontier \ {n} : Before(n, m)
Found == UNCHANGED <<free, start, target, reach>>

\* The neighbours that are cheaper to reach through n.
Improved(n) ==
    {d \in Neighbours(n.cell) : best[d] = None \/ n.cost + StepCost(n.cell, d) < best[d]}

\* A node that a cheaper one has replaced is dropped, and is no expansion.
DropStale ==
    /\ plan = "searching" /\ frontier # {} /\ expanded < Width * Height
    /\ Popped.cost > best[Popped.cell]
    /\ frontier' = frontier \ {Popped} /\ Found /\ UNCHANGED <<best, came, expanded, plan>>

\* The cheapest node is a goal, or its neighbours are pushed.
Expand ==
    /\ plan = "searching" /\ frontier # {} /\ expanded < Width * Height
    /\ Popped.cost =< best[Popped.cell]
    /\ expanded' = expanded + 1 /\ Found
    /\ \/ /\ Popped.cell \in Goals /\ plan' = Popped.cell
          /\ frontier' = frontier \ {Popped} /\ UNCHANGED <<best, came>>
       \/ /\ Popped.cell \notin Goals /\ UNCHANGED plan
          /\ best' = [d \in Cells |-> IF d \in Improved(Popped) THEN Popped.cost + StepCost(Popped.cell, d) ELSE best[d]]
          /\ came' = [d \in Cells |-> IF d \in Improved(Popped) THEN Popped.cell ELSE came[d]]
          /\ frontier' = (frontier \ {Popped})
                             \cup {[cell |-> d, cost |-> best'[d]] : d \in Improved(Popped)}

GiveUp ==
    /\ plan = "searching" /\ ~(frontier # {} /\ expanded < Width * Height)
    /\ plan' = "NO_PATH" /\ Found /\ UNCHANGED <<frontier, best, came, expanded>>

SearchNext == DropStale \/ Expand \/ GiveUp

-----------------------------------------------------------------------------

\* Reference: the ends and costs of the ways of at most k steps from the start, from the
\* definition of a way and not from the search.
WaysTo ==
    LET ways[k \in 0..Cardinality(Cells) - 1] ==
          IF k = 0 THEN {<<start, 0>>}
          ELSE LET shorter == ways[k - 1]
               IN shorter \cup UNION {{<<d, w[2] + StepCost(w[1], d)>> : d \in Neighbours(w[1])} : w \in shorter}
    IN ways[Cardinality(Cells) - 1]

\* The plan that is found is a shortest one, and none is found only where there is none: the
\* limit on the expansions never cuts a search off.
PlanIsShortest ==
    /\ plan \in Cells =>
          /\ plan \in Goals /\ <<plan, best[plan]>> \in WaysTo
          /\ \A w \in WaysTo : w[1] \in Goals => best[plan] =< w[2]
    /\ plan = "NO_PATH" => \A w \in WaysTo : w[1] \notin Goals

\* Whatever the order of the improvements, came_from leads from every cell that was met back
\* to the start: each link is a step the collision check accepts, which looks at the two
\* cells beside a diagonal as well, and the cost falls along it.
WayBackIsClear ==
    \A c \in Cells : came[c] # None =>
        /\ {c, came[c], <<c[1], came[c][2]>>, <<came[c][1], c[2]>>} \subseteq free
        /\ best[came[c]] + StepCost(came[c], c) =< best[c]

-----------------------------------------------------------------------------
(* The cells of a segment                                                  *)

CONSTANTS
    Scale,     \* points to a cell
    Points,    \* coordinates a segment's ends may have
    MaxWalk    \* steps of a walk (bound)

ASSUME TraversalAssumption == Scale \in Nat \ {0} /\ Points \subseteq Int /\ MaxWalk \in Nat

VARIABLES
    from, to,    \* the segment, in points
    cell,        \* the cell the walk is in
    visited,     \* the cells it listed
    walked       \* its steps, for the bound

traversalVars == <<from, to, cell, visited, walked>>

CellOf(p) == <<p[1] \div Scale, p[2] \div Scale>>
Distance(i) == IF to[i] < from[i] THEN from[i] - to[i] ELSE to[i] - from[i]
Step(i) == IF to[i] > from[i] THEN 1 ELSE IF to[i] < from[i] THEN -1 ELSE 0

\* How far along axis i the next grid line is, from the start of the segment.
Ahead(i) == IF Step(i) > 0 THEN (cell[i] + 1) * Scale - from[i] ELSE from[i] - cell[i] * Scale

\* max_x < max_y, for i the axis of x; an axis the segment does not move on is never next.
Sooner(i, j) == Step(i) # 0 /\ (Step(j) = 0 \/ Ahead(i) * Distance(j) < Ahead(j) * Distance(i))
Together == Step(1) # 0 /\ Step(2) # 0 /\ Ahead(1) * Distance(2) = Ahead(2) * Distance(1)

TraversalInit ==
    /\ from \in Points \X Points /\ to \in Points \X Points
    /\ cell = CellOf(from) /\ visited = {cell} /\ walked = 0

Goes(next, seen) ==
    /\ cell # CellOf(to) /\ walked < MaxWalk
    /\ cell' = next /\ visited' = visited \cup seen \cup {next}
    /\ walked' = walked + 1 /\ UNCHANGED <<from, to>>

CrossX == Sooner(1, 2) /\ Goes(<<cell[1] + Step(1), cell[2]>>, {})
CrossY == Sooner(2, 1) /\ Goes(<<cell[1], cell[2] + Step(2)>>, {})

\* Both grid lines at once, with include_corner_sides.
CrossCorner ==
    /\ Together
    /\ Goes(<<cell[1] + Step(1), cell[2] + Step(2)>>,
            {<<cell[1] + Step(1), cell[2]>>, <<cell[1], cell[2] + Step(2)>>})

TraversalNext == CrossX \/ CrossY \/ CrossCorner

-----------------------------------------------------------------------------

\* Reference: on which side of the line through the segment a corner of the grid lies.
Side(c) == (to[1] - from[1]) * (c[2] * Scale - from[2]) - (to[2] - from[2]) * (c[1] * Scale - from[1])
Corners(c) == {<<c[1] + i, c[2] + j>> : i, j \in {0, 1}}
Low(i) == IF from[i] < to[i] THEN from[i] ELSE to[i]
High(i) == IF from[i] < to[i] THEN to[i] ELSE from[i]

\* The segment has a point inside cell c.
Crosses(c) ==
    /\ \A i \in {1, 2} : Low(i) < (c[i] + 1) * Scale /\ High(i) > c[i] * Scale
    /\ \E p, q \in Corners(c) : Side(p) < 0 /\ Side(q) > 0

\* The segment passes a corner of cell c between its ends.
Brushes(c) ==
    \E p \in Corners(c) :
        /\ Side(p) = 0
        /\ \A i \in {1, 2} : Low(i) < p[i] * Scale /\ p[i] * Scale < High(i)

NearBy == {<<x, y>> : x, y \in {p \div Scale : p \in Points}}

\* A walk that has ended listed every cell it is in the interior of and every cell whose
\* corner it passes: the collision check looks at all a path could touch.
WalkIsComplete ==
    cell = CellOf(to) => \A c \in NearBy : Crosses(c) \/ Brushes(c) => c \in visited

\* The walk stays between the cells of its ends, so that it ends and lists no cell that the
\* segment is far from, unless the segment ends on a corner of the grid.
WalkStaysOnCourse ==
    (to[1] % Scale # 0 \/ to[2] % Scale # 0) =>
        \A c \in visited, i \in {1, 2} :
            \/ CellOf(from)[i] =< c[i] /\ c[i] =< CellOf(to)[i]
            \/ CellOf(to)[i] =< c[i] /\ c[i] =< CellOf(from)[i]
=============================================================================
