---------------------------- MODULE PortableFrames ----------------------------
(***************************************************************************)
(* What the portable adapter knows of the world                            *)
(* (lumina_next/godot_portable_navigation_adapter_v1.py and the validators *)
(* of portable_navigation_contract_v1.py): a frame is captured, a map is   *)
(* built for it, a detection in it is grounded, and a way is asked for on  *)
(* that map to that target.  Each step names the one before by an id that  *)
(* is a digest; here an id is the record that the digest is of.            *)
(*                                                                         *)
(* The engine writes its frame and the bridge its live state on ticks of   *)
(* their own, with a clock of their own, while a map call waits between    *)
(* two looks.  A call that raises changes nothing and is no action.  Times *)
(* are in tenths of a second, lengths in quarters of a cell.               *)
(***************************************************************************)
EXTENDS Integers, Sequences, FiniteSets, FiniteSetsExt, SequencesExt, Absent

CONSTANTS
    FrameSessions,       \* environments and sessions of the callers
    FrameShots,          \* frames the engine may write: ids, views, rooms or None, clock ahead (bound)
    Rooms,          \* rooms it may serve, in its own axes, and its clock ahead (bound)
    Radii,          \* footprint_radius_m of a request (bound)
    Roles,          \* expected_surface_role of a request, or None
    WorldMaxAge,    \* world_max_age_seconds
    MaxSkew,        \* map_capture_max_skew_seconds
    MaxAge,         \* max_age_ms of a request
    SyncAttempts,   \* _MAP_SNAPSHOT_SYNC_ATTEMPTS
    CacheSize,      \* _MAX_CACHED_ITEMS
    Leaps, LastMoment, MaxAnswers  \* bounds

ASSUME FramesAssumption ==
    /\ CacheSize \in Nat /\ WorldMaxAge \in Nat /\ MaxSkew \in Nat /\ MaxAge \in Nat
    /\ Leaps \subseteq Nat /\ LastMoment \in Nat
    /\ \A shot \in FrameShots : shot.ahead \in Int
    /\ \A place \in Rooms : place.ahead \in Int

VARIABLES
    instant,         \* time.time()
    frame,       \* latest.json, or None
    served,       \* /world-state, or None
    captures,    \* self._captures: entries with a key and a value, the oldest first
    maps,        \* self._maps
    targets,     \* self._targets
    building,    \* the build_map call that waits, or None
    handedOn        \* the map that the last step built or the way it found fit to be dispatched, or None

framesVars == <<instant, frame, served, captures, maps, targets, building, handedOn>>

\* _bounded_store: a key that is there keeps its place, and the oldest go.
KeysOf(store) == {store[i].key : i \in DOMAIN store}
Of(store, key) == store[CHOOSE i \in DOMAIN store : store[i].key = key].value
Stored(store, key, value) ==
    LET entry == [key |-> key, value |-> value]
        grown == IF key \in KeysOf(store)
                 THEN [i \in DOMAIN store |-> IF store[i].key = key THEN entry ELSE store[i]]
                 ELSE Append(store, entry)
    IN SubSeq(grown, Max({0, Len(grown) - CacheSize}) + 1, Len(grown))

-----------------------------------------------------------------------------
(* The engine and its bridge                                               *)

SnapshotOf(layout, ahead, n) == [captured |-> instant + ahead, layout |-> layout, native |-> n]

\* A frame, with or without the room beside it; its native id may be that of another, and so
\* may its time: the file is not to be trusted for either.
Render ==
    \E shot \in FrameShots :
        frame' = [native |-> shot.native, captured |-> instant + shot.ahead, view |-> shot.view,
                  snapshot |-> IF shot.layout = None THEN None ELSE SnapshotOf(shot.layout, shot.ahead, shot.of)]

\* The room as the bridge serves it.
BridgeTicks ==
    \E room \in Rooms :
        served' = [updated |-> instant + room.ahead, snapshot |-> SnapshotOf(room.layout, room.ahead, None)]

EngineOrBridge == (Render /\ UNCHANGED served) \/ (BridgeTicks /\ UNCHANGED frame)

EngineTicks ==
    /\ Len(captures) + Len(maps) + Len(targets) < MaxAnswers
    /\ EngineOrBridge
    /\ handedOn' = None
    /\ UNCHANGED <<instant, captures, maps, targets, building>>

TimePasses ==
    /\ \E d \in Leaps : instant + d =< LastMoment /\ instant' = instant + d
    /\ handedOn' = None
    /\ UNCHANGED <<frame, served, captures, maps, targets, building>>

-----------------------------------------------------------------------------
(* capture                                                                 *)

\* _read_frame: neither old nor of the future, and attested as the eye's.
FrameServes(requested) ==
    /\ frame # None
    /\ frame.captured >= Max({requested, instant}) - MaxAge
    /\ frame.captured =< instant + 10
    /\ frame.view.attested

\* The digest covers every metric input: the camera and the depth, but nothing of the room.
FrameId(session) ==
    [session |-> session, native |-> frame.native, captured |-> frame.captured,
     camera |-> frame.view.camera, depth |-> frame.view.depth]

\* validate_capture_result: no two roles for a surface, and depth where it was asked for.
DepthIsValid(depth, required) ==
    /\ required => depth # None
    /\ depth # None => \A r, s \in depth : r.surface = s.surface /\ None \notin {r.role, s.role} => r.role = s.role

Capture ==
    \E session \in FrameSessions, required \in BOOLEAN :
        /\ FrameServes(instant)
        /\ DepthIsValid(frame.view.depth, required)
        /\ captures' = Stored(captures, FrameId(session), frame)
        /\ handedOn' = None
        /\ UNCHANGED <<instant, frame, served, maps, targets, building>>

-----------------------------------------------------------------------------
(* build_map                                                               *)

\* godot_to_canonical: forward is -z, left is -x.
Canonical(at) == <<-at.z, -at.x>>
Turned(half) == <<half.z, half.x>>
LowCorner(b)  == <<-b.maxZ, -b.maxX>>
HighCorner(b) == <<-b.minZ, -b.minX>>

GridSize(b) == [k \in 1..2 |-> -((LowCorner(b)[k] - HighCorner(b)[k]) \div 4)]
CentreOf(b, cell) == [k \in 1..2 |-> LowCorner(b)[k] + 4 * cell[k] + 2]
SquareOf(a) == a * a

\* _rasterize: obstacles are grown by the padding and half the diagonal of a cell, the root of
\* 8; a rectangle by its cells, cut to the grid, a circle by the centres of the cells.
CutTo(k, n) == Max({0, Min({n - 1, k})})
TakenByBox(b, o, padding, cell) ==
    \A k \in 1..2 :
        LET middle == Canonical(o.centre)[k] - LowCorner(b)[k]
            reach  == Turned(o.half)[k] + padding
        IN /\ cell[k] >= CutTo((middle - reach - 3) \div 4, GridSize(b)[k])
           /\ cell[k] =< CutTo((middle + reach + 2) \div 4, GridSize(b)[k])
TakenByCircle(b, o, padding, cell) ==
    LET d == FoldFunction(+, 0, [k \in 1..2 |-> SquareOf(CentreOf(b, cell)[k] - Canonical(o.centre)[k])])
        r == o.radius + padding
        over == d - SquareOf(r) - 8
    IN over =< 0 \/ SquareOf(over) =< 32 * SquareOf(r)
AtTheEdge(b, padding, cell) ==
    \E k \in 1..2 : Min({CentreOf(b, cell)[k] - LowCorner(b)[k], HighCorner(b)[k] - CentreOf(b, cell)[k]}) =< padding + 2
FreeCells(layout, padding) ==
    LET b == layout.bounds
    IN {cell \in (0..GridSize(b)[1] - 1) \X (0..GridSize(b)[2] - 1) :
           /\ ~AtTheEdge(b, padding, cell)
           /\ \A o \in layout.obstacles :
                 IF o.kind = "rect" THEN ~TakenByBox(b, o, padding, cell) ELSE ~TakenByCircle(b, o, padding, cell)}

TooOld(snapshot) == instant - snapshot.captured > WorldMaxAge \/ snapshot.captured > instant + 10
InStep(snapshot, f) == snapshot.captured - f.captured \in -1..MaxSkew

\* The map's own digest covers the frame it is for, the time of the room, the grid and the agent.
MapId(request, snapshot, radius) ==
    [source |-> request.source, captured |-> snapshot.captured, bounds |-> snapshot.layout.bounds,
     radius |-> radius, free |-> FreeCells(snapshot.layout, radius), agent |-> snapshot.layout.agent]
MapOf(request, metadata, snapshot) ==
    LET radius == Max({snapshot.layout.radius, request.radius})
    IN [source |-> request.source, session |-> request.session, snapshot |-> snapshot, radius |-> radius,
        metadata |-> metadata, at |-> instant, free |-> FreeCells(snapshot.layout, radius)]
BuildsFrom(request, metadata, snapshot) ==
    /\ InStep(snapshot, metadata)
    /\ \E m \in {MapOf(request, metadata, snapshot)} :
          /\ maps' = Stored(maps, MapId(request, snapshot, m.radius), m)
          /\ handedOn' = [is |-> "map", map |-> m]

\* The room that came with the frame is taken as it is; otherwise the bridge is asked, below.
BuildFrameMap ==
    /\ building = None
    /\ \E session \in FrameSessions, radius \in Radii, id \in KeysOf(captures) :
          LET request == [session |-> session, source |-> id, radius |-> radius]
              metadata == Of(captures, id)
          IN /\ id.session = session
             /\ IF metadata.snapshot = None
                THEN /\ building' = [request |-> request, metadata |-> metadata, attempt |-> 1]
                     /\ handedOn' = None
                     /\ UNCHANGED maps
                ELSE /\ metadata.snapshot.native = metadata.native
                     /\ ~TooOld(metadata.snapshot)
                     /\ BuildsFrom(request, metadata, metadata.snapshot)
                     /\ UNCHANGED building
    /\ UNCHANGED <<instant, frame, served, captures, targets>>

\* One look at the bridge: a room that is older than the frame is looked at again after a
\* sleep, and taken at the last attempt if it is hardly older.
LookAtWorldAgain ==
    /\ building # None
    /\ served # None /\ instant - served.updated \in -10..WorldMaxAge /\ ~TooOld(served.snapshot)
    /\ served.snapshot.captured < building.metadata.captured
    /\ building.attempt < SyncAttempts
    /\ building' = [building EXCEPT !.attempt = @ + 1]
    /\ handedOn' = None
    /\ UNCHANGED <<instant, frame, served, captures, maps, targets>>
MapFromWorld ==
    /\ building # None
    /\ served # None /\ instant - served.updated \in -10..WorldMaxAge /\ ~TooOld(served.snapshot)
    /\ served.snapshot.captured >= building.metadata.captured \/ building.attempt = SyncAttempts
    /\ BuildsFrom(building.request, building.metadata, served.snapshot)
    /\ building' = None
    /\ UNCHANGED <<instant, frame, served, captures, targets>>
\* The bridge fails, or what it serves is of no use, or the call is cancelled.
BuildFails ==
    /\ building # None
    /\ building' = None /\ handedOn' = None
    /\ UNCHANGED <<instant, frame, served, captures, maps, targets>>

-----------------------------------------------------------------------------
(* ground and navigate                                                     *)

\* ground_bbox_to_depth: what the rays of the detection hit, one surface.
SurfacesHit(f) == IF f.view.depth = None THEN {} ELSE f.view.depth

\* _ground_from_evaluator_geometry: the object whose box covers the detection's best, if it
\* does so by far.
Standing(f) == {o \in f.view.objects : o.iou >= 12}
ByGeometry(f) ==
    {[at |-> o.at, surface |-> None, role |-> None] :
        o \in {o \in Standing(f) : \A p \in Standing(f) \ {o} : o.iou - p.iou >= 8}}

\* With depth in the frame, depth alone; without, the engine's objects.
HitsOf(f) == IF f.view.depth # None THEN SurfacesHit(f) ELSE ByGeometry(f)

\* validate_ground_result: a target is what was asked for, or the call raises.
GroundTarget ==
    \E session \in FrameSessions, source \in KeysOf(captures), id \in KeysOf(maps), role \in Roles :
        /\ source.session = session
        /\ Of(maps, id).source = source
        /\ \E hit \in HitsOf(Of(captures, source)) :
              /\ role # None => hit.role = role
              /\ targets' = Stored(targets, [map |-> id, at |-> hit.at],
                                   [map |-> id, source |-> source, session |-> session, hit |-> hit, role |-> role,
                                    byDepth |-> Of(captures, source).view.depth # None])
        /\ handedOn' = None
        /\ UNCHANGED <<instant, frame, served, captures, maps, building>>

\* The caller may put any ids together; those that belong together pass.
OrderWay ==
    \E session \in FrameSessions, id \in KeysOf(maps), t \in KeysOf(targets) :
        /\ Of(targets, t).map = id
        /\ Of(maps, id).session = session
        /\ handedOn' = [is |-> "way", map |-> Of(maps, id), target |-> Of(targets, t), session |-> session]
        /\ UNCHANGED <<instant, frame, served, captures, maps, targets, building>>

FramesInit ==
    /\ instant = 0 /\ frame = None /\ served = None
    /\ captures = <<>> /\ maps = <<>> /\ targets = <<>>
    /\ building = None /\ handedOn = None

FramesNext ==
    \/ EngineTicks \/ TimePasses \/ Capture
    \/ BuildFrameMap \/ LookAtWorldAgain \/ MapFromWorld \/ BuildFails
    \/ GroundTarget \/ OrderWay

FramesSpec == FramesInit /\ [][FramesNext]_framesVars

-----------------------------------------------------------------------------

\* A frame that is known by an id is never replaced by another view, however the engine reuses
\* its ids and times: what was grounded in it and what is grounded in it later agree.
FramesKeepTheirView ==
    [][\A id \in KeysOf(captures) \cap KeysOf(captures') :
          /\ Of(captures', id).view.camera = Of(captures, id).view.camera
          /\ Of(captures', id).view.depth = Of(captures, id).view.depth]_framesVars

\* A map is of the moment of its frame: the room was told no more than a tenth of a second
\* before and no later than the skew after it, it was not old when it was used, and it is the
\* frame's own where the frame came with one; although engine and bridge went on ticking while
\* the call waited, and other frames took the place of this one.
MapsAreOfTheirMoment ==
    \A i \in DOMAIN maps :
        LET m == maps[i].value
        IN /\ m.snapshot.captured - m.source.captured \in -1..MaxSkew
           /\ m.at - m.snapshot.captured \in -10..WorldMaxAge
           /\ m.metadata.snapshot # None => m.snapshot = m.metadata.snapshot /\ m.snapshot.native = m.source.native
           /\ m.session = m.source.session

\* A way that is dispatched leads to a target that was seen in the very frame the map is for,
\* in the same session, and had the role that was asked for.
WaysAreOfOneFrame ==
    handedOn # None /\ handedOn.is = "way" =>
        /\ handedOn.target.source = handedOn.map.source
        /\ handedOn.target.session = handedOn.session
        /\ handedOn.target.role \in {None, handedOn.target.hit.role}
        /\ handedOn.target.byDepth <=> handedOn.map.source.depth # None
        /\ handedOn.target.byDepth => handedOn.target.hit \in handedOn.map.source.depth

\* Wherever the map is free, the avatar's whole footprint is clear of every obstacle and of the
\* bounds, as the engine measures them, in its own axes.
ClearInTheEngine(layout, x, z, radius) ==
    /\ \A o \in layout.obstacles :
          LET dx == x - o.centre.x
              dz == z - o.centre.z
          IN IF o.kind = "circle" THEN SquareOf(dx) + SquareOf(dz) > SquareOf(o.radius + radius)
             ELSE \/ Max({dx, -dx}) > o.half.x + radius
                  \/ Max({dz, -dz}) > o.half.z + radius
    /\ x - radius > layout.bounds.minX /\ x + radius < layout.bounds.maxX
    /\ z - radius > layout.bounds.minZ /\ z + radius < layout.bounds.maxZ
MapsAreConservative ==
    handedOn # None /\ handedOn.is = "map" =>
        \A cell \in handedOn.map.free, i \in 0..4, j \in 0..4 :
            LET low == LowCorner(handedOn.map.snapshot.layout.bounds)
            IN ClearInTheEngine(handedOn.map.snapshot.layout, -(low[2] + 4 * cell[2] + j), -(low[1] + 4 * cell[1] + i), handedOn.map.radius)
=============================================================================
