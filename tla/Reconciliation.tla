---------------------------- MODULE Reconciliation ----------------------------
(***************************************************************************)
(* State reconciliation (lumina_next/state_reconciliation_v1.py): claims of *)
(* several sources about one state key are reconciled by version, freshness *)
(* and authority, and StateReconciler keeps the projection that won, batch  *)
(* after batch.  Whatever is contradictory fails closed.                    *)
(*                                                                         *)
(* A claim is a record: key, version, profile, source, value, the time it   *)
(* was observed and whether its source calls it stale.  Ids, confidence and *)
(* evidence are left out.  A claim may be ahead of the clock by MaxFutureSkew *)
(* at most: a batch with one further ahead is refused as a whole.  Lifetimes *)
(* are in ticks.                                                            *)
(***************************************************************************)
EXTENDS Naturals, FiniteSets, Absent

CONSTANTS StateClaims,      \* [key, version, profile, source, value, observed, stale]
          Lifetime,    \* FRESHNESS_SLO_SECONDS, by source
          MaxFutureSkew, \* MAX_FUTURE_SKEW_SECONDS
          LastTick,    \* bound on time
          BatchSize    \* bound on the claims of one batch

Sources == {"godot_engine", "user_action", "stt_result", "perception_inference"}
Authority ==
    [spatial_fact |-> <<"godot_engine", "user_action", "stt_result", "perception_inference">>,
     user_intent |-> <<"user_action", "stt_result", "perception_inference", "godot_engine">>,
     speech_fact |-> <<"stt_result", "user_action", "perception_inference", "godot_engine">>,
     behavior_inference |->
        <<"user_action", "perception_inference", "stt_result", "godot_engine">>]

ASSUME ReconciliationAssumption ==
    /\ Lifetime \in [Sources -> Nat] /\ MaxFutureSkew \in Nat /\ LastTick \in Nat /\ BatchSize \in Nat
    /\ None \notin StateClaims
    /\ \A c \in StateClaims :
         /\ c.version \in Nat \ {0} /\ c.profile \in DOMAIN Authority
         /\ c.source \in Sources /\ c.stale \in BOOLEAN /\ c.observed \in Nat

Keys == {c.key : c \in StateClaims}

VARIABLES now,
          projection,   \* projections: the claim that stands for a key
          rivals        \* the claims ingested while it stood

reconcilerVars == <<now, projection, rivals>>

ReconcilerInit ==
    /\ now = 0
    /\ projection = [k \in Keys |-> None]
    /\ rivals = [k \in Keys |-> {}]

\* The age of a claim ahead of the clock counts as 0.
FreshClaim(c) == ~c.stale /\ now <= c.observed + Lifetime[c.source]
Priority(c) == CHOOSE i \in 1..4 : Authority[c.profile][i] = c.source

Newest(S) == {c \in S : \A d \in S : d.version <= c.version}
Strongest(S) == {c \in S : \A d \in S : Priority(c) <= Priority(d)}

\* The source decides, however old its observation.
DecidingAnyTime(S) == {CHOOSE c \in Strongest(Newest(S)) : TRUE}

\* The claims that decide: of the newest version, the strongest source, the
\* latest observation.
Deciding(S) ==
    {c \in Strongest(Newest(S)) : \A d \in Strongest(Newest(S)) : d.observed <= c.observed}

\* reconcile_state_claims: the claim selected, or None when it fails closed: all
\* claims are stale or a stale one is newer, the profiles differ or the deciding
\* claims contradict each other.
FreshOf(S) == {c \in S : FreshClaim(c)}
FailsClosed(S) ==
    \/ \E c \in S : \A d \in FreshOf(S) : d.version < c.version
    \/ \E c, d \in Newest(FreshOf(S)) : c.profile # d.profile
    \/ \E c, d \in Deciding(FreshOf(S)) : c.value # d.value
Selected(S) == IF FailsClosed(S) THEN None ELSE CHOOSE c \in Deciding(FreshOf(S)) : TRUE

\* get evicts a projection that is no longer current.
Current(k) ==
    IF projection[k] # None /\ FreshClaim(projection[k]) THEN projection[k] ELSE None

\* The projection of k once ingest has seen the claims S of its key: an older
\* winner is a rollback and ignored, one of the same version is reconciled with
\* the projection; a contradiction of the same or a newer version removes it.
Ingested(k, S) ==
    LET c == Current(k)
        s == Selected(S)
        both == Selected({c, s})
    IN  CASE s = None -> IF c # None /\ (\E d \in S : d.version >= c.version) THEN None ELSE c
          [] s # None /\ (c = None \/ s.version > c.version) -> s
          [] s # None /\ c # None /\ s.version < c.version -> c
          [] s # None /\ c # None /\ s.version = c.version -> both

Ingest(S) ==
    /\ \A c \in S : c.observed <= now + MaxFutureSkew
    /\ LET keys == {c.key : c \in S}
           of(k) == {c \in S : c.key = k}
       IN
       /\ projection' = [k \in Keys |-> IF k \in keys THEN Ingested(k, of(k))
                                                     ELSE projection[k]]
       /\ rivals' = [k \in Keys |->
            IF k \notin keys THEN rivals[k]
            ELSE IF projection'[k] = None THEN {}
            ELSE IF projection'[k] = Current(k) THEN rivals[k] \cup of(k)
            ELSE of(k)]
    /\ UNCHANGED now

GetEvicts(k) ==
    /\ projection[k] # None /\ Current(k) = None
    /\ projection' = [projection EXCEPT ![k] = None]
    /\ rivals' = [rivals EXCEPT ![k] = {}]
    /\ UNCHANGED now

ReconcilerTick == now < LastTick /\ now' = now + 1 /\ UNCHANGED <<projection, rivals>>

ReconcilerNext ==
    \/ \E S \in SUBSET StateClaims : IsFiniteSet(S) /\ Cardinality(S) \in 1..BatchSize /\ Ingest(S)
    \/ \E k \in Keys : GetEvicts(k)
    \/ ReconcilerTick

ReconcilerSpec == ReconcilerInit /\ [][ReconcilerNext]_reconcilerVars

-----------------------------------------------------------------------------
(* Properties.                                                              *)

\* Types; a projection is about its own key.
ReconcilerTypeOK ==
    /\ now \in 0..LastTick
    /\ projection \in [Keys -> StateClaims \cup {None}] /\ rivals \in [Keys -> SUBSET StateClaims]
    /\ \A k \in Keys : projection[k] # None => projection[k].key = k /\ ~projection[k].stale

\* The projection is unbeaten: of the claims received while it stood none is of
\* a newer version, and of its own version none that is still fresh comes from
\* a stronger source, or from an equal one and later or with another value.
Unbeaten(p, c) ==
    /\ c.version <= p.version
    /\ (c.version = p.version /\ FreshClaim(c)) =>
         /\ c.profile = p.profile
         /\ Priority(p) <= Priority(c)
         /\ Priority(p) = Priority(c) =>
              c.observed <= p.observed /\ (c.observed = p.observed => c.value = p.value)
ProjectionIsUnbeaten ==
    \A k \in Keys : projection[k] # None => \A c \in rivals[k] : Unbeaten(projection[k], c)

\* A projection that is still current is never rolled back to an older version.
CurrentIsNotRolledBack ==
    [][\A k \in Keys :
          (projection[k] # None /\ FreshClaim(projection[k]) /\ projection'[k] # None)
          => projection'[k].version >= projection[k].version]_reconcilerVars

=============================================================================
