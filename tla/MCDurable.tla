------------------------------ MODULE MCDurable -----------------------------
(***************************************************************************)
(* What is kept and what is allowed: the resource epoch, sleep, the        *)
(* memories of a night, the store, the consent ledger and the repairs,     *)
(* permissions, effects and tokens, one at a time: a behaviour is of one   *)
(* part, and the others stay as they began.                                *)
(***************************************************************************)
EXTENDS ResourceEpoch, SleepCycle, MemorySleep, MemoryGovernance, MemoryStore, ActionPermission,
        EmbodiedAction, ScopeToken, ServiceProofs, TLC

CONSTANTS c1, c2, someone, view1, view2, line1, val1, val2, id1, id2, u1, g1, b1, b2, k1, k2,
          q1, q2, chair, ann, bob, tok1, tok2

VARIABLE part  \* the part a behaviour is of

\* epoch: two clients of one journal; free memory on the limit and below it, and a growth above its limit, below it and below the peak.
MCClients      == {c1, c2}
MCFreeReadings == {1, 2}
MCSwapReadings == {3}
MCInitialEpochs == {[baseline |-> 0, peak |-> 0, blockedReason |-> "none"],
                    [baseline |-> 2, peak |-> 2, blockedReason |-> "none"]}
Symmetry == Permutations(MCClients)

\* sleep: days of three hours with a window of one, and one restart.
MCPasses == {[mode |-> "deep", remain |-> FALSE]}
MCWindow == {0}

\* night: four nights whose events contradict, crowd out or repeat each other.
Happened(k, key, value, at, salient) ==
    [kind |-> k, key |-> key, value |-> value, at |-> at, salient |-> salient, episode |-> FALSE]
MCNights ==
    {<<Happened("semantic", "home", "oslo", 1, FALSE), Happened("semantic", "home", "rome", 2, FALSE)>>,
     <<Happened("semantic", "home", "rome", 3, TRUE), Happened("working", "", "walk", 4, TRUE)>>,
     <<Happened("working", "", "talk", 5, TRUE), Happened("identity", "name", "lumina", 6, TRUE)>>,
     <<Happened("working", "", "talk", 7, FALSE), Happened("episodic", "", "storm", 8, FALSE)>>}

\* consent: one person's consent and two items.
MCPeople == {someone}

\* repair: two projections of one lineage; the consent to forget it is not yet in force at first.
MCProjections == {view1, view2}
MCLineages == {line1}
MCValues == {val1, val2}
MCRepairIds == {id1, id2}
MCInstants == 0..1
MCConsentTimes == {<<1, 2>>}

\* recall: two conversations of two turns in all, one imported fact, and an extension that comes and goes.
MCRemarks == {[text |-> <<"tea">>, reaction |-> "short"], [text |-> <<"sing", "tea">>, reaction |-> "continued"],
              [text |-> <<"no">>, reaction |-> "rejected"]}
MCReply == <<"ok">>
MCLegacyFacts == << <<"tea">> >>
MCWanted == {[words |-> {"tea"}, embedded |-> TRUE], [words |-> {"sing", "no"}, embedded |-> FALSE]}

\* permission: one user and one grant; effects of each risk.
MCUsers == {u1}
MCGrants == {g1}
MCEffects == [read_public |-> [risk |-> "LOW", approval |-> FALSE, rollback |-> FALSE],
              sensor_capture |-> [risk |-> "HIGH", approval |-> TRUE, rollback |-> FALSE],
              delete_data |-> [risk |-> "CRITICAL", approval |-> TRUE, rollback |-> TRUE]]
MCLimited == {"sensor_capture"}
MCAlways == {"delete_data"}
MCRequests == {[user |-> u1, effect |-> r[1], scope |-> r[2], rollback |-> r[3], prohibited |-> r[4]] :
                  r \in {<<"sensor_capture", "room", FALSE, FALSE>>, <<"sensor_capture", "hall", FALSE, FALSE>>,
                         <<"delete_data", "room", TRUE, FALSE>>, <<"delete_data", "room", FALSE, FALSE>>,
                         <<"read_public", "room", FALSE, TRUE>>}}

\* effect: requests that share a dispatch id, a scope or a receipt; one of each kind that is refused; worlds and receipts that grow old.
World(safe, what, near, standing, until) ==
    [safe |-> safe, sure |-> TRUE, kind |-> what, visible |-> TRUE, navigable |-> TRUE, posture |-> standing,
     free |-> standing = "standing", near |-> near, until |-> until]
Act(b, k, q, what, aim, around, until) ==
    [dispatch |-> b, scope |-> k, intent |-> what, target |-> aim, deadline |-> 2, withdrawn |-> FALSE,
     undoable |-> TRUE, world |-> around, risk |-> [about |-> <<b, k, what, aim>>, permitted |-> TRUE],
     receipt |-> [id |-> q, about |-> <<b, k, what, aim>>, mode |-> "LIMITED_AUTO", until |-> until]]
Quiet(until) == World(TRUE, "object", TRUE, "standing", until)
Sits == Act(b1, k1, q1, "sit", chair, Quiet(1), 2)
MCActions ==
    {Sits, Act(b1, k2, q2, "sit", chair, Quiet(2), 1), Act(b2, k2, q1, "approach", chair, Quiet(2), 2),
     Act(b2, k2, q2, "gesture", None, Quiet(2), 2), Act(b2, k1, q2, "look", chair, Quiet(2), 2),
     [Act(b2, k1, q2, "look", chair, Quiet(2), 2) EXCEPT !.withdrawn = TRUE],
     [Sits EXCEPT !.receipt.mode = "PROPOSE_ONLY"], [Sits EXCEPT !.risk.about = Sits.receipt.about \o <<"self">>],
     [Sits EXCEPT !.world = World(FALSE, "object", TRUE, "standing", 2)], [Sits EXCEPT !.target = None],
     Act(b2, k2, q2, "stand", None, World(TRUE, "user", FALSE, "seated", 2), 2)}

\* token: two people, a guest's rights and a member's, two tokens.
MCSubjects == {ann, bob}
MCRights == [member |-> {"memory", "action"}, guest |-> {"world"}]
MCTokenIds == {tok1, tok2}
MCSeconds == 0..2

Parts == {"epoch", "sleep", "night", "consent", "repair", "recall", "permission", "effect",
          "token"}

partsVars == <<part, vars, sleepVars, memoryVars, controlVars, repairVars, storeVars,
                  permissionVars, actionVars, tokenVars>>

\* A part that may begin in several ways begins in one of them in the behaviours of the others.
PartsInit ==
    /\ part \in Parts
    /\ IF part = "repair" THEN TRUE ELSE bundles = {[rev |-> 1, asOf |-> 0, held |-> [p \in Projections |-> [l \in Lineages |-> None]],
                                                       tombstones |-> {}, audit |-> {}]}
    /\ Init /\ SleepInit /\ MemoryInit /\ ControlInit /\ RepairInit
    /\ StoreInit /\ PermissionInit /\ ActionInit /\ TokenInit

OthersRest ==
    /\ UNCHANGED part
    /\ IF part = "epoch" THEN TRUE ELSE UNCHANGED vars
    /\ IF part = "sleep" THEN TRUE ELSE UNCHANGED sleepVars
    /\ IF part = "night" THEN TRUE ELSE UNCHANGED memoryVars
    /\ IF part = "consent" THEN TRUE ELSE UNCHANGED controlVars
    /\ IF part = "repair" THEN TRUE ELSE UNCHANGED repairVars
    /\ IF part = "recall" THEN TRUE ELSE UNCHANGED storeVars
    /\ IF part = "permission" THEN TRUE ELSE UNCHANGED permissionVars
    /\ IF part = "effect" THEN TRUE ELSE UNCHANGED actionVars
    /\ IF part = "token" THEN TRUE ELSE UNCHANGED tokenVars

PartsNext ==
    \/ part = "epoch" /\ OthersRest /\ Next
    \/ part = "sleep" /\ OthersRest /\ SleepNext
    \/ part = "night" /\ OthersRest /\ MemoryNext
    \/ part = "consent" /\ OthersRest /\ ControlNext
    \/ part = "repair" /\ OthersRest /\ RepairNext
    \/ part = "recall" /\ OthersRest /\ StoreNext
    \/ part = "permission" /\ OthersRest /\ PermissionNext
    \/ part = "effect" /\ OthersRest /\ ActionNext
    \/ part = "token" /\ OthersRest /\ TokenNext

PartsSpec == PartsInit /\ [][PartsNext]_partsVars

-----------------------------------------------------------------------------
\* Each property gathers what the modules of one concern promise; their comments say what
\* it is about.  MemoryIsGoverned and PermissionsAreCovered are of ServiceProofs.

\* Memory: nights contradict nothing, count once and are undone from the last; what is
\* recalled is what the store still holds.
MemoriesAreSound ==
    /\ [](part = "night" => MemoryTypeOK /\ NoActiveContradiction /\ NightsCountOnce)
    /\ OnlyTheLastIsUndone
    /\ [](part = "recall" => StoreTypeOK /\ ToldFromTheStore)
=============================================================================
