---------------------------- MODULE LiteRTSession ----------------------------
(***************************************************************************)
(* A conversation turn over the one resident LiteRT conversation:          *)
(* LuminaOrchestrator.chat, cancel, cancel_all and prepare_litert_session  *)
(* (lumina_next/orchestrator.py) above LiteRTPersistentProvider            *)
(* (lumina_next/providers/litert_persistent.py).                           *)
(*                                                                         *)
(* Three copies of a conversation must agree: the history displayed to the *)
(* caller (per session), the provider's visible transcript (of the session *)
(* it serves) and the native context of the sidecar process.  A transcript *)
(* is a sequence of turns; a turn is the request that made it and whether  *)
(* its text is the one the model generated ("raw") or was altered by the   *)
(* guards ("guarded").  The sidecar is external: it hydrates an unprepared *)
(* conversation from the request, keeps its context otherwise, and goes on *)
(* for a while when its client has gone.                                   *)
(*                                                                         *)
(* The system prompt is read once, when the orchestrator is made, and every *)
(* turn passes the same: the provider's refusal of another one while it    *)
(* serves a session (system_drift) cannot occur and is left out.           *)
(***************************************************************************)
EXTENDS Naturals, Sequences, FiniteSets, SequencesExt, Absent

CONSTANTS Sessions, TurnRequests, SessionOf,
          HistoryLimit,      \* litert_max_history_messages, in turns
          MaxCancels,        \* bound on the requests cancelled
          MaxSidecarFaults   \* bound on refused, failed and restarted sidecars

ASSUME LiteRTAssumption ==
    /\ SessionOf \in [TurnRequests -> Sessions]
    /\ None \notin Sessions \cup TurnRequests
    /\ HistoryLimit \in Nat /\ MaxCancels \in Nat /\ MaxSidecarFaults \in Nat

VARIABLES turn,       \* each request: where its task is, or how it ended
          asked,      \* requests whose task has been asked to cancel itself
          holder,     \* owner of the turn lock
          hostState,  \* ResourceScheduler.state
          displayed,  \* history of each session
          reset,      \* reset_required of each session
          provider,   \* the provider's view of the resident conversation
          sidecar,    \* the external process: [ready, ctx, busy]
          sent,       \* the history of the generation in progress
          requested,  \* requests for which cancel() returned True
          sidecarFaults

turnVars == <<turn, asked, holder, hostState, displayed, reset, provider,
              sidecar, sent, requested, sidecarFaults>>

Transcripts == SeqOf([by : TurnRequests, text : {"raw", "guarded"}], HistoryLimit + 1)
InProvider == {"resetting", "recovering", "preparing", "generating"}
Pending == {"queued", "thinking", "speaking"} \cup InProvider
Endings == {"answered", "cancelled", "failed", "refused", "drift"}

SessionInit ==
    /\ turn = [r \in TurnRequests |-> "new"]
    /\ asked = {}
    /\ holder = None
    /\ hostState = "idle"
    /\ displayed = [s \in Sessions |-> <<>>]
    /\ reset = [s \in Sessions |-> FALSE]
    /\ provider = [key |-> None, visible |-> <<>>, recovery |-> FALSE, ready |-> FALSE]
    /\ sidecar = [ready |-> FALSE, ctx |-> <<>>, busy |-> FALSE]
    /\ sent = <<>>
    /\ requested = {}
    /\ sidecarFaults = 0

-----------------------------------------------------------------------------
(* Entering and leaving the turn lock.                                      *)

\* chat registers its task under its request id; prepare_litert_session is not
\* registered and cannot be cancelled.  Both wait for the turn lock.
TurnArrives(r) ==
    /\ turn[r] = "new"
    /\ turn' = [turn EXCEPT ![r] = "queued"]
    /\ UNCHANGED <<asked, holder, hostState, displayed, reset, provider, sidecar,
                   sent, requested, sidecarFaults>>

TurnLocks(r) ==
    /\ turn[r] = "queued" /\ r \notin asked /\ holder = None
    /\ holder' = r
    /\ hostState' = "thinking"
    /\ turn' = [turn EXCEPT ![r] = "thinking"]
    /\ UNCHANGED <<asked, displayed, reset, provider, sidecar, sent, requested,
                   sidecarFaults>>

\* The finally clauses: the host is idle again and the lock is released.
FinishTurn(r, ending) ==
    /\ turn' = [turn EXCEPT ![r] = ending]
    /\ holder' = None
    /\ hostState' = "idle"

TurnTrimmed(h) == IF Len(h) > HistoryLimit
              THEN SubSeq(h, Len(h) - HistoryLimit + 1, Len(h)) ELSE h

\* mark_poisoned, and the reset_required of the failing turn's session.
Poison == provider' = [provider EXCEPT !.recovery = TRUE, !.ready = FALSE]
NeedsReset(r) == reset' = [reset EXCEPT ![SessionOf[r]] = TRUE]

-----------------------------------------------------------------------------
(* The provider: one native conversation for every session.                *)

\* The prelude of chat_session, with the history check that ends it.
StartGeneration(r, p, sc) ==
    IF p.visible = displayed'[SessionOf[r]]
    THEN /\ turn' = [turn EXCEPT ![r] = "generating"]
         /\ sent' = p.visible
         /\ sidecar' = [ready |-> TRUE, busy |-> TRUE,
                        ctx |-> IF sc.ready THEN sc.ctx ELSE p.visible]
         /\ UNCHANGED <<holder, hostState, reset>>
    ELSE /\ FinishTurn(r, "drift")
         /\ NeedsReset(r)
         /\ sidecar' = sc
         /\ UNCHANGED sent

\* _chat_serialized up to the call: refused under critical pressure; otherwise
\* the history is trimmed and the provider resets when the session changed,
\* when the caller asks for it, or when it has to recover.
TurnRefused(r) ==
    /\ turn[r] = "thinking" /\ r \notin asked
    /\ FinishTurn(r, "refused")
    /\ UNCHANGED <<asked, displayed, reset, provider, sidecar, sent, requested,
                   sidecarFaults>>

TurnCalls(r) ==
    LET s == SessionOf[r]
        h == TurnTrimmed(displayed[s])
    IN
    /\ turn[r] = "thinking" /\ r \notin asked
    /\ displayed' = [displayed EXCEPT ![s] = h]
    /\ LET adopts == provider.key # s \/ reset[s] \/ h # displayed[s] IN
       IF adopts \/ provider.recovery
       THEN /\ turn' = [turn EXCEPT ![r] = IF adopts THEN "resetting" ELSE "recovering"]
            /\ reset' = [reset EXCEPT ![s] = @ \/ h # displayed[s]]
            /\ UNCHANGED <<holder, hostState, sidecar, sent>>
       ELSE StartGeneration(r, provider, sidecar)
    /\ UNCHANGED <<asked, provider, requested, sidecarFaults>>

\* _adopt_context_locked: the sidecar is reset once it is no longer busy, and
\* the transcript adopted: the caller's, or on recovery the provider's own.
Adopted(r) == IF turn[r] = "resetting" THEN displayed[SessionOf[r]] ELSE provider.visible

TurnResets(r) ==
    LET p == [key |-> SessionOf[r], visible |-> Adopted(r), recovery |-> FALSE,
              ready |-> FALSE]
        sc == [ready |-> FALSE, ctx |-> <<>>, busy |-> FALSE]
    IN
    /\ turn[r] \in {"resetting", "recovering"} /\ r \notin asked /\ ~sidecar.busy
    /\ provider' = p
    /\ UNCHANGED displayed
    /\ IF Adopted(r) = <<>>
       THEN /\ turn' = [turn EXCEPT ![r] = "preparing"]
            /\ sidecar' = sc
            /\ UNCHANGED <<holder, hostState, reset, sent>>
       ELSE StartGeneration(r, p, sc)
    /\ UNCHANGED <<asked, requested, sidecarFaults>>

\* _prepare_remote_locked: an empty session is prepared (and primed).
TurnPrepared(r) ==
    LET sc == [sidecar EXCEPT !.ready = TRUE] IN
    /\ turn[r] = "preparing" /\ r \notin asked
    /\ provider' = [provider EXCEPT !.ready = TRUE]
    /\ UNCHANGED displayed
    /\ StartGeneration(r, provider, sc)
    /\ UNCHANGED <<asked, requested, sidecarFaults>>

\* The wait for a busy sidecar has no deadline.
TurnFailsNeverBusy(r) ==
    /\ turn[r] \in InProvider /\ r \notin asked /\ ~sidecar.busy
    /\ sidecarFaults < MaxSidecarFaults
    /\ sidecarFaults' = sidecarFaults + 1
    /\ Poison /\ NeedsReset(r) /\ FinishTurn(r, "failed")
    /\ UNCHANGED <<asked, displayed, sidecar, sent, requested>>

\* Any request to the sidecar may fail: it stays busy past the deadline, it
\* refuses, its stream breaks off or its answer is unsafe.
TurnFails(r) ==
    /\ turn[r] \in InProvider /\ r \notin asked
    /\ \/ /\ turn[r] \in {"resetting", "recovering"} /\ sidecar.busy
          /\ UNCHANGED sidecarFaults
       \/ /\ sidecarFaults < MaxSidecarFaults
          /\ sidecarFaults' = sidecarFaults + 1
    /\ Poison
    /\ NeedsReset(r)
    /\ FinishTurn(r, "failed")
    /\ UNCHANGED <<asked, displayed, sidecar, sent, requested>>

\* The guards alter the text and nobody asks for a reset.
TurnGeneratedUnflagged(r) ==
    LET s == SessionOf[r] IN
    /\ turn[r] = "generating" /\ r \notin asked
    /\ provider' = [provider EXCEPT !.ready = TRUE, !.recovery = FALSE,
                                    !.visible = Append(@, [by |-> r, text |-> "raw"])]
    /\ sidecar' = [sidecar EXCEPT !.busy = FALSE,
                                  !.ctx = Append(@, [by |-> r, text |-> "raw"])]
    /\ displayed' = [displayed EXCEPT ![s] =
                        TurnTrimmed(Append(@, [by |-> r, text |-> "guarded"]))]
    /\ reset' = [reset EXCEPT ![s] = FALSE]
    /\ turn' = [turn EXCEPT ![r] = "speaking"]
    /\ sent' = <<>>
    /\ UNCHANGED <<asked, holder, hostState, requested, sidecarFaults>>

\* A complete answer: the provider appends it raw, the orchestrator as the
\* guards left it, and asks for a reset when the two differ.  An altered answer
\* is trimmed by the next turn only.
TurnGenerated(r) ==
    LET s == SessionOf[r] IN
    /\ turn[r] = "generating" /\ r \notin asked
    /\ provider' = [provider EXCEPT !.ready = TRUE, !.recovery = FALSE,
                                    !.visible = Append(@, [by |-> r, text |-> "raw"])]
    /\ sidecar' = [sidecar EXCEPT !.busy = FALSE,
                                  !.ctx = Append(@, [by |-> r, text |-> "raw"])]
    /\ \E text \in {"raw", "guarded"} :
         LET h == Append(displayed[s], [by |-> r, text |-> text])
             kept == IF text = "guarded" THEN h ELSE TurnTrimmed(h)
         IN
         /\ displayed' = [displayed EXCEPT ![s] = kept]
         /\ reset' = [reset EXCEPT ![s] = text = "guarded" \/ kept # h]
    /\ turn' = [turn EXCEPT ![r] = "speaking"]
    /\ sent' = <<>>
    /\ UNCHANGED <<asked, holder, hostState, requested, sidecarFaults>>

\* After the answer: the pressure is read again, the answer is spoken and
\* dispatched, and the turn returns or its speech fails.
TurnSpeaks(r) ==
    /\ turn[r] = "speaking" /\ r \notin asked
    /\ \E critical \in BOOLEAN :
         reset' = [reset EXCEPT ![SessionOf[r]] = @ \/ critical]
    /\ \E ending \in {"answered", "failed"} : FinishTurn(r, ending)
    /\ UNCHANGED <<asked, displayed, provider, sidecar, sent, requested, sidecarFaults>>

-----------------------------------------------------------------------------
(* Cancellation.                                                            *)

\* cancel(request_id): only the task of that request is asked to stop; every
\* session is rehydrated on its next turn.  cancel_all repeats it.
CancelTurn(r) ==
    /\ turn[r] \in Pending /\ r \notin asked
    /\ Cardinality(requested) < MaxCancels
    /\ requested' = requested \cup {r}
    /\ asked' = asked \cup {r}
    /\ reset' = [s \in Sessions |-> TRUE]
    /\ UNCHANGED <<turn, holder, hostState, displayed, provider, sidecar, sent,
                   sidecarFaults>>

\* CancelledError is raised where the task waits.
TurnCancelled(r) ==
    /\ r \in asked /\ turn[r] \in Pending
    /\ IF turn[r] = "queued"
       THEN turn' = [turn EXCEPT ![r] = "cancelled"] /\ UNCHANGED <<holder, hostState>>
       ELSE FinishTurn(r, "cancelled")
    /\ IF turn[r] \in InProvider
       THEN Poison /\ NeedsReset(r)
       ELSE UNCHANGED <<provider, reset>>
    /\ asked' = asked \ {r}
    /\ UNCHANGED <<displayed, sidecar, sent, requested, sidecarFaults>>

-----------------------------------------------------------------------------
(* prepare_litert_session, the provider's health check and the sidecar.    *)

\* A session without visible turns is reset, prepared and primed under the turn
\* lock, in one step: nothing else uses the provider while the lock is held.
\* One that is prepared already only has its health compared.
PrepareSession(s) ==
    /\ holder = None /\ displayed[s] = <<>>
    /\ reset' = [reset EXCEPT ![s] = FALSE]
    /\ IF provider = [key |-> s, visible |-> <<>>, recovery |-> FALSE, ready |-> TRUE]
       THEN /\ UNCHANGED sidecar
            /\ IF sidecar.ready THEN UNCHANGED provider ELSE Poison
       ELSE /\ ~sidecar.busy
            /\ sidecar' = [ready |-> TRUE, ctx |-> <<>>, busy |-> FALSE]
            /\ provider' = [key |-> s, visible |-> <<>>, recovery |-> FALSE, ready |-> TRUE]
    /\ UNCHANGED <<turn, asked, holder, hostState, displayed, sent, requested,
                   sidecarFaults>>

\* The preparation that fails between the reset and the end of prepare.
PrepareFails(s) ==
    /\ holder = None /\ displayed[s] = <<>> /\ sidecarFaults < MaxSidecarFaults
    /\ sidecarFaults' = sidecarFaults + 1
    /\ \/ UNCHANGED sidecar
          /\ provider' = [provider EXCEPT !.recovery = TRUE, !.ready = FALSE]
       \/ /\ ~sidecar.busy
          /\ sidecar' = [ready |-> FALSE, ctx |-> <<>>, busy |-> FALSE]
          /\ provider' = [key |-> s, visible |-> <<>>, recovery |-> TRUE, ready |-> FALSE]
    /\ UNCHANGED <<turn, asked, holder, hostState, displayed, reset, sent, requested>>

\* health() takes the provider lock, which a turn holds while it uses the
\* provider: one that drifted, restarted or does not answer is to be recovered.
HealthDrift ==
    /\ \A r \in TurnRequests : turn[r] \notin InProvider
    /\ \/ provider.ready # sidecar.ready /\ UNCHANGED sidecarFaults
       \/ /\ sidecarFaults < MaxSidecarFaults
          /\ sidecarFaults' = sidecarFaults + 1
    /\ Poison
    /\ UNCHANGED <<turn, asked, holder, hostState, displayed, reset, sidecar, sent,
                   requested>>

\* The native generation of a client that has gone: it unwinds poisoned, or it
\* still completes and its turn stays in the native context.
SidecarUnwinds ==
    /\ sidecar.busy /\ \A r \in TurnRequests : turn[r] # "generating"
    /\ \E r \in TurnRequests, completes \in BOOLEAN :
         sidecar' = IF completes /\ Len(sidecar.ctx) <= HistoryLimit
                    THEN [sidecar EXCEPT !.busy = FALSE,
                                         !.ctx = Append(@, [by |-> r, text |-> "raw"])]
                    ELSE [ready |-> FALSE, ctx |-> <<>>, busy |-> FALSE]
    /\ UNCHANGED <<turn, asked, holder, hostState, displayed, reset, provider, sent,
                   requested, sidecarFaults>>

SidecarRestarts ==
    /\ sidecarFaults < MaxSidecarFaults
    /\ \A r \in TurnRequests : turn[r] \notin {"preparing", "generating"}
    /\ sidecarFaults' = sidecarFaults + 1
    /\ sidecar' = [ready |-> FALSE, ctx |-> <<>>, busy |-> FALSE]
    /\ UNCHANGED <<turn, asked, holder, hostState, displayed, reset, provider, sent,
                   requested>>

SessionNext ==
    \/ \E r \in TurnRequests : \/ TurnArrives(r) \/ TurnLocks(r) \/ TurnRefused(r)
                           \/ TurnCalls(r) \/ TurnResets(r) \/ TurnPrepared(r)
                           \/ TurnFails(r) \/ TurnGenerated(r) \/ TurnSpeaks(r)
                           \/ CancelTurn(r) \/ TurnCancelled(r)
    \/ \E s \in Sessions : PrepareSession(s) \/ PrepareFails(s)
    \/ HealthDrift \/ SidecarUnwinds \/ SidecarRestarts

TurnProceeds(r) ==
    \/ TurnRefused(r) \/ TurnCalls(r) \/ TurnResets(r) \/ TurnPrepared(r)
    \/ TurnFails(r) \/ TurnGenerated(r) \/ TurnSpeaks(r) \/ TurnCancelled(r)

SessionFairness ==
    /\ \A r \in TurnRequests : WF_turnVars(TurnLocks(r)) /\ WF_turnVars(TurnProceeds(r))
SessionSpec == SessionInit /\ [][SessionNext]_turnVars
FairSessionSpec == SessionSpec /\ SessionFairness

-----------------------------------------------------------------------------
(* Properties.                                                              *)

\* Types; the lock, the turn that owns it and the state the host reports go
\* together, also after a cancellation.
SessionTypeOK ==
    /\ turn \in [TurnRequests -> {"new"} \cup Pending \cup Endings]
    /\ asked \subseteq TurnRequests /\ requested \subseteq TurnRequests
    /\ displayed \in [Sessions -> Transcripts] /\ reset \in [Sessions -> BOOLEAN]
    /\ sidecarFaults \in 0..MaxSidecarFaults
    /\ hostState = "idle" <=> holder = None
    /\ \A r \in TurnRequests : holder = r <=> turn[r] \in Pending \ {"queued"}

\* The model never answers from a context other than the history displayed to
\* the caller: silent drift of the native conversation is impossible, whatever
\* was trimmed, altered, cancelled, restarted or switched before.
AnswersFromDisplayed ==
    \A r \in TurnRequests : turn[r] = "generating" =>
        /\ sidecar.ctx = displayed[SessionOf[r]]
        /\ sent = displayed[SessionOf[r]]

\* The fail-closed history_drift check is never what ends a turn: every
\* divergence of the provider's transcript has asked for a reset.
NoTurnDrifts == \A r \in TurnRequests : turn[r] # "drift"

\* A turn ends as cancelled only when cancel() named it: cancelling a queued
\* turn leaves the turn that owns the conversation alone.
OnlyNamedTurnsAreCancelled ==
    \A r \in TurnRequests : turn[r] = "cancelled" => r \in requested

\* Every turn that was accepted ends, so nobody keeps the turn lock.
TurnsEnd == \A r \in TurnRequests : turn[r] = "queued" ~> turn[r] \in Endings

=============================================================================
