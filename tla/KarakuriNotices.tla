--------------------------- MODULE KarakuriNotices --------------------------
(***************************************************************************)
(* How a notification of the Karakuri world is taken and answered: two     *)
(* machines that share no state.                                           *)
(*                                                                         *)
(* lumina_next/karakuri_world.py and karakuri_discord.py: a notification   *)
(* reaches Lumina by webhook, by the Discord channel, or by both, each as  *)
(* often as its sender likes.  A row of the ledger claims it, one turn at  *)
(* a time decides on it and sends a command to the world, and a failed row *)
(* may be claimed again.  Rows are in a database; tasks, the queue of the  *)
(* Discord bridge and its retry timers are not.                            *)
(*                                                                         *)
(* Of time a row keeps whether 180 s have passed since it was written and  *)
(* whether its retry is due.                                               *)
(*                                                                         *)
(* lumina_next/karakuri_session.py: a notification is answered once; who   *)
(* delivers it again while it is being answered waits for the future of    *)
(* the first, who does so later gets the answer that is remembered.  A     *)
(* future is known here by the caller that made it.                        *)
(***************************************************************************)
EXTENDS Naturals, Sequences, FiniteSets, Absent

CONSTANTS
    Notices,      \* notifications
    MaxAttempts,  \* claims of one row (3 in the code)
    QueueLimit,   \* capacity of the bridge's queue (64 in the code)
    MaxCrashes    \* how often the process ends (bound)

ASSUME KarakuriDeliveryAssumption ==
    /\ None \notin Notices
    /\ MaxAttempts \in Nat \ {0} /\ QueueLimit \in Nat \ {0} /\ MaxCrashes \in Nat

VARIABLES
    byWebhook, \* the world also calls the webhook
    row,       \* the rows of deliveries
    tasks,     \* webhook tasks of each notification that wait for the turn lock
    noticeQueue,     \* _notification_queue of the bridge
    worker,    \* the notification the bridge's worker is at
    timers,    \* notifications whose retry task sleeps
    noticeTurn,      \* the turn under way: its notification, who began it and where it is
    handed,      \* commands for each notification that the world took
    crashes

deliveryVars == <<byWebhook, row, tasks, noticeQueue, worker, timers, noticeTurn, handed, crashes>>

NoRow == [status |-> "none", attempts |-> 0, stale |-> FALSE, due |-> FALSE]
NoTurn == [notice |-> None, by |-> "webhook", at |-> "idle"]

DeliveryInit ==
    /\ byWebhook \in BOOLEAN
    /\ row = [n \in Notices |-> NoRow] /\ tasks = [n \in Notices |-> 0]
    /\ noticeQueue = <<>> /\ worker = None /\ timers = {} /\ noticeTurn = NoTurn
    /\ handed = [n \in Notices |-> 0] /\ crashes = 0

Queued(n) == worker = n \/ \E i \in DOMAIN noticeQueue : noticeQueue[i] = n

-----------------------------------------------------------------------------
(* KarakuriWorldLedger                                                     *)

\* claim: a new row; or a failed one whose retry is due, or one that nobody has written
\* for 180 s, up to three times.
Claimable(n) ==
    \/ row[n].status = "none"
    \/ /\ row[n].attempts < MaxAttempts
       /\ \/ row[n].status = "failed" /\ row[n].due
          \/ row[n].status \in {"received", "processing"} /\ row[n].stale

\* Mutant of Claims: a claim of an old row does not count as an attempt.
ClaimsFree(n) ==
    row' = [row EXCEPT ![n] = [status |-> "received", stale |-> FALSE, due |-> FALSE,
               attempts |-> IF row[n].status \in {"received", "processing"}
                            THEN row[n].attempts ELSE row[n].attempts + 1]]

Claims(n) ==
    row' = [row EXCEPT ![n] = [status |-> "received", stale |-> FALSE, due |-> FALSE,
                               attempts |-> row[n].attempts + 1]]

\* mark: what else ends a turn (expired, no_action, skipped, acknowledged, rejected) is "closed".
Marks(n, status) ==
    row' = [row EXCEPT ![n].status = status, ![n].stale = FALSE, ![n].due = FALSE]

Eligible(r) == r.status = "failed" /\ r.attempts < MaxAttempts

\* 180 s pass since the row was written, or the delay of its retry.
Later(n) ==
    /\ row[n].status \notin {"none", "acted", "closed"}
    /\ \/ ~row[n].stale /\ row' = [row EXCEPT ![n].stale = TRUE]
       \/ row[n].status = "failed" /\ ~row[n].due /\ row' = [row EXCEPT ![n].due = TRUE]
    /\ UNCHANGED <<byWebhook, tasks, noticeQueue, worker, timers, noticeTurn, handed, crashes>>

-----------------------------------------------------------------------------
(* Ways in                                                                 *)

\* karakuri_webhook: a claimed notification gets a background task.
WebhookArrives(n) ==
    /\ byWebhook /\ Claimable(n) /\ Claims(n)
    /\ tasks' = [tasks EXCEPT ![n] = @ + 1]
    /\ UNCHANGED <<byWebhook, noticeQueue, worker, timers, noticeTurn, handed, crashes>>

\* on_message, and on_ready for the last messages of the channel: what is queued is not
\* queued again, and what finds the queue full is dropped.
MessageArrives(n) ==
    /\ ~Queued(n) /\ Len(noticeQueue) < QueueLimit
    /\ noticeQueue' = Append(noticeQueue, n)
    /\ UNCHANGED <<byWebhook, row, tasks, worker, timers, noticeTurn, handed, crashes>>

\* _process_queued_message: claimed, or done with.
NoticeTaken ==
    /\ worker = None /\ noticeQueue # <<>>
    /\ noticeQueue' = Tail(noticeQueue)
    /\ IF Claimable(Head(noticeQueue)) THEN worker' = Head(noticeQueue) /\ Claims(Head(noticeQueue))
       ELSE UNCHANGED <<worker, row>>
    /\ UNCHANGED <<byWebhook, tasks, timers, noticeTurn, handed, crashes>>

\* _retry_after_delay sleeps until the retry is due; a notification queued meanwhile needs
\* no retry, and a full queue is waited for.
RetryFires(n) ==
    /\ n \in timers /\ row[n].due
    /\ \/ Queued(n) /\ UNCHANGED noticeQueue
       \/ ~Queued(n) /\ Len(noticeQueue) < QueueLimit /\ noticeQueue' = Append(noticeQueue, n)
    /\ timers' = timers \ {n}
    /\ UNCHANGED <<byWebhook, row, tasks, worker, noticeTurn, handed, crashes>>

-----------------------------------------------------------------------------
(* process_notification                                                    *)

\* The turn lock is got; the row is marked without looking at what it says by now.
TurnBegins(n) ==
    /\ noticeTurn = NoTurn
    /\ \/ /\ tasks[n] > 0 /\ tasks' = [tasks EXCEPT ![n] = @ - 1]
          /\ noticeTurn' = [notice |-> n, by |-> "webhook", at |-> "deciding"]
       \/ /\ worker = n /\ UNCHANGED tasks
          /\ noticeTurn' = [notice |-> n, by |-> "bridge", at |-> "deciding"]
    /\ Marks(n, "processing")
    /\ UNCHANGED <<byWebhook, noticeQueue, worker, timers, handed, crashes>>

\* The row is marked, the lock released; the bridge's worker then schedules a retry.
TurnEnds(status) ==
    /\ Marks(noticeTurn.notice, status)
    /\ noticeTurn' = NoTurn
    /\ timers' = IF noticeTurn.by = "bridge" /\ Eligible(row'[noticeTurn.notice])
                 THEN timers \cup {noticeTurn.notice} ELSE timers
    /\ worker' = IF noticeTurn.by = "bridge" THEN None ELSE worker

\* The notification is fetched and an action chosen, or there is none, or it fails.
Decides ==
    /\ noticeTurn.at = "deciding"
    /\ \/ /\ noticeTurn' = [noticeTurn EXCEPT !.at = "commanding"]
          /\ UNCHANGED <<row, timers, worker>>
       \/ \E status \in {"closed", "failed"} : TurnEnds(status)
    /\ UNCHANGED <<byWebhook, tasks, noticeQueue, handed, crashes>>

\* POST /agents/command: taken, and remembered; or refused; or it fails, and nobody knows
\* whether the world took it.
Commands ==
    /\ noticeTurn.at = "commanding"
    /\ \/ /\ handed' = [handed EXCEPT ![noticeTurn.notice] = @ + 1]
          /\ noticeTurn' = [noticeTurn EXCEPT !.at = "remembering"]
          /\ UNCHANGED <<row, timers, worker>>
       \/ TurnEnds("closed") /\ UNCHANGED handed
       \/ /\ TurnEnds("failed")
          /\ handed' \in {handed, [handed EXCEPT ![noticeTurn.notice] = @ + 1]}
    /\ UNCHANGED <<byWebhook, tasks, noticeQueue, crashes>>

\* The action is logged and a social turn reflected on; only the reflection may fail.
Remembers ==
    /\ noticeTurn.at = "remembering"
    /\ \E status \in {"acted", "failed"} : TurnEnds(status)
    /\ UNCHANGED <<byWebhook, tasks, noticeQueue, handed, crashes>>

\* The process ends, or its tasks are cancelled: nothing of them is written.
DeliveryCrash ==
    /\ crashes < MaxCrashes /\ crashes' = crashes + 1
    /\ tasks' = [n \in Notices |-> 0] /\ noticeQueue' = <<>> /\ worker' = None
    /\ timers' = {} /\ noticeTurn' = NoTurn
    /\ UNCHANGED <<byWebhook, row, handed>>

-----------------------------------------------------------------------------

TurnSteps == Decides \/ Commands \/ Remembers

DeliveryNext ==
    \/ \E n \in Notices : \/ Later(n) \/ WebhookArrives(n) \/ MessageArrives(n)
                          \/ RetryFires(n) \/ TurnBegins(n)
    \/ NoticeTaken \/ TurnSteps \/ DeliveryCrash

DeliverySpec == DeliveryInit /\ [][DeliveryNext]_deliveryVars

\* Requests end by their timeouts, the turn lock is first come first served, time passes.
DeliveryFairness ==
    /\ WF_deliveryVars(TurnSteps) /\ WF_deliveryVars(NoticeTaken)
    /\ \A n \in Notices : /\ SF_deliveryVars(TurnBegins(n)) /\ SF_deliveryVars(RetryFires(n))
                          /\ WF_deliveryVars(Later(n))

Working(n) == tasks[n] + (IF worker = n /\ noticeTurn.by # "bridge" THEN 1 ELSE 0)
                       + (IF noticeTurn.notice = n THEN 1 ELSE 0)

DeliveryTypeOK ==
    /\ byWebhook \in BOOLEAN /\ crashes \in 0..MaxCrashes
    /\ \A n \in Notices : /\ row[n].status \in {"none", "received", "processing", "failed",
                                               "closed", "acted"}
                          /\ row[n].attempts \in 0..MaxAttempts
                          /\ row[n].stale \in BOOLEAN /\ row[n].due \in BOOLEAN
    /\ \A i, j \in DOMAIN noticeQueue : noticeQueue[i] # worker /\ (noticeQueue[i] = noticeQueue[j] => i = j)
    /\ Len(noticeQueue) =< QueueLimit /\ worker \in Notices \cup {None} /\ timers \subseteq Notices
    /\ noticeTurn = NoTurn \/ noticeTurn.at \in {"deciding", "commanding", "remembering"}
    /\ noticeTurn.by = "bridge" => worker = noticeTurn.notice

\* A turn is paid for by a claim, also when a row is claimed again behind the back of a
\* task that still waits for the lock: no notification is acted on more than three times.
TurnsAreClaimed ==
    \A n \in Notices : handed[n] + Working(n) =< row[n].attempts
                                 + (IF noticeTurn.notice = n /\ noticeTurn.at = "remembering" THEN 1 ELSE 0)

\* While only the channel delivers, a notification that may be retried is retried: its
\* timer runs or it is queued, whatever is delivered again meanwhile.
RetryIsPending ==
    \A n \in Notices : ~byWebhook /\ crashes = 0 /\ Eligible(row[n])
                           => n \in timers \/ Queued(n)

Settled(r) == r.status \notin {"received", "processing"}
BeingSettled(n) == crashes = MaxCrashes /\ Working(n) > 0 /\ ~Settled(row[n])

\* "Never leave a delivery permanently stuck in processing" (karakuri_world.py:1247): with
\* no further crash, every notification that is worked at is settled.
WorkedAtIsSettled == \A n \in Notices : BeingSettled(n) ~> Settled(row[n])

-----------------------------------------------------------------------------
(* Second deliveries: karakuri_session.py                                  *)

CONSTANTS
    Deliveries, \* calls of handle_notification
    Messages,   \* notification ids
    MaxTries,   \* max_retries + 1
    MaxKept     \* max_notifications

ASSUME KarakuriSessionAssumption ==
    /\ None \notin Deliveries /\ MaxTries \in Nat \ {0} /\ MaxKept \in Nat \ {0}

VARIABLES
    call,    \* what each call is at, for which message, and whose future it waits for
    future,  \* the future of each call that made one
    record,  \* _notifications: who made the record, and whether it has a result
    kept,    \* the keys of _notifications, oldest first
    tries,   \* responder calls of each call
    history  \* the calls that added their turn to a history

karakuriVars == <<call, future, record, kept, tries, history>>

NoRecord == [owner |-> None, result |-> FALSE]

KarakuriInit ==
    /\ call = [c \in Deliveries |-> [at |-> "idle", message |-> None, waits |-> None]]
    /\ future = [c \in Deliveries |-> "pending"]
    /\ record = [m \in Messages |-> NoRecord] /\ kept = <<>>
    /\ tries = [c \in Deliveries |-> 0] /\ history = {}

At(c, at) == call' = [call EXCEPT ![c].at = at]

\* _trim_notifications: the oldest go, but only up to the first that is not done.
Kept(keys, rec, fut) ==
    {i \in DOMAIN keys : \/ i + MaxKept > Len(keys)
                         \/ \E j \in 1..i : fut[rec[keys[j]].owner] = "pending"}

\* What is trimmed is the front of the queue.
Trimmed(keys, rec, fut) ==
    LET stay == Kept(keys, rec, fut)
        gone == Len(keys) - Cardinality(stay)
    IN /\ kept' = SubSeq(keys, gone + 1, Len(keys))
       /\ record' = [m \in Messages |-> IF \E i \in 1..gone : keys[i] = m THEN NoRecord ELSE rec[m]]

\* handle_notification under the lock: a remembered answer, a wait, or a record of its own.
Delivered(c, m) ==
    /\ call[c].at = "idle"
    /\ \/ /\ record[m].result
          /\ call' = [call EXCEPT ![c] = [at |-> "duplicate", message |-> m, waits |-> None]]
          /\ UNCHANGED <<record, kept>>
       \/ /\ ~record[m].result /\ record[m].owner # None
          /\ call' = [call EXCEPT ![c] = [at |-> "waiting", message |-> m, waits |-> record[m].owner]]
          /\ UNCHANGED <<record, kept>>
       \/ /\ record[m].owner = None
          /\ call' = [call EXCEPT ![c] = [at |-> "responding", message |-> m, waits |-> None]]
          /\ Trimmed(Append(kept, m), [record EXCEPT ![m] = [owner |-> c, result |-> FALSE]], future)
    /\ UNCHANGED <<future, tries, history>>

\* _respond: a try fails or times out, and another follows while there is one; no text and
\* a cooldown need no try.  An answer adds its turn to the history.
Responds(c) ==
    /\ call[c].at = "responding"
    /\ \/ /\ tries[c] < MaxTries /\ tries' = [tries EXCEPT ![c] = @ + 1]
          /\ \/ history' = history \cup {c} /\ At(c, "settling")
             \/ UNCHANGED <<history, call>>
       \/ At(c, "settling") /\ tries[c] \in {0, MaxTries} /\ UNCHANGED <<tries, history>>
    /\ UNCHANGED <<future, record, kept>>

\* The record of the message, whoever made it by now, gets the result and its future too.
Settles(c) ==
    /\ call[c].at = "settling" /\ At(c, "done")
    /\ IF record[call[c].message].owner = None THEN UNCHANGED <<future, record, kept>>
       ELSE LET owner == record[call[c].message].owner
            IN /\ future' = [future EXCEPT ![owner] = IF @ = "pending" THEN "done" ELSE @]
               /\ Trimmed(kept, [record EXCEPT ![call[c].message].result = TRUE], future')
    /\ UNCHANGED <<tries, history>>

\* Who waits gets the answer of the first, or its cancellation.
WaitEnds(c) ==
    /\ call[c].at = "waiting" /\ future[call[c].waits] # "pending"
    /\ At(c, IF future[call[c].waits] = "done" THEN "duplicate" ELSE "cancelled")
    /\ UNCHANGED <<future, record, kept, tries, history>>

\* A call is cancelled: the first cancels the future it finds in the record, one that
\* waits cancels the very future it awaits, as a task of asyncio does.
CallCancelled(c) ==
    /\ call[c].at \in {"responding", "waiting"}
    /\ LET hit == IF call[c].at = "waiting" THEN call[c].waits ELSE record[call[c].message].owner
       IN future' = [d \in Deliveries |-> IF d = hit /\ future[d] = "pending" THEN "cancelled"
                                          ELSE future[d]]
    /\ At(c, "cancelled")
    /\ UNCHANGED <<record, kept, tries, history>>

KarakuriNext ==
    \E c \in Deliveries :
       \/ \E m \in Messages : Delivered(c, m)
       \/ Responds(c) \/ Settles(c) \/ WaitEnds(c) \/ CallCancelled(c)

KarakuriSpec == KarakuriInit /\ [][KarakuriNext]_karakuriVars

KarakuriSteps(c) == Responds(c) \/ Settles(c) \/ WaitEnds(c)

\* A try ends by its timeout, and what nothing holds back goes on.
KarakuriFairness ==
    \A c \in Deliveries : WF_karakuriVars(KarakuriSteps(c))

KarakuriTypeOK ==
    /\ \A c \in Deliveries :
          /\ call[c].at \in {"idle", "responding", "settling", "waiting", "duplicate", "done", "cancelled"}
          /\ future[c] \in {"pending", "done", "cancelled"} /\ tries[c] \in 0..MaxTries
          /\ call[c].at = "waiting" => call[c].waits \in Deliveries
    /\ history \subseteq Deliveries
    /\ \A m \in Messages : record[m] = NoRecord <=> (\A i \in DOMAIN kept : kept[i] # m)
    /\ \A i, j \in DOMAIN kept : kept[i] = kept[j] => i = j

\* "Consume one notification exactly once" (karakuri_session.py:197): while the future of
\* a first delivery is pending its record is there, so that nobody answers beside it.  A
\* cancelled wait cancels that future, and what is left of the promise then is the limit.
OneFirst ==
    \A c \in Deliveries :
        call[c].at \in {"responding", "settling"} /\ future[c] = "pending"
            => record[call[c].message].owner = c

\* A notification is claimed before it is worked at and retried until it is settled, and of
\* its deliveries one answers.
NoticesAreClaimed ==
    DeliveryTypeOK /\ TurnsAreClaimed /\ RetryIsPending /\ KarakuriTypeOK /\ OneFirst

\* Who waits for another's answer hears of it, whatever becomes of the other.
WaitersHear ==
    (\E c \in Deliveries : call[c].at = "waiting")
        ~> (\A c \in Deliveries : call[c].at # "waiting")
=============================================================================
