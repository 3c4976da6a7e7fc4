----------------------------- MODULE WorldProofs -----------------------------
(***************************************************************************)
(* Proofs about what comes from outside, and what she does by herself: the *)
(* notifications of the Karakuri world, the rooms, the claims about state  *)
(* and the frames of the engine; the tick, the goals, the initiatives.     *)
(*                                                                         *)
(* NoticeInv adds to the properties of a delivery where a notification can *)
(* be: once in the queue or with the worker, never both, and with a timer  *)
(* or a due place in the queue while its row may be retried.  FirstInv     *)
(* ties the records of a session to the order they are trimmed in.         *)
(* RoomInv needs no more than the order of a room itself; what an event    *)
(* makes of the line is said by LineStep, from which the order and both    *)
(* action properties follow.  ReconcilerInv needs no more than its         *)
(* properties: Unbeaten is transitive through a claim that is fresh.       *)
(* FramesInv says of every entry of a cache that its id is of its value.   *)
(* LifeInv: what is thought of was seen then, and what is remembered lines *)
(* up with the chronicle.  LoopInv: the score of a goal tells its source,  *)
(* and the watchdog's counters count the last samples.  WelcomeInv: an     *)
(* event names only earlier ones, so that the last of any stands.          *)
(***************************************************************************)
EXTENDS SocialTurns, KarakuriNotices, CommunityRules, Reconciliation, PortableFrames,
        LifeTick, AutonomyLoop, Initiative,
        FiniteSetTheorems, SequenceTheorems, WellFoundedInduction, TLAPS

-----------------------------------------------------------------------------
(* Sequences                                                               *)

\* What is left of a sequence behind its first m members.
LEMMA SuffixProperties ==
    ASSUME NEW S, NEW s \in Seq(S), NEW m \in 0..Len(s)
    PROVE  /\ SubSeq(s, m + 1, Len(s)) \in Seq(S) /\ Len(SubSeq(s, m + 1, Len(s))) = Len(s) - m
           /\ DOMAIN SubSeq(s, m + 1, Len(s)) = 1..(Len(s) - m)
           /\ \A i \in 1..(Len(s) - m) : SubSeq(s, m + 1, Len(s))[i] = s[m + i]
<1> DEFINE q == SubSeq(s, m + 1, Len(s))
<1>1. Len(s) \in Nat /\ m \in Nat /\ m =< Len(s) /\ \A i \in (m + 1)..Len(s) : s[i] \in S
  OBVIOUS
<1>2. m + 1 \in Int /\ Len(s) \in Int
  BY <1>1
<1>3. /\ q \in Seq(S)
      /\ Len(q) = IF m + 1 <= Len(s) THEN Len(s) - (m + 1) + 1 ELSE 0
      /\ \A i \in 1..(Len(s) - (m + 1) + 1) : q[i] = s[(m + 1) + i - 1]
  BY <1>1, <1>2, SubSeqProperties
<1> HIDE DEF q
<1>4. Len(q) = Len(s) - m /\ Len(s) - (m + 1) + 1 = Len(s) - m
  BY <1>1, <1>3
<1>5. ASSUME NEW i \in 1..(Len(s) - m) PROVE q[i] = s[m + i]
  <2>1. (m + 1) + i - 1 = m + i
    BY <1>1
  <2> QED BY <1>3, <1>4, <2>1
<1>6. DOMAIN q = 1..(Len(s) - m)
  BY <1>3, <1>4
<1> QED BY <1>3, <1>4, <1>5, <1>6 DEF q

\* Where a sequence and one member behind it have their members.
LEMMA Appended ==
    ASSUME NEW S, NEW s \in Seq(S), NEW e \in S
    PROVE  /\ Append(s, e) \in Seq(S) /\ DOMAIN Append(s, e) = 1..(Len(s) + 1)
           /\ Append(s, e)[Len(s) + 1] = e /\ \A i \in 1..Len(s) : Append(s, e)[i] = s[i]
<1>1. /\ Append(s, e) \in Seq(S) /\ Len(Append(s, e)) = Len(s) + 1
      /\ \A i \in 1..Len(s) : Append(s, e)[i] = s[i] /\ Append(s, e)[Len(s) + 1] = e
  BY AppendProperties
<1> QED BY <1>1

-----------------------------------------------------------------------------
(* KarakuriNotices: deliveries                                             *)

NoticeRows == [status : {"none", "received", "processing", "failed", "closed", "acted"},
               attempts : 0..MaxAttempts, stale : BOOLEAN, due : BOOLEAN]

NoticeTypes ==
    /\ byWebhook \in BOOLEAN /\ crashes \in 0..MaxCrashes
    /\ row \in [Notices -> NoticeRows] /\ \A n \in Notices : row[n].status = "none" => row[n].attempts = 0
    /\ tasks \in [Notices -> Nat] /\ handed \in [Notices -> Nat]
    /\ noticeQueue \in Seq(Notices) /\ Len(noticeQueue) =< QueueLimit
    /\ worker \in Notices \cup {None} /\ timers \subseteq Notices
    /\ \/ noticeTurn = NoTurn
       \/ noticeTurn \in [notice : Notices, by : {"webhook", "bridge"},
                          at : {"deciding", "commanding", "remembering"}]

\* Nothing is queued twice, nor while the worker is at it.
QueuedOnce ==
    \A i, j \in DOMAIN noticeQueue :
        noticeQueue[i] # worker /\ (noticeQueue[i] = noticeQueue[j] => i = j)

BridgeTurn == noticeTurn.by = "bridge" => worker = noticeTurn.notice

\* Without the webhook only the worker takes turns, and what it is at is not failed.
ChannelOnly ==
    ~byWebhook =>
        /\ \A n \in Notices : tasks[n] = 0
        /\ noticeTurn = NoTurn \/ noticeTurn.by = "bridge"
        /\ worker # None => row[worker].status \in {"received", "processing"}

\* While a row may be retried its timer runs, or its notification is queued and it is due.
RetryIsArranged ==
    ~byWebhook /\ crashes = 0 =>
        \A n \in Notices : Eligible(row[n]) =>
            \/ n \in timers
            \/ row[n].due /\ \E i \in DOMAIN noticeQueue : noticeQueue[i] = n

NoticeInv ==
    /\ NoticeTypes /\ QueuedOnce /\ BridgeTurn /\ TurnsAreClaimed /\ ChannelOnly /\ RetryIsArranged

LEMMA NoticeInvInit == DeliveryInit => NoticeInv
  BY KarakuriDeliveryAssumption
     DEF DeliveryInit, NoticeInv, NoticeTypes, QueuedOnce, BridgeTurn, TurnsAreClaimed, ChannelOnly,
         RetryIsArranged, NoRow, NoTurn, NoticeRows, Working, Eligible

\* A claim makes a new attempt.
LEMMA ClaimCounts ==
    ASSUME NoticeInv, NEW n \in Notices, Claimable(n), Claims(n)
    PROVE  /\ row' \in [Notices -> NoticeRows]
           /\ row'[n].status = "received" /\ row'[n].attempts = row[n].attempts + 1
           /\ \A m \in Notices : m # n => row'[m] = row[m]
           /\ \A m \in Notices : row'[m].status = "none" => row'[m].attempts = 0
<1>1. row[n].attempts < MaxAttempts
  BY KarakuriDeliveryAssumption DEF Claimable, NoticeInv, NoticeTypes
<1> QED BY <1>1, KarakuriDeliveryAssumption DEF Claims, NoticeInv, NoticeTypes, NoticeRows

LEMMA MarkKeeps ==
    ASSUME NoticeInv, NEW n \in Notices, NEW status \in {"processing", "failed", "closed", "acted"},
           Marks(n, status)
    PROVE  /\ row' \in [Notices -> NoticeRows]
           /\ row'[n].status = status /\ row'[n].attempts = row[n].attempts /\ ~row'[n].due
           /\ \A m \in Notices : m # n => row'[m] = row[m]
           /\ \A m \in Notices : row'[m].status = "none" => row'[m].attempts = 0
<1> DEFINE r == [row[n] EXCEPT !.status = status, !.stale = FALSE, !.due = FALSE]
<1>1. row \in [Notices -> NoticeRows] /\ \A m \in Notices : row[m].status = "none" => row[m].attempts = 0
  BY DEF NoticeInv, NoticeTypes
<1>2. row' = [row EXCEPT ![n] = r]
  BY <1>1 DEF Marks
<1>3. r \in NoticeRows /\ r.status = status /\ r.attempts = row[n].attempts /\ ~r.due
  BY <1>1 DEF NoticeRows
<1> HIDE DEF r
<1>4. row'[n] = r /\ (\A m \in Notices : m # n => row'[m] = row[m]) /\ row' \in [Notices -> NoticeRows]
  BY <1>1, <1>2, <1>3
<1> QED BY <1>1, <1>3, <1>4

LEMMA LaterKeeps == ASSUME NoticeInv, NEW n \in Notices, Later(n) PROVE NoticeInv'
<1>1. PICK r \in NoticeRows :
        /\ row' = [row EXCEPT ![n] = r] /\ r.status = row[n].status /\ r.attempts = row[n].attempts
        /\ row[n].due => r.due
  <2>1. row[n] \in NoticeRows /\ row \in [Notices -> NoticeRows]
    BY DEF NoticeInv, NoticeTypes
  <2>2. /\ [row[n] EXCEPT !.stale = TRUE] \in NoticeRows /\ [row[n] EXCEPT !.due = TRUE] \in NoticeRows
        /\ row' = [row EXCEPT ![n] = [row[n] EXCEPT !.stale = TRUE]]
           \/ row' = [row EXCEPT ![n] = [row[n] EXCEPT !.due = TRUE]]
    BY <2>1 DEF Later, NoticeRows
  <2> QED BY <2>1, <2>2 DEF NoticeRows
<1>2. /\ row' \in [Notices -> NoticeRows] /\ row'[n] = r /\ \A m \in Notices : m # n => row'[m] = row[m]
  BY <1>1 DEF NoticeInv, NoticeTypes
<1>3. NoticeTypes' /\ QueuedOnce' /\ BridgeTurn'
  BY <1>1, <1>2 DEF Later, NoticeInv, NoticeTypes, QueuedOnce, BridgeTurn
<1>4. TurnsAreClaimed'
  BY <1>1, <1>2 DEF Later, NoticeInv, TurnsAreClaimed, Working
<1>5. ChannelOnly' /\ RetryIsArranged'
  BY <1>1, <1>2 DEF Later, NoticeInv, NoticeTypes, ChannelOnly, RetryIsArranged, Eligible
<1> QED BY <1>3, <1>4, <1>5 DEF NoticeInv

LEMMA WebhookKeeps == ASSUME NoticeInv, NEW n \in Notices, WebhookArrives(n) PROVE NoticeInv'
<1>1. /\ row' \in [Notices -> NoticeRows] /\ byWebhook /\ byWebhook' = byWebhook
      /\ row'[n].status = "received" /\ row'[n].attempts = row[n].attempts + 1
      /\ \A m \in Notices : m # n => row'[m] = row[m]
      /\ \A m \in Notices : row'[m].status = "none" => row'[m].attempts = 0
  BY ClaimCounts DEF WebhookArrives
<1>2. /\ tasks' \in [Notices -> Nat] /\ tasks'[n] = tasks[n] + 1
      /\ \A m \in Notices : m # n => tasks'[m] = tasks[m]
  BY DEF WebhookArrives, NoticeInv, NoticeTypes
<1>3. NoticeTypes' /\ QueuedOnce' /\ BridgeTurn' /\ ChannelOnly' /\ RetryIsArranged'
  BY <1>1, <1>2
     DEF WebhookArrives, NoticeInv, NoticeTypes, QueuedOnce, BridgeTurn, ChannelOnly, RetryIsArranged
<1>4. TurnsAreClaimed'
  <2> SUFFICES ASSUME NEW m \in Notices
               PROVE  handed'[m] + Working(m)' =< row'[m].attempts
                          + (IF noticeTurn'.notice = m /\ noticeTurn'.at = "remembering" THEN 1 ELSE 0)
    BY DEF TurnsAreClaimed
  <2>1. handed[m] + Working(m) =< row[m].attempts
                          + (IF noticeTurn.notice = m /\ noticeTurn.at = "remembering" THEN 1 ELSE 0)
    BY DEF NoticeInv, TurnsAreClaimed
  <2>2. row[m].attempts \in Nat /\ handed[m] \in Nat /\ tasks[m] \in Nat
    BY KarakuriDeliveryAssumption DEF NoticeInv, NoticeTypes, NoticeRows
  <2> QED BY <1>1, <1>2, <2>1, <2>2 DEF WebhookArrives, Working
<1> QED BY <1>3, <1>4 DEF NoticeInv

LEMMA MessageKeeps == ASSUME NoticeInv, NEW n \in Notices, MessageArrives(n) PROVE NoticeInv'
<1>1. /\ noticeQueue \in Seq(Notices) /\ DOMAIN noticeQueue = 1..Len(noticeQueue) /\ Len(noticeQueue) \in Nat
      /\ noticeQueue' = Append(noticeQueue, n)
  BY DEF MessageArrives, NoticeInv, NoticeTypes
<1>2. /\ noticeQueue' \in Seq(Notices) /\ DOMAIN noticeQueue' = 1..(Len(noticeQueue) + 1)
      /\ noticeQueue'[Len(noticeQueue) + 1] = n
      /\ \A i \in DOMAIN noticeQueue : noticeQueue'[i] = noticeQueue[i]
  BY <1>1, Appended
<1>3. NoticeTypes'
  BY <1>1, <1>2, KarakuriDeliveryAssumption DEF MessageArrives, NoticeInv, NoticeTypes
<1>4. QueuedOnce'
  <2>1. \A i \in DOMAIN noticeQueue' : i \in DOMAIN noticeQueue \/ i = Len(noticeQueue) + 1
    BY <1>1, <1>2
  <2>2. worker' = worker /\ worker # n /\ \A i \in DOMAIN noticeQueue : noticeQueue[i] # n
    BY DEF MessageArrives, Queued
  <2> QED BY <1>1, <1>2, <2>1, <2>2 DEF NoticeInv, QueuedOnce
<1>5. BridgeTurn' /\ TurnsAreClaimed' /\ ChannelOnly'
  BY DEF MessageArrives, NoticeInv, BridgeTurn, TurnsAreClaimed, Working, ChannelOnly
<1>6. RetryIsArranged'
  BY <1>1, <1>2 DEF MessageArrives, NoticeInv, RetryIsArranged
<1> QED BY <1>3, <1>4, <1>5, <1>6 DEF NoticeInv

LEMMA RetryKeeps == ASSUME NoticeInv, NEW n \in Notices, RetryFires(n) PROVE NoticeInv'
<1>1. /\ noticeQueue \in Seq(Notices) /\ DOMAIN noticeQueue = 1..Len(noticeQueue) /\ Len(noticeQueue) \in Nat
      /\ row[n].due /\ timers' = timers \ {n}
      /\ UNCHANGED <<byWebhook, row, tasks, worker, noticeTurn, handed, crashes>>
  BY DEF RetryFires, NoticeInv, NoticeTypes
<1>2. \/ Queued(n) /\ noticeQueue' = noticeQueue
      \/ /\ ~Queued(n) /\ noticeQueue' = Append(noticeQueue, n) /\ Len(noticeQueue) < QueueLimit
         /\ noticeQueue' \in Seq(Notices) /\ DOMAIN noticeQueue' = 1..(Len(noticeQueue) + 1)
         /\ noticeQueue'[Len(noticeQueue) + 1] = n
         /\ \A i \in DOMAIN noticeQueue : noticeQueue'[i] = noticeQueue[i]
  BY <1>1, Appended DEF RetryFires
<1>3. NoticeTypes'
  BY <1>1, <1>2, KarakuriDeliveryAssumption DEF NoticeInv, NoticeTypes
<1>4. QueuedOnce'
  <2>1. CASE noticeQueue' = noticeQueue
    BY <1>1, <2>1 DEF NoticeInv, QueuedOnce
  <2>2. CASE noticeQueue' # noticeQueue
    <3>1. \A i \in DOMAIN noticeQueue' : i \in DOMAIN noticeQueue \/ i = Len(noticeQueue) + 1
      BY <1>1, <1>2, <2>2
    <3>2. worker # n /\ \A i \in DOMAIN noticeQueue : noticeQueue[i] # n
      BY <1>2, <2>2 DEF Queued
    <3> QED BY <1>1, <1>2, <2>2, <3>1, <3>2 DEF NoticeInv, QueuedOnce
  <2> QED BY <2>1, <2>2
<1>5. BridgeTurn' /\ TurnsAreClaimed' /\ ChannelOnly'
  BY <1>1 DEF NoticeInv, BridgeTurn, TurnsAreClaimed, Working, ChannelOnly
<1>6. RetryIsArranged'
  <2> SUFFICES ASSUME ~byWebhook, crashes = 0, NEW m \in Notices, Eligible(row[m])
               PROVE  \/ m \in timers'
                      \/ row[m].due /\ \E i \in DOMAIN noticeQueue' : noticeQueue'[i] = m
    BY <1>1 DEF RetryIsArranged
  <2>1. \/ m \in timers
        \/ row[m].due /\ \E i \in DOMAIN noticeQueue : noticeQueue[i] = m
    BY DEF NoticeInv, RetryIsArranged
  <2>2. worker # m
    BY KarakuriDeliveryAssumption DEF NoticeInv, ChannelOnly, Eligible
  <2>3. \A i \in DOMAIN noticeQueue : i \in DOMAIN noticeQueue' /\ noticeQueue'[i] = noticeQueue[i]
    BY <1>1, <1>2
  <2>4. CASE m # n
    BY <1>1, <2>1, <2>3, <2>4
  <2>5. CASE m = n
    <3>1. \E i \in DOMAIN noticeQueue' : noticeQueue'[i] = n
      BY <1>1, <1>2, <2>2, <2>3, <2>5 DEF Queued
    <3> QED BY <1>1, <2>5, <3>1
  <2> QED BY <2>4, <2>5
<1> QED BY <1>3, <1>4, <1>5, <1>6 DEF NoticeInv

LEMMA TakenKeeps == ASSUME NoticeInv, NoticeTaken PROVE NoticeInv'
<1> DEFINE n == Head(noticeQueue)
<1>1. /\ noticeQueue \in Seq(Notices) /\ DOMAIN noticeQueue = 1..Len(noticeQueue) /\ Len(noticeQueue) \in Nat
      /\ noticeQueue # <<>> /\ worker = None /\ noticeQueue' = Tail(noticeQueue)
      /\ UNCHANGED <<byWebhook, tasks, timers, noticeTurn, handed, crashes>>
  BY DEF NoticeTaken, NoticeInv, NoticeTypes
<1>2. /\ n \in Notices /\ n = noticeQueue[1] /\ 1 \in DOMAIN noticeQueue
      /\ noticeQueue' \in Seq(Notices) /\ Len(noticeQueue') = Len(noticeQueue) - 1
      /\ DOMAIN noticeQueue' = 1..(Len(noticeQueue) - 1)
      /\ \A i \in DOMAIN noticeQueue' : noticeQueue'[i] = noticeQueue[i + 1] /\ i + 1 \in DOMAIN noticeQueue
  <2>1. /\ n \in Notices /\ Tail(noticeQueue) \in Seq(Notices)
        /\ Len(Tail(noticeQueue)) = Len(noticeQueue) - 1
        /\ \A i \in 1..Len(Tail(noticeQueue)) : Tail(noticeQueue)[i] = noticeQueue[i + 1]
    BY <1>1, HeadTailProperties
  <2>2. 1 \in DOMAIN noticeQueue /\ n = noticeQueue[1]
    BY <1>1
  <2>3. DOMAIN Tail(noticeQueue) = 1..(Len(noticeQueue) - 1)
    BY <2>1
  <2>4. \A i \in 1..(Len(noticeQueue) - 1) : i + 1 \in DOMAIN noticeQueue
    BY <1>1
  <2> QED BY <1>1, <2>1, <2>2, <2>3, <2>4
<1>3. \A i \in DOMAIN noticeQueue : i # 1 => \E j \in DOMAIN noticeQueue' : noticeQueue'[j] = noticeQueue[i]
  <2> TAKE i \in DOMAIN noticeQueue
  <2> HAVE i # 1
  <2>1. i - 1 \in DOMAIN noticeQueue' /\ (i - 1) + 1 = i
    BY <1>1, <1>2
  <2> QED BY <1>2, <2>1
<1> HIDE DEF n
<1>4. \A i, j \in DOMAIN noticeQueue' : noticeQueue'[i] # n /\ (noticeQueue'[i] = noticeQueue'[j] => i = j)
  BY <1>1, <1>2 DEF NoticeInv, QueuedOnce
<1>5. noticeTurn.by # "bridge" \/ noticeTurn = NoTurn
  BY <1>1, KarakuriDeliveryAssumption DEF NoticeInv, NoticeTypes, BridgeTurn
<1>6. CASE Claimable(n) /\ worker' = n /\ Claims(n)
  <2>1. /\ row' \in [Notices -> NoticeRows]
        /\ row'[n].status = "received" /\ row'[n].attempts = row[n].attempts + 1
        /\ \A m \in Notices : m # n => row'[m] = row[m]
        /\ \A m \in Notices : row'[m].status = "none" => row'[m].attempts = 0
    BY <1>2, <1>6, ClaimCounts
  <2>2. NoticeTypes'
    BY <1>1, <1>2, <1>6, <2>1, KarakuriDeliveryAssumption DEF NoticeInv, NoticeTypes
  <2>3. QueuedOnce' /\ BridgeTurn'
    BY <1>1, <1>4, <1>5, <1>6 DEF QueuedOnce, BridgeTurn, NoTurn
  <2>4. TurnsAreClaimed'
    <3> SUFFICES ASSUME NEW m \in Notices
                 PROVE  handed'[m] + Working(m)' =< row'[m].attempts
                          + (IF noticeTurn'.notice = m /\ noticeTurn'.at = "remembering" THEN 1 ELSE 0)
      BY DEF TurnsAreClaimed
    <3>1. handed[m] + Working(m) =< row[m].attempts
                          + (IF noticeTurn.notice = m /\ noticeTurn.at = "remembering" THEN 1 ELSE 0)
      BY DEF NoticeInv, TurnsAreClaimed
    <3>2. row[m].attempts \in Nat /\ handed[m] \in Nat /\ tasks[m] \in Nat /\ m # None
      BY KarakuriDeliveryAssumption DEF NoticeInv, NoticeTypes, NoticeRows
    <3>3. /\ worker = None /\ worker' = n /\ noticeTurn' = noticeTurn /\ handed' = handed /\ tasks' = tasks
          /\ row'[m].attempts = IF m = n THEN row[m].attempts + 1 ELSE row[m].attempts
      BY <1>1, <1>6, <2>1
    <3>4. Working(m) = tasks[m] + (IF noticeTurn.notice = m THEN 1 ELSE 0)
      BY <3>2, <3>3 DEF Working
    <3>5. Working(m)' = tasks[m] + (IF m = n /\ noticeTurn.by # "bridge" THEN 1 ELSE 0)
                                + (IF noticeTurn.notice = m THEN 1 ELSE 0)
      BY <3>3 DEF Working
    <3> QED BY <3>1, <3>2, <3>3, <3>4, <3>5
  <2>5. ChannelOnly' /\ RetryIsArranged'
    BY <1>1, <1>2, <1>3, <1>6, <2>1 DEF NoticeInv, ChannelOnly, RetryIsArranged, Eligible
  <2> QED BY <2>2, <2>3, <2>4, <2>5 DEF NoticeInv
<1>7. CASE ~Claimable(n) /\ UNCHANGED <<worker, row>>
  <2>1. NoticeTypes' /\ BridgeTurn' /\ TurnsAreClaimed' /\ ChannelOnly'
    BY <1>1, <1>2, <1>7, KarakuriDeliveryAssumption
       DEF NoticeInv, NoticeTypes, BridgeTurn, TurnsAreClaimed, Working, ChannelOnly
  <2>2. QueuedOnce'
    BY <1>1, <1>2, <1>4, <1>7, KarakuriDeliveryAssumption DEF QueuedOnce, NoticeInv, NoticeTypes
  <2>3. Eligible(row[n]) => ~row[n].due
    BY <1>7 DEF Claimable, Eligible
  <2>4. RetryIsArranged'
    BY <1>1, <1>2, <1>3, <1>7, <2>3 DEF NoticeInv, RetryIsArranged
  <2> QED BY <2>1, <2>2, <2>4 DEF NoticeInv
<1> QED BY <1>6, <1>7 DEF NoticeTaken, n

\* Whose turn it is, and what is known of it.
LEMMA UnderWay ==
    ASSUME NoticeInv, noticeTurn.at \in {"deciding", "commanding", "remembering"}
    PROVE  /\ noticeTurn \in [notice : Notices, by : {"webhook", "bridge"},
                               at : {"deciding", "commanding", "remembering"}]
           /\ noticeTurn.notice # None
           /\ noticeTurn.by = "bridge" => worker = noticeTurn.notice
           /\ ~byWebhook => noticeTurn.by = "bridge"
  BY KarakuriDeliveryAssumption DEF NoticeInv, NoticeTypes, BridgeTurn, ChannelOnly, NoTurn

LEMMA BeginKeeps == ASSUME NoticeInv, NEW n \in Notices, TurnBegins(n) PROVE NoticeInv'
<1>1. /\ row' \in [Notices -> NoticeRows]
      /\ row'[n].status = "processing" /\ row'[n].attempts = row[n].attempts
      /\ \A m \in Notices : m # n => row'[m] = row[m]
      /\ \A m \in Notices : row'[m].status = "none" => row'[m].attempts = 0
  BY MarkKeeps DEF TurnBegins
<1>2. /\ noticeTurn = NoTurn /\ UNCHANGED <<byWebhook, noticeQueue, worker, timers, handed, crashes>>
      /\ \/ /\ tasks[n] > 0 /\ tasks' = [tasks EXCEPT ![n] = @ - 1]
            /\ noticeTurn' = [notice |-> n, by |-> "webhook", at |-> "deciding"]
         \/ /\ worker = n /\ tasks' = tasks
            /\ noticeTurn' = [notice |-> n, by |-> "bridge", at |-> "deciding"]
  BY DEF TurnBegins
<1>3. /\ tasks' \in [Notices -> Nat] /\ \A m \in Notices : m # n => tasks'[m] = tasks[m]
      /\ noticeTurn' \in [notice : Notices, by : {"webhook", "bridge"},
                           at : {"deciding", "commanding", "remembering"}]
  <2>1. tasks \in [Notices -> Nat] /\ tasks[n] \in Nat /\ (tasks[n] > 0 => tasks[n] - 1 \in Nat)
    BY DEF NoticeInv, NoticeTypes
  <2>2. tasks' \in [Notices -> Nat] /\ \A m \in Notices : m # n => tasks'[m] = tasks[m]
    BY <1>2, <2>1
  <2> QED BY <1>2, <2>2
<1>4. NoticeTypes' /\ QueuedOnce' /\ BridgeTurn'
  BY <1>1, <1>2, <1>3 DEF NoticeInv, NoticeTypes, QueuedOnce, BridgeTurn
<1>5. TurnsAreClaimed'
  <2> SUFFICES ASSUME NEW m \in Notices
               PROVE  handed'[m] + Working(m)' =< row'[m].attempts
                          + (IF noticeTurn'.notice = m /\ noticeTurn'.at = "remembering" THEN 1 ELSE 0)
    BY DEF TurnsAreClaimed
  <2>1. handed[m] + Working(m) =< row[m].attempts + 0
    BY <1>2 DEF NoticeInv, TurnsAreClaimed, NoTurn
  <2>2. row[m].attempts \in Nat /\ handed[m] \in Nat /\ tasks[m] \in Nat /\ tasks \in [Notices -> Nat] /\ m # None
    BY KarakuriDeliveryAssumption DEF NoticeInv, NoticeTypes, NoticeRows
  <2> QED BY <1>1, <1>2, <2>1, <2>2 DEF Working, NoTurn
<1>6. ChannelOnly'
  BY <1>1, <1>2, <1>3 DEF NoticeInv, NoticeTypes, ChannelOnly
<1>7. RetryIsArranged'
  <2>1. ~Eligible(row'[n]) /\ \A m \in Notices : m # n => row'[m] = row[m]
    BY <1>1 DEF Eligible
  <2> QED BY <1>2, <2>1 DEF NoticeInv, RetryIsArranged
<1> QED BY <1>4, <1>5, <1>6, <1>7 DEF NoticeInv

\* The end of a turn gives its claim back, or a command of the world has used it.
LEMMA EndKeeps ==
    ASSUME NoticeInv, NEW status \in {"closed", "failed", "acted"}, TurnEnds(status),
           noticeTurn.at \in {"deciding", "commanding", "remembering"},
           UNCHANGED <<byWebhook, tasks, noticeQueue, crashes>>,
           \/ handed' = handed
           \/ /\ noticeTurn.at # "remembering"
              /\ handed' = [handed EXCEPT ![noticeTurn.notice] = @ + 1]
    PROVE  NoticeInv'
<1> DEFINE n == noticeTurn.notice
<1>1. /\ noticeTurn \in [notice : Notices, by : {"webhook", "bridge"},
                          at : {"deciding", "commanding", "remembering"}]
      /\ n \in Notices /\ n # None
      /\ noticeTurn.by = "bridge" => worker = n
      /\ ~byWebhook => noticeTurn.by = "bridge"
  BY UnderWay
<1>2. /\ row' \in [Notices -> NoticeRows]
      /\ row'[n].status = status /\ row'[n].attempts = row[n].attempts
      /\ \A m \in Notices : m # n => row'[m] = row[m]
      /\ \A m \in Notices : row'[m].status = "none" => row'[m].attempts = 0
  BY <1>1, MarkKeeps DEF TurnEnds
<1>3. /\ noticeTurn' = NoTurn
      /\ timers' = IF noticeTurn.by = "bridge" /\ Eligible(row'[n]) THEN timers \cup {n} ELSE timers
      /\ worker' = IF noticeTurn.by = "bridge" THEN None ELSE worker
  BY DEF TurnEnds
<1>4. handed' \in [Notices -> Nat] /\ \A m \in Notices : m # n => handed'[m] = handed[m]
  <2>1. handed \in [Notices -> Nat] /\ handed[n] + 1 \in Nat
    BY <1>1 DEF NoticeInv, NoticeTypes
  <2>2. handed' = handed \/ handed' = [handed EXCEPT ![n] = handed[n] + 1]
    OBVIOUS
  <2> QED BY <1>1, <2>1, <2>2
<1> HIDE DEF n
<1>5. NoticeTypes'
  <2>1. worker' \in Notices \cup {None} /\ timers' \subseteq Notices
    BY <1>1, <1>3 DEF NoticeInv, NoticeTypes
  <2> QED BY <1>2, <1>3, <1>4, <2>1 DEF NoticeInv, NoticeTypes
<1>6. QueuedOnce' /\ BridgeTurn'
  BY <1>3, KarakuriDeliveryAssumption DEF NoticeInv, NoticeTypes, QueuedOnce, BridgeTurn, NoTurn
<1>7. TurnsAreClaimed'
  <2> SUFFICES ASSUME NEW m \in Notices
               PROVE  handed'[m] + Working(m)' =< row'[m].attempts
                          + (IF noticeTurn'.notice = m /\ noticeTurn'.at = "remembering" THEN 1 ELSE 0)
    BY DEF TurnsAreClaimed
  <2>1. handed[m] + Working(m) =< row[m].attempts
                          + (IF n = m /\ noticeTurn.at = "remembering" THEN 1 ELSE 0)
    BY DEF NoticeInv, TurnsAreClaimed, n
  <2>2. row[m].attempts \in Nat /\ handed[m] \in Nat /\ tasks[m] \in Nat /\ handed \in [Notices -> Nat] /\ m # None
    BY KarakuriDeliveryAssumption DEF NoticeInv, NoticeTypes, NoticeRows
  <2>3. Working(m)' = tasks[m] + (IF worker = m /\ noticeTurn.by # "bridge" THEN 1 ELSE 0)
    BY <1>1, <1>3, <2>2 DEF Working, NoTurn
  <2>4. handed'[m] =< handed[m] + (IF n = m /\ noticeTurn.at # "remembering" THEN 1 ELSE 0) /\ handed'[m] \in Nat
    BY <1>1, <2>2 DEF n
  <2>5. row'[m].attempts = row[m].attempts
    BY <1>2
  <2> QED BY <2>1, <2>2, <2>3, <2>4, <2>5 DEF Working, n
<1>8. ChannelOnly'
  BY <1>1, <1>2, <1>3 DEF NoticeInv, ChannelOnly
<1>9. RetryIsArranged'
  BY <1>1, <1>2, <1>3 DEF NoticeInv, RetryIsArranged
<1> QED BY <1>5, <1>6, <1>7, <1>8, <1>9 DEF NoticeInv

\* A turn goes on: its command may be taken, as nobody's has been before in this turn.
LEMMA TurnGoesOn ==
    ASSUME NoticeInv, NEW at \in {"commanding", "remembering"}, noticeTurn' = [noticeTurn EXCEPT !.at = at],
           noticeTurn.at \in {"deciding", "commanding"},
           UNCHANGED <<byWebhook, row, tasks, noticeQueue, worker, timers, crashes>>,
           handed' = IF at = "remembering" THEN [handed EXCEPT ![noticeTurn.notice] = @ + 1] ELSE handed
    PROVE  NoticeInv'
<1>1. /\ noticeTurn \in [notice : Notices, by : {"webhook", "bridge"},
                          at : {"deciding", "commanding", "remembering"}]
      /\ noticeTurn.by = "bridge" => worker = noticeTurn.notice
      /\ ~byWebhook => noticeTurn.by = "bridge"
  BY UnderWay
<1>2. /\ noticeTurn' \in [notice : Notices, by : {"webhook", "bridge"},
                           at : {"deciding", "commanding", "remembering"}]
      /\ noticeTurn'.notice = noticeTurn.notice /\ noticeTurn'.by = noticeTurn.by /\ noticeTurn'.at = at
  BY <1>1
<1>3. handed' \in [Notices -> Nat]
  BY <1>1 DEF NoticeInv, NoticeTypes
<1>4. NoticeTypes' /\ QueuedOnce' /\ BridgeTurn' /\ ChannelOnly' /\ RetryIsArranged'
  BY <1>1, <1>2, <1>3
     DEF NoticeInv, NoticeTypes, QueuedOnce, BridgeTurn, ChannelOnly, RetryIsArranged
<1>5. TurnsAreClaimed'
  <2> SUFFICES ASSUME NEW m \in Notices
               PROVE  handed'[m] + Working(m)' =< row'[m].attempts
                          + (IF noticeTurn'.notice = m /\ noticeTurn'.at = "remembering" THEN 1 ELSE 0)
    BY DEF TurnsAreClaimed
  <2>1. /\ handed[m] + Working(m) =< row[m].attempts
                          + (IF noticeTurn.notice = m /\ noticeTurn.at = "remembering" THEN 1 ELSE 0)
        /\ Working(m)' = Working(m)
    BY <1>2 DEF NoticeInv, TurnsAreClaimed, Working
  <2>2. row[m].attempts \in Nat /\ handed[m] \in Nat /\ tasks[m] \in Nat /\ handed \in [Notices -> Nat]
    BY KarakuriDeliveryAssumption DEF NoticeInv, NoticeTypes, NoticeRows
  <2> QED BY <1>1, <1>2, <2>1, <2>2 DEF Working
<1> QED BY <1>4, <1>5 DEF NoticeInv

LEMMA CrashKeepsNotices == ASSUME NoticeInv, DeliveryCrash PROVE NoticeInv'
<1>1. /\ tasks' = [n \in Notices |-> 0] /\ noticeQueue' = <<>> /\ worker' = None /\ timers' = {}
      /\ noticeTurn' = NoTurn /\ crashes' = crashes + 1 /\ crashes' \in 0..MaxCrashes /\ crashes' # 0
      /\ UNCHANGED <<byWebhook, row, handed>>
  BY KarakuriDeliveryAssumption DEF DeliveryCrash, NoticeInv, NoticeTypes
<1>2. NoticeTypes' /\ QueuedOnce' /\ BridgeTurn' /\ ChannelOnly' /\ RetryIsArranged'
  BY <1>1, KarakuriDeliveryAssumption
     DEF NoticeInv, NoticeTypes, QueuedOnce, BridgeTurn, ChannelOnly, RetryIsArranged, NoTurn
<1>3. TurnsAreClaimed'
  <2> SUFFICES ASSUME NEW m \in Notices
               PROVE  handed'[m] + Working(m)' =< row'[m].attempts
                          + (IF noticeTurn'.notice = m /\ noticeTurn'.at = "remembering" THEN 1 ELSE 0)
    BY DEF TurnsAreClaimed
  <2>1. handed[m] + Working(m) =< row[m].attempts
                          + (IF noticeTurn.notice = m /\ noticeTurn.at = "remembering" THEN 1 ELSE 0)
    BY DEF NoticeInv, TurnsAreClaimed
  <2>2. row[m].attempts \in Nat /\ handed[m] \in Nat /\ tasks[m] \in Nat /\ m # None
    BY KarakuriDeliveryAssumption DEF NoticeInv, NoticeTypes, NoticeRows
  <2> QED BY <1>1, <2>1, <2>2 DEF Working, NoTurn
<1> QED BY <1>2, <1>3 DEF NoticeInv

LEMMA NoticeInvStep == NoticeInv /\ [DeliveryNext]_deliveryVars => NoticeInv'
<1> SUFFICES ASSUME NoticeInv, [DeliveryNext]_deliveryVars PROVE NoticeInv'
  OBVIOUS
<1>1. CASE Decides
  BY <1>1, EndKeeps, TurnGoesOn DEF Decides
<1>2. CASE Commands
  BY <1>2, EndKeeps, TurnGoesOn DEF Commands
<1>3. CASE Remembers
  BY <1>3, EndKeeps DEF Remembers
<1>4. CASE UNCHANGED deliveryVars
  BY <1>4 DEF deliveryVars, NoticeInv, NoticeTypes, QueuedOnce, BridgeTurn, TurnsAreClaimed, Working,
              ChannelOnly, RetryIsArranged
<1> QED BY <1>1, <1>2, <1>3, <1>4, LaterKeeps, WebhookKeeps, MessageKeeps, RetryKeeps, BeginKeeps,
           TakenKeeps, CrashKeepsNotices
        DEF DeliveryNext, TurnSteps

\* However often a notification is delivered, by whichever way, and whenever the process ends:
\* what the world is told of it has been claimed, at most three times (KarakuriWorldLedger.claim),
\* and while only the channel delivers what may be retried is retried (_retry_after_delay).
LEMMA NoticesAreActedOnByClaim == DeliverySpec => [](DeliveryTypeOK /\ TurnsAreClaimed /\ RetryIsPending)
<1>1. DeliverySpec => []NoticeInv
  BY NoticeInvInit, NoticeInvStep, PTL DEF DeliverySpec
<1>2. NoticeInv => DeliveryTypeOK
  BY DEF NoticeInv, NoticeTypes, NoticeRows, QueuedOnce, BridgeTurn, DeliveryTypeOK
<1>3. NoticeInv => TurnsAreClaimed /\ RetryIsPending
  BY DEF NoticeInv, RetryIsArranged, RetryIsPending, Queued
<1> QED BY <1>1, <1>2, <1>3, PTL

-----------------------------------------------------------------------------
(* KarakuriNotices: second deliveries                                      *)

\* The keys are of the messages that have a record, each once.
KeysAgree(keys, rec) ==
    /\ keys \in Seq(Messages)
    /\ \A i, j \in DOMAIN keys : keys[i] = keys[j] => i = j
    /\ rec \in [Messages -> [owner : Deliveries \cup {None}, result : BOOLEAN]]
    /\ \A m \in Messages : /\ rec[m].owner = None => rec[m] = NoRecord
                           /\ rec[m] = NoRecord <=> (\A i \in DOMAIN keys : keys[i] # m)

Calls == [at : {"idle", "responding", "settling", "waiting", "duplicate", "done", "cancelled"},
          message : Messages \cup {None}, waits : Deliveries \cup {None}]

CallTypes ==
    /\ call \in [Deliveries -> Calls]
    /\ \A c \in Deliveries : /\ call[c].at = "waiting" => call[c].waits \in Deliveries
                             /\ call[c].at \in {"responding", "settling"} => call[c].message \in Messages
    /\ future \in [Deliveries -> {"pending", "done", "cancelled"}]
    /\ tries \in [Deliveries -> 0..MaxTries] /\ history \subseteq Deliveries

FirstInv == CallTypes /\ KeysAgree(kept, record) /\ OneFirst

\* The keys that stay are the last ones; hence what goes is in front of all of them.
LEMMA GoneIsDone ==
    ASSUME NEW keys \in Seq(Messages), NEW rec, NEW fut, NEW i \in DOMAIN keys,
           i =< Len(keys) - Cardinality(Kept(keys, rec, fut))
    PROVE  i \notin Kept(keys, rec, fut)
<1> DEFINE stay == Kept(keys, rec, fut)
<1>1. DOMAIN keys = 1..Len(keys) /\ Len(keys) \in Nat
  OBVIOUS
<1>2. IsFiniteSet(1..Len(keys)) /\ stay \subseteq 1..Len(keys)
  BY <1>1, FS_Interval DEF Kept
<1>3. IsFiniteSet(stay) /\ Cardinality(stay) \in Nat
  BY <1>2, FS_Subset, FS_CardinalityType
<1>4. SUFFICES ASSUME i \in stay PROVE FALSE
  OBVIOUS
<1>5. i..Len(keys) \subseteq stay
  <2> SUFFICES ASSUME NEW k \in i..Len(keys) PROVE k \in stay
    OBVIOUS
  <2>1. k \in DOMAIN keys /\ i =< k /\ i \in Nat /\ k \in Nat
    BY <1>1
  <2>2. CASE i + MaxKept > Len(keys)
    BY <1>1, <2>1, <2>2, KarakuriSessionAssumption DEF Kept
  <2>3. ASSUME NEW j \in 1..i, fut[rec[keys[j]].owner] = "pending" PROVE k \in stay
    <3>1. j \in 1..k
      BY <2>1
    <3> QED BY <2>1, <2>3, <3>1 DEF Kept
  <2> QED BY <1>4, <2>2, <2>3 DEF Kept
<1> HIDE DEF stay
<1>6. Cardinality(i..Len(keys)) = Len(keys) - i + 1 /\ IsFiniteSet(i..Len(keys))
  BY <1>1, FS_Interval
<1>7. Len(keys) - i + 1 =< Cardinality(stay)
  BY <1>3, <1>5, <1>6, FS_Subset
<1> QED BY <1>1, <1>3, <1>7 DEF stay

\* Trimming takes away what is done: keys and records still agree, a record is as it was or
\* gone, and one whose future is pending is not gone.
LEMMA TrimKeeps ==
    ASSUME NEW keys, NEW rec, NEW fut, KeysAgree(keys, rec), Trimmed(keys, rec, fut)
    PROVE  /\ KeysAgree(kept', record')
           /\ \A m \in Messages : record'[m] \in {rec[m], NoRecord}
           /\ \A m \in Messages : rec[m] # NoRecord /\ fut[rec[m].owner] = "pending" => record'[m] = rec[m]
<1> DEFINE stay == Kept(keys, rec, fut)
           gone == Len(keys) - Cardinality(stay)
<1>1. /\ keys \in Seq(Messages) /\ DOMAIN keys = 1..Len(keys) /\ Len(keys) \in Nat
      /\ \A i, j \in DOMAIN keys : keys[i] = keys[j] => i = j
      /\ \A m \in Messages : rec[m] = NoRecord <=> (\A i \in DOMAIN keys : keys[i] # m)
  BY DEF KeysAgree
<1>2. /\ gone \in 0..Len(keys)
  <2>1. IsFiniteSet(1..Len(keys)) /\ Cardinality(1..Len(keys)) = Len(keys) /\ stay \subseteq 1..Len(keys)
    BY <1>1, FS_Interval DEF Kept
  <2>2. Cardinality(stay) \in Nat /\ Cardinality(stay) =< Len(keys)
    BY <2>1, FS_Subset, FS_CardinalityType
  <2> QED BY <1>1, <2>2
<1>3. \A i \in DOMAIN keys : i =< gone => i \notin stay
  BY <1>1, GoneIsDone
<1>4. /\ kept' = SubSeq(keys, gone + 1, Len(keys))
      /\ record' = [m \in Messages |-> IF \E i \in 1..gone : keys[i] = m THEN NoRecord ELSE rec[m]]
  BY DEF Trimmed
<1>5. \A i \in DOMAIN keys : i \notin stay => fut[rec[keys[i]].owner] # "pending"
  BY <1>1 DEF Kept
<1> HIDE DEF stay, gone
<1>6. /\ kept' \in Seq(Messages) /\ DOMAIN kept' = 1..(Len(keys) - gone)
      /\ \A i \in 1..(Len(keys) - gone) : kept'[i] = keys[gone + i]
  <2>1. /\ SubSeq(keys, gone + 1, Len(keys)) \in Seq(Messages)
        /\ DOMAIN SubSeq(keys, gone + 1, Len(keys)) = 1..(Len(keys) - gone)
        /\ \A i \in 1..(Len(keys) - gone) : SubSeq(keys, gone + 1, Len(keys))[i] = keys[gone + i]
    <3>1. keys \in Seq(Messages)
      BY <1>1
    <3> QED BY <3>1, <1>2, SuffixProperties, Zenon
  <2>2. kept' = SubSeq(keys, gone + 1, Len(keys))
    BY <1>4
  <2> QED BY <2>1, <2>2, Zenon
<1>7. /\ \A i \in DOMAIN kept' : gone + i \in DOMAIN keys /\ kept'[i] = keys[gone + i]
      /\ \A i \in DOMAIN keys : i =< gone \/ (i - gone \in DOMAIN kept' /\ kept'[i - gone] = keys[i])
  <2>1. \A i \in DOMAIN kept' : gone + i \in DOMAIN keys
    BY <1>1, <1>2, <1>6
  <2>2. \A i \in DOMAIN keys : i =< gone \/ (i - gone \in 1..(Len(keys) - gone) /\ gone + (i - gone) = i)
    BY <1>1, <1>2
  <2> QED BY <1>6, <2>1, <2>2
<1>8. \A i, j \in DOMAIN kept' : kept'[i] = kept'[j] => i = j
  <2> TAKE i, j \in DOMAIN kept'
  <2> HAVE kept'[i] = kept'[j]
  <2>1. gone + i = gone + j
    BY <1>1, <1>7
  <2> QED BY <1>1, <1>2, <1>6, <2>1
<1>9. ASSUME NEW m \in Messages
      PROVE  record'[m] = NoRecord <=> (\A i \in DOMAIN kept' : kept'[i] # m)
  <2>1. CASE \E i \in 1..gone : keys[i] = m
    <3>1. PICK i \in 1..gone : keys[i] = m
      BY <2>1
    <3>2. i \in DOMAIN keys /\ \A k \in DOMAIN kept' : gone + k # i
      BY <1>1, <1>2, <1>6, <3>1
    <3>3. record'[m] = NoRecord
      BY <1>4, <2>1
    <3>4. \A k \in DOMAIN kept' : kept'[k] # m
      BY <1>1, <1>7, <3>1, <3>2
    <3> QED BY <3>3, <3>4
  <2>2. CASE ~ \E i \in 1..gone : keys[i] = m
    <3>1. \A i \in DOMAIN keys : keys[i] = m => i \notin 1..gone /\ ~(i =< gone)
      BY <1>1, <1>2, <2>2
    <3>2. (\A i \in DOMAIN keys : keys[i] # m) <=> (\A i \in DOMAIN kept' : kept'[i] # m)
      BY <1>7, <3>1
    <3> QED BY <1>1, <1>4, <2>2, <3>2
  <2> QED BY <2>1, <2>2
<1>10. \A m \in Messages : record'[m] \in {rec[m], NoRecord}
  BY <1>4
<1>11. KeysAgree(kept', record')
  <2>1. NoRecord \in [owner : Deliveries \cup {None}, result : BOOLEAN]
    BY DEF NoRecord
  <2>2. record' \in [Messages -> [owner : Deliveries \cup {None}, result : BOOLEAN]]
    BY <1>4, <2>1 DEF KeysAgree
  <2>3. \A m \in Messages : record'[m].owner = None => record'[m] = NoRecord
    BY <1>10 DEF KeysAgree
  <2> QED BY <1>6, <1>8, <1>9, <2>2, <2>3 DEF KeysAgree
<1>12. ASSUME NEW m \in Messages, rec[m] # NoRecord, fut[rec[m].owner] = "pending"
       PROVE  record'[m] = rec[m]
  <2>1. \A i \in DOMAIN keys : keys[i] = m => ~(i =< gone)
    BY <1>3, <1>5, <1>12
  <2>2. ~ \E i \in 1..gone : keys[i] = m
    BY <1>1, <1>2, <2>1
  <2> QED BY <1>4, <2>2
<1> QED BY <1>10, <1>11, <1>12

\* A step of one call.
LEMMA CallChanges ==
    ASSUME CallTypes, NEW c \in Deliveries, NEW new \in Calls, call' = [call EXCEPT ![c] = new],
           new.at = "waiting" => new.waits \in Deliveries,
           new.at \in {"responding", "settling"} => new.message \in Messages,
           future' \in [Deliveries -> {"pending", "done", "cancelled"}],
           tries' \in [Deliveries -> 0..MaxTries], history' \subseteq Deliveries
    PROVE  CallTypes' /\ call'[c] = new /\ \A d \in Deliveries : d # c => call'[d] = call[d]
<1>1. call' \in [Deliveries -> Calls] /\ call'[c] = new /\ \A d \in Deliveries : d # c => call'[d] = call[d]
  BY DEF CallTypes
<1> QED BY <1>1 DEF CallTypes

\* A call goes on to where it neither waits nor answers, or from its answer to its end.
LEMMA CallGoesOn ==
    ASSUME CallTypes, NEW c \in Deliveries, NEW at \in {"settling", "duplicate", "done", "cancelled"}, At(c, at),
           at = "settling" => call[c].at = "responding",
           future' \in [Deliveries -> {"pending", "done", "cancelled"}],
           tries' \in [Deliveries -> 0..MaxTries], history' \subseteq Deliveries
    PROVE  /\ CallTypes' /\ call'[c].at = at /\ call'[c].message = call[c].message
           /\ \A d \in Deliveries : d # c => call'[d] = call[d]
<1> DEFINE new == [call[c] EXCEPT !.at = at]
<1>1. /\ new \in Calls /\ new.at = at /\ new.message = call[c].message
      /\ call[c].at = "responding" => call[c].message \in Messages
  BY DEF CallTypes, Calls
<1>2. call' = [call EXCEPT ![c] = new]
  BY DEF At, CallTypes
<1> HIDE DEF new
<1> QED BY <1>1, <1>2, CallChanges

LEMMA FirstInvInit == KarakuriInit => FirstInv
  BY KarakuriSessionAssumption, EmptySeq
     DEF KarakuriInit, FirstInv, CallTypes, Calls, KeysAgree, OneFirst, NoRecord

\* A first delivery makes a record, behind the keys there are.
LEMMA RecordIsMade ==
    ASSUME FirstInv, NEW c \in Deliveries, NEW m \in Messages, record[m].owner = None
    PROVE  KeysAgree(Append(kept, m), [record EXCEPT ![m] = [owner |-> c, result |-> FALSE]])
<1> DEFINE keys == Append(kept, m)
           new == [owner |-> c, result |-> FALSE]
           rec == [record EXCEPT ![m] = new]
<1>1. /\ kept \in Seq(Messages) /\ DOMAIN kept = 1..Len(kept) /\ Len(kept) \in Nat
      /\ record \in [Messages -> [owner : Deliveries \cup {None}, result : BOOLEAN]]
      /\ \A i \in DOMAIN kept : kept[i] # m
  BY DEF FirstInv, KeysAgree
<1>2. /\ keys \in Seq(Messages) /\ DOMAIN keys = 1..(Len(kept) + 1) /\ keys[Len(kept) + 1] = m
      /\ \A i \in DOMAIN kept : keys[i] = kept[i]
  BY <1>1, Appended
<1>3. new \in [owner : Deliveries \cup {None}, result : BOOLEAN] /\ new.owner = c /\ c # None /\ new # NoRecord
  BY KarakuriSessionAssumption DEF NoRecord
<1> HIDE DEF keys, new
<1>4. \A i \in DOMAIN keys : i \in DOMAIN kept \/ i = Len(kept) + 1
  BY <1>1, <1>2
<1>5. \A i, j \in DOMAIN keys : keys[i] = keys[j] => i = j
  BY <1>1, <1>2, <1>4 DEF FirstInv, KeysAgree
<1>6. /\ rec \in [Messages -> [owner : Deliveries \cup {None}, result : BOOLEAN]] /\ rec[m] = new
      /\ \A o \in Messages : o # m => rec[o] = record[o]
  BY <1>1, <1>3
<1> HIDE DEF rec
<1>7. ASSUME NEW o \in Messages
      PROVE  /\ rec[o].owner = None => rec[o] = NoRecord
             /\ rec[o] = NoRecord <=> (\A i \in DOMAIN keys : keys[i] # o)
  <2>1. CASE o = m
    <3>1. Len(kept) + 1 \in DOMAIN keys
      BY <1>1, <1>2
    <3> QED BY <1>2, <1>3, <1>6, <2>1, <3>1
  <2>2. CASE o # m
    <3>1. (\A i \in DOMAIN keys : keys[i] # o) <=> (\A i \in DOMAIN kept : kept[i] # o)
      BY <1>1, <1>2, <1>4, <2>2
    <3> QED BY <1>6, <2>2, <3>1 DEF FirstInv, KeysAgree
  <2> QED BY <2>1, <2>2
<1>8. KeysAgree(keys, rec)
  BY <1>2, <1>5, <1>6, <1>7 DEF KeysAgree
<1> QED BY <1>8 DEF keys, rec, new

\* A settled delivery gives its result to a record there is.
LEMMA ResultIsKept ==
    ASSUME FirstInv, NEW m \in Messages, record[m].owner # None
    PROVE  /\ KeysAgree(kept, [record EXCEPT ![m].result = TRUE])
           /\ \A o \in Messages : [record EXCEPT ![m].result = TRUE][o].owner = record[o].owner
<1> DEFINE new == [record[m] EXCEPT !.result = TRUE]
           rec == [record EXCEPT ![m] = new]
<1>1. record \in [Messages -> [owner : Deliveries \cup {None}, result : BOOLEAN]]
  BY DEF FirstInv, KeysAgree
<1>2. /\ new \in [owner : Deliveries \cup {None}, result : BOOLEAN] /\ new.owner = record[m].owner
      /\ new # NoRecord /\ record[m] # NoRecord
  <2>1. /\ record[m] \in [owner : Deliveries \cup {None}, result : BOOLEAN]
        /\ NoRecord.owner = None /\ NoRecord.result = FALSE
    BY <1>1 DEF NoRecord
  <2>2. new \in [owner : Deliveries \cup {None}, result : BOOLEAN] /\ new.owner = record[m].owner /\ new.result = TRUE
    BY <2>1
  <2> QED BY <2>1, <2>2
<1> HIDE DEF new
<1>3. /\ rec \in [Messages -> [owner : Deliveries \cup {None}, result : BOOLEAN]] /\ rec[m] = new
      /\ \A o \in Messages : o # m => rec[o] = record[o]
  BY <1>1, <1>2
<1>4. [record EXCEPT ![m].result = TRUE] = rec
  BY <1>1 DEF new
<1> HIDE DEF rec
<1>5. KeysAgree(kept, rec)
  BY <1>2, <1>3 DEF FirstInv, KeysAgree
<1> QED BY <1>2, <1>3, <1>4, <1>5

LEMMA DeliveredKeeps == ASSUME FirstInv, NEW c \in Deliveries, NEW m \in Messages, Delivered(c, m) PROVE FirstInv'
<1>1. /\ call[c].at = "idle" /\ UNCHANGED <<future, tries, history>>
      /\ c # None /\ record \in [Messages -> [owner : Deliveries \cup {None}, result : BOOLEAN]]
      /\ CallTypes /\ future \in [Deliveries -> {"pending", "done", "cancelled"}]
      /\ tries \in [Deliveries -> 0..MaxTries] /\ history \subseteq Deliveries
  BY KarakuriSessionAssumption DEF Delivered, FirstInv, CallTypes, KeysAgree
<1>2. ASSUME NEW new \in Calls, new.at \in {"duplicate", "waiting"}, new.at = "waiting" => new.waits \in Deliveries,
             call' = [call EXCEPT ![c] = new], UNCHANGED <<record, kept>>
      PROVE  FirstInv'
  <2>1. CallTypes' /\ call'[c] = new /\ \A d \in Deliveries : d # c => call'[d] = call[d]
    BY <1>1, <1>2, CallChanges
  <2>2. OneFirst'
    BY <1>1, <1>2, <2>1 DEF FirstInv, OneFirst
  <2> QED BY <1>2, <2>1, <2>2 DEF FirstInv
<1>3. CASE /\ record[m].owner = None
           /\ call' = [call EXCEPT ![c] = [at |-> "responding", message |-> m, waits |-> None]]
           /\ Trimmed(Append(kept, m), [record EXCEPT ![m] = [owner |-> c, result |-> FALSE]], future)
  <2> DEFINE rec == [record EXCEPT ![m] = [owner |-> c, result |-> FALSE]]
  <2>1. /\ KeysAgree(kept', record')
        /\ \A o \in Messages : rec[o] # NoRecord /\ future[rec[o].owner] = "pending" => record'[o] = rec[o]
    <3> DEFINE keys == Append(kept, m)
    <3>1. KeysAgree(keys, rec) /\ Trimmed(keys, rec, future)
      BY <1>3, RecordIsMade
    <3> HIDE DEF rec, keys
    <3> QED BY <3>1, TrimKeeps
  <2>2. /\ rec[m].owner = c /\ rec[m] # NoRecord
        /\ \A o \in Messages : o # m => rec[o] = record[o]
    <3>1. rec[m] = [owner |-> c, result |-> FALSE] /\ \A o \in Messages : o # m => rec[o] = record[o]
      BY <1>1
    <3> QED BY <1>1, <3>1 DEF NoRecord
  <2> HIDE DEF rec
  <2>3. CallTypes' /\ call'[c].message = m /\ \A d \in Deliveries : d # c => call'[d] = call[d]
    <3> DEFINE new == [at |-> "responding", message |-> m, waits |-> None]
    <3>1. new \in Calls /\ new.at = "responding" /\ new.message = m
      BY DEF Calls
    <3>2. call' = [call EXCEPT ![c] = new]
      BY <1>3
    <3> HIDE DEF new
    <3> QED BY <1>1, <3>1, <3>2, CallChanges
  <2>4. OneFirst'
    <3> SUFFICES ASSUME NEW d \in Deliveries, call'[d].at \in {"responding", "settling"}, future[d] = "pending"
                 PROVE  record'[call'[d].message].owner = d
      BY <1>1 DEF OneFirst
    <3>1. CASE d = c
      BY <2>1, <2>2, <2>3, <3>1
    <3>2. CASE d # c
      <4>1. /\ call'[d] = call[d] /\ record[call[d].message].owner = d /\ call[d].message \in Messages
            /\ d # None
        BY <1>1, <2>3, <3>2, KarakuriSessionAssumption DEF FirstInv, OneFirst, CallTypes
      <4>2. call[d].message # m /\ record[call[d].message] # NoRecord
        BY <1>3, <4>1 DEF NoRecord
      <4> QED BY <2>1, <2>2, <4>1, <4>2
    <3> QED BY <3>1, <3>2
  <2> QED BY <2>1, <2>3, <2>4 DEF FirstInv
<1>4. /\ [at |-> "duplicate", message |-> m, waits |-> None] \in Calls
      /\ record[m].owner # None => /\ record[m].owner \in Deliveries
                                   /\ [at |-> "waiting", message |-> m, waits |-> record[m].owner] \in Calls
  BY <1>1 DEF Calls
<1> QED BY <1>2, <1>3, <1>4 DEF Delivered

LEMMA SettlesKeeps == ASSUME FirstInv, NEW c \in Deliveries, Settles(c) PROVE FirstInv'
<1> DEFINE m == call[c].message
           owner == record[m].owner
           rec == [record EXCEPT ![m].result = TRUE]
<1>1. call[c].at = "settling" /\ At(c, "done") /\ m \in Messages /\ UNCHANGED <<tries, history>>
  BY DEF Settles, FirstInv, CallTypes
<1>2. /\ future' \in [Deliveries -> {"pending", "done", "cancelled"}]
      /\ \A d \in Deliveries : future'[d] = "pending" => future[d] = "pending"
      /\ \/ UNCHANGED <<record, kept>>
         \/ record[m].owner # None /\ Trimmed(kept, rec, future')
  BY DEF Settles, FirstInv, CallTypes
<1> HIDE DEF rec
<1>3. CallTypes' /\ call'[c].at = "done" /\ \A d \in Deliveries : d # c => call'[d] = call[d]
  BY <1>1, <1>2, CallGoesOn DEF FirstInv, CallTypes
<1>4. /\ KeysAgree(kept', record')
      /\ \A o \in Messages : record[o].owner # None /\ future'[record[o].owner] = "pending"
                              => record'[o].owner = record[o].owner
  <2>1. CASE UNCHANGED <<record, kept>>
    BY <2>1 DEF FirstInv
  <2>2. CASE record[m].owner # None /\ Trimmed(kept, rec, future')
    <3>1. KeysAgree(kept, rec) /\ \A o \in Messages : rec[o].owner = record[o].owner
      BY <1>1, <2>2, ResultIsKept DEF rec
    <3>2. /\ KeysAgree(kept', record')
          /\ \A o \in Messages : rec[o] # NoRecord /\ future'[rec[o].owner] = "pending" => record'[o] = rec[o]
      BY <2>2, <3>1, TrimKeeps
    <3> QED BY <3>1, <3>2 DEF NoRecord
  <2> QED BY <1>2, <2>1, <2>2
<1>5. OneFirst'
  <2> SUFFICES ASSUME NEW d \in Deliveries, call'[d].at \in {"responding", "settling"}, future'[d] = "pending"
               PROVE  record'[call'[d].message].owner = d
    BY DEF OneFirst
  <2>1. /\ call'[d] = call[d] /\ record[call[d].message].owner = d /\ call[d].message \in Messages /\ d # None
    BY <1>2, <1>3, KarakuriSessionAssumption DEF FirstInv, OneFirst, CallTypes
  <2> QED BY <1>4, <2>1
<1> QED BY <1>3, <1>4, <1>5 DEF FirstInv

LEMMA FirstInvStep == FirstInv /\ [KarakuriNext]_karakuriVars => FirstInv'
<1> SUFFICES ASSUME FirstInv, [KarakuriNext]_karakuriVars PROVE FirstInv'
  OBVIOUS
<1>1. ASSUME NEW c \in Deliveries, Responds(c) PROVE FirstInv'
  <2>1. /\ call[c].at = "responding" /\ UNCHANGED <<future, record, kept>>
        /\ call' = call \/ At(c, "settling")
        /\ history' \subseteq Deliveries /\ tries' \in [Deliveries -> 0..MaxTries]
    BY <1>1, KarakuriSessionAssumption DEF Responds, FirstInv, CallTypes
  <2>2. CASE call' = call
    BY <2>1, <2>2 DEF FirstInv, CallTypes, OneFirst
  <2>3. CASE At(c, "settling")
    <3>1. /\ CallTypes' /\ call'[c].message = call[c].message
          /\ \A d \in Deliveries : d # c => call'[d] = call[d]
      BY <2>1, <2>3, CallGoesOn DEF FirstInv, CallTypes
    <3> QED BY <2>1, <3>1 DEF FirstInv, OneFirst
  <2> QED BY <2>1, <2>2, <2>3
<1>2. ASSUME NEW c \in Deliveries, WaitEnds(c) \/ CallCancelled(c) PROVE FirstInv'
  <2>1. PICK at \in {"duplicate", "cancelled"} :
        /\ At(c, at) /\ UNCHANGED <<record, kept, tries, history>>
        /\ future' \in [Deliveries -> {"pending", "done", "cancelled"}]
        /\ \A d \in Deliveries : future'[d] = "pending" => future[d] = "pending"
    BY <1>2 DEF WaitEnds, CallCancelled, FirstInv, CallTypes
  <2>2. CallTypes' /\ call'[c].at = at /\ \A d \in Deliveries : d # c => call'[d] = call[d]
    BY <2>1, CallGoesOn DEF FirstInv, CallTypes
  <2> QED BY <2>1, <2>2 DEF FirstInv, OneFirst
<1>3. CASE UNCHANGED karakuriVars
  BY <1>3 DEF karakuriVars, FirstInv, CallTypes, OneFirst
<1> QED BY <1>1, <1>2, <1>3, DeliveredKeeps, SettlesKeeps DEF KarakuriNext

\* However many deliveries of a message overlap, are cancelled and are trimmed away: the one
\* that answers, while its future is pending, is the one the record names
\* (KarakuriSession.handle_notification and _trim_notifications).
LEMMA OneAnswersFirst == KarakuriSpec => [](KarakuriTypeOK /\ OneFirst)
<1>1. KarakuriSpec => []FirstInv
  BY FirstInvInit, FirstInvStep, PTL DEF KarakuriSpec
<1>2. FirstInv => KarakuriTypeOK
  BY DEF FirstInv, CallTypes, Calls, KeysAgree, KarakuriTypeOK
<1>3. FirstInv => OneFirst
  BY DEF FirstInv
<1> QED BY <1>1, <1>2, <1>3, PTL

\* For any notifications, deliveries and bounds: however the webhook and the channel, the
\* worker, the timers and crashes interleave, the work handed over for a notification never
\* exceeds the attempts claimed for it, without a crash a row that may be retried is queued
\* or has its timer, and a delivery that may still answer is the one its record names.
THEOREM NoticesAlwaysClaimed == DeliverySpec /\ KarakuriSpec => []NoticesAreClaimed
<1> QED BY NoticesAreActedOnByClaim, OneAnswersFirst, PTL DEF NoticesAreClaimed

-----------------------------------------------------------------------------
(* SocialTurns: the line of a room                                         *)

Entries == [by : Participants, to : Participants, turn : Nat, consumed : BOOLEAN]

RoomTypes ==
    /\ presence \in [Participants -> {"ABSENT", "PRESENT", "LEFT"}]
    /\ speaker \in Participants \cup {None} /\ line \in Seq(Participants)
    /\ \A c \in ConsentIds : consents[c] # None => consents[c] \in Entries
    /\ consents = [c \in ConsentIds |-> consents[c]] /\ turnNumber \in Nat

RoomInv == RoomTypes /\ RoomIsOrderly

\* The members of q are members of the line, in its order, each from a place of its own.
Drawn(q, place) ==
    /\ q \in Seq(Participants) /\ place \in [DOMAIN q -> DOMAIN line]
    /\ \A i \in DOMAIN q : q[i] = line[place[i]]
    /\ \A i, j \in DOMAIN q : i < j => place[i] < place[j]
FromLine(q) == \E place : Drawn(q, place)

LEMMA LineIsDrawn == ASSUME RoomInv PROVE FromLine(line)
<1> DEFINE place == [i \in DOMAIN line |-> i]
<1>1. Drawn(line, place)
  BY DEF RoomInv, RoomTypes, Drawn
<1> QED BY <1>1 DEF FromLine

\* Who is taken out of the line is in it no longer, and nobody else changes place.
LEMMA WithoutIsDrawn ==
    ASSUME RoomInv, NEW u
    PROVE  /\ FromLine(LineWithout(u)) /\ (\A i \in DOMAIN LineWithout(u) : LineWithout(u)[i] # u)
           /\ ~InLine(u) => LineWithout(u) = line
<1>1. CASE ~InLine(u)
  BY <1>1, LineIsDrawn DEF LineWithout, InLine
<1>2. CASE InLine(u)
  <2> DEFINE k == CHOOSE i \in DOMAIN line : line[i] = u
             front == SubSeq(line, 1, k - 1)
             back == SubSeq(line, k + 1, Len(line))
             place == [i \in 1..(Len(line) - 1) |-> IF i < k THEN i ELSE i + 1]
  <2>1. line \in Seq(Participants) /\ DOMAIN line = 1..Len(line) /\ Len(line) \in Nat
    BY DEF RoomInv, RoomTypes
  <2>2. k \in 1..Len(line) /\ line[k] = u
    BY <1>2, <2>1 DEF InLine
  <2>3. LineWithout(u) = front \o back
    BY <1>2 DEF LineWithout, RemoveAt
  <2> HIDE DEF k
  <2>4. /\ front \in Seq(Participants) /\ Len(front) = k - 1
        /\ \A i \in 1..(k - 1) : front[i] = line[i]
    <3>1. \A i \in 1..(k - 1) : line[i] \in Participants
      BY <2>1, <2>2
    <3> QED BY <3>1, <2>2, SubSeqProperties
  <2>5. /\ back \in Seq(Participants) /\ Len(back) = Len(line) - k
        /\ \A i \in 1..(Len(line) - k) : back[i] = line[k + i]
    <3>1. k \in 0..Len(line)
      BY <2>1, <2>2
    <3> QED BY <3>1, <2>1, SuffixProperties, Zenon
  <2> HIDE DEF front, back
  <2>6. /\ front \o back \in Seq(Participants) /\ Len(front \o back) = Len(line) - 1
        /\ \A i \in 1..(Len(line) - 1) :
              (front \o back)[i] = IF i =< k - 1 THEN front[i] ELSE back[i - (k - 1)]
    <3>1. /\ front \o back \in Seq(Participants) /\ Len(front \o back) = Len(front) + Len(back)
          /\ \A i \in 1..(Len(front) + Len(back)) :
                (front \o back)[i] = IF i <= Len(front) THEN front[i] ELSE back[i - Len(front)]
      BY <2>4, <2>5, ConcatProperties
    <3>2. Len(front) + Len(back) = Len(line) - 1 /\ Len(front) = k - 1
      BY <2>1, <2>2, <2>4, <2>5
    <3> QED BY <3>1, <3>2
  <2>7. \A i \in 1..(Len(line) - 1) : (front \o back)[i] = line[place[i]] /\ place[i] \in DOMAIN line /\ place[i] # k
    BY <2>1, <2>2, <2>4, <2>5, <2>6
  <2>8. DOMAIN (front \o back) = 1..(Len(line) - 1)
    BY <2>6
  <2>9. Drawn(front \o back, place)
    <3>1. \A i, j \in 1..(Len(line) - 1) : i < j => place[i] < place[j]
      BY <2>1, <2>2
    <3>2. place \in [1..(Len(line) - 1) -> DOMAIN line]
      BY <2>7
    <3> HIDE DEF place
    <3> QED BY <2>6, <2>7, <2>8, <3>1, <3>2 DEF Drawn
  <2>10. \A i \in DOMAIN (front \o back) : (front \o back)[i] # u
    BY <2>2, <2>7, <2>8, <2>1 DEF RoomInv, RoomIsOrderly
  <2> QED BY <1>2, <2>3, <2>9, <2>10 DEF FromLine
<1> QED BY <1>1, <1>2

LEMMA DrawnIsOrderly ==
    ASSUME RoomInv, NEW q, FromLine(q)
    PROVE  /\ \A i, j \in DOMAIN q : q[i] = q[j] => i = j
           /\ \A i \in DOMAIN q : presence[q[i]] = "PRESENT" /\ q[i] # speaker /\ InLine(q[i])
           /\ q \in Seq(Participants) /\ DOMAIN q = 1..Len(q) /\ Len(q) \in Nat
           /\ \A i, j \in DOMAIN line, k, l \in DOMAIN q :
                 i < j /\ line[i] = q[k] /\ line[j] = q[l] => k < l
<1>1. PICK place : Drawn(q, place)
  BY DEF FromLine
<1>2. /\ q \in Seq(Participants) /\ DOMAIN q = 1..Len(q) /\ Len(q) \in Nat
      /\ DOMAIN line = 1..Len(line) /\ Len(line) \in Nat
  BY <1>1 DEF Drawn, RoomInv, RoomTypes
<1>3. \A i \in DOMAIN q : place[i] \in DOMAIN line /\ q[i] = line[place[i]]
  BY <1>1 DEF Drawn
<1>4. \A i, j \in DOMAIN q : i < j => place[i] < place[j]
  BY <1>1 DEF Drawn
<1>5. \A i, j \in DOMAIN line : line[i] = line[j] => i = j
  BY DEF RoomInv, RoomIsOrderly
<1>6. \A i, j \in DOMAIN q : q[i] = q[j] => i = j
  BY <1>2, <1>3, <1>4, <1>5
<1>7. \A i \in DOMAIN q : presence[q[i]] = "PRESENT" /\ q[i] # speaker /\ InLine(q[i])
  BY <1>3 DEF RoomInv, RoomIsOrderly, InLine
<1>8. ASSUME NEW i \in DOMAIN line, NEW j \in DOMAIN line, NEW k \in DOMAIN q, NEW l \in DOMAIN q,
             i < j, line[i] = q[k], line[j] = q[l]
      PROVE  k < l
  BY <1>2, <1>3, <1>4, <1>5, <1>8
<1> QED BY <1>2, <1>6, <1>7, <1>8

LEMMA RestIsDrawn ==
    ASSUME RoomInv, NEW q, FromLine(q), NEW m \in DOMAIN q
    PROVE  LET rest == SubSeq(q, m + 1, Len(q))
           IN FromLine(rest) /\ \A i \in DOMAIN rest : rest[i] # q[m]
<1>1. PICK place : Drawn(q, place)
  BY DEF FromLine
<1>2. q \in Seq(Participants) /\ DOMAIN q = 1..Len(q) /\ Len(q) \in Nat
  BY DrawnIsOrderly
<1> DEFINE rest == SubSeq(q, m + 1, Len(q))
           after == [i \in 1..(Len(q) - m) |-> place[m + i]]
<1>3. /\ rest \in Seq(Participants) /\ Len(rest) = Len(q) - m /\ DOMAIN rest = 1..(Len(q) - m)
      /\ \A i \in 1..(Len(q) - m) : rest[i] = q[m + i]
  <2>1. m \in 0..Len(q)
    BY <1>2
  <2> QED BY <2>1, <1>2, SuffixProperties, Zenon
<1> HIDE DEF rest
<1>4. \A i \in 1..(Len(q) - m) : m + i \in DOMAIN q /\ m + i # m
  BY <1>2
<1>5. Drawn(rest, after)
  BY <1>1, <1>2, <1>3, <1>4 DEF Drawn
<1>6. \A i \in DOMAIN rest : rest[i] # q[m]
  BY <1>3, <1>4, DrawnIsOrderly
<1> QED BY <1>5, <1>6 DEF FromLine, rest

LEMMA RoomInvInit == SocialInit => RoomInv
  BY SocialAssumption DEF SocialInit, RoomInv, RoomTypes, RoomIsOrderly

\* The turn passes on: the line that is left is drawn from the one before, and whoever
\* speaks was the first of it.
LEMMA PromoteKeeps ==
    ASSUME RoomInv, NEW waiting, FromLine(waiting), Promote(waiting)
    PROVE  /\ FromLine(line') /\ turnNumber' \in Nat
           /\ \A i \in DOMAIN line' : line'[i] # speaker'
           /\ \/ waiting = <<>> /\ speaker' = None
              \/ waiting # <<>> /\ speaker' = Head(waiting) /\ speaker' = waiting[1] /\ 1 \in DOMAIN waiting
<1> DEFINE here == {i \in DOMAIN waiting : presence[waiting[i]] = "PRESENT"}
<1>1. /\ waiting \in Seq(Participants) /\ DOMAIN waiting = 1..Len(waiting) /\ Len(waiting) \in Nat
      /\ here = DOMAIN waiting
  BY DrawnIsOrderly
<1>2. turnNumber' \in Nat
  BY DEF Promote, NextTurn, RoomInv, RoomTypes
<1>3. CASE here = {} /\ speaker' = None /\ line' = <<>>
  <2>1. waiting = <<>>
    BY <1>1, <1>3, EmptySeq
  <2>2. FromLine(line')
    BY <1>3, <2>1
  <2>3. \A i \in DOMAIN line' : line'[i] # speaker'
    BY <1>3
  <2> QED BY <1>2, <1>3, <2>1, <2>2, <2>3
<1>4. ASSUME NEW i \in here, \A j \in here : i =< j,
             speaker' = waiting[i], line' = SubSeq(waiting, i + 1, Len(waiting))
      PROVE  /\ FromLine(line') /\ \A k \in DOMAIN line' : line'[k] # speaker'
             /\ waiting # <<>> /\ speaker' = Head(waiting) /\ speaker' = waiting[1] /\ 1 \in DOMAIN waiting
  <2>1. i = 1 /\ 1 \in DOMAIN waiting
    BY <1>1, <1>4
  <2>2. waiting # <<>> /\ Head(waiting) = waiting[1]
    BY <1>1, <2>1
  <2> QED BY <1>4, <2>1, <2>2, RestIsDrawn
<1> QED BY <1>2, <1>3, <1>4 DEF Promote

\* What an event makes of the line: it is drawn from the one before, with at most one who
\* is put behind it, and that is the speaker who is interrupted or one who was not in it.
LineStep ==
    \E q : /\ FromLine(q)
           /\ \A i \in DOMAIN q : q[i] # speaker' /\ presence'[q[i]] = "PRESENT"
           /\ \/ line' = q
              \/ \E u \in Participants :
                    /\ line' = Append(q, u) /\ presence'[u] = "PRESENT" /\ u # speaker'
                    /\ \A i \in DOMAIN q : q[i] # u
                    /\ u = speaker \/ ~InLine(u)

\* A line drawn from the one before, in front of whoever is put behind it.
LEMMA OrderlyAgain ==
    ASSUME RoomInv, RoomTypes', LineStep, speaker' # None => presence'[speaker'] = "PRESENT"
    PROVE  RoomInv'
<1>0. PICK q : /\ FromLine(q)
               /\ \A i \in DOMAIN q : q[i] # speaker' /\ presence'[q[i]] = "PRESENT"
               /\ \/ line' = q
                  \/ \E u \in Participants :
                        /\ line' = Append(q, u) /\ presence'[u] = "PRESENT" /\ u # speaker'
                        /\ \A i \in DOMAIN q : q[i] # u
                        /\ u = speaker \/ ~InLine(u)
  BY DEF LineStep
<1>1. /\ q \in Seq(Participants) /\ DOMAIN q = 1..Len(q) /\ Len(q) \in Nat
      /\ \A i, j \in DOMAIN q : q[i] = q[j] => i = j
  BY <1>0, DrawnIsOrderly
<1>2. CASE line' = q
  BY <1>0, <1>1, <1>2 DEF RoomInv, RoomIsOrderly
<1>3. ASSUME NEW u \in Participants, line' = Append(q, u), presence'[u] = "PRESENT",
             u # speaker', \A i \in DOMAIN q : q[i] # u
      PROVE  RoomInv'
  <2>1. DOMAIN line' = 1..(Len(q) + 1) /\ line'[Len(q) + 1] = u /\ \A i \in DOMAIN q : line'[i] = q[i]
    BY <1>1, <1>3, Appended
  <2>2. \A i \in DOMAIN line' : i \in DOMAIN q \/ i = Len(q) + 1
    BY <1>1, <2>1
  <2>3. \A i \in DOMAIN line' : presence'[line'[i]] = "PRESENT" /\ line'[i] # speaker'
    BY <1>0, <1>3, <2>1, <2>2
  <2>4. \A i, j \in DOMAIN line' : line'[i] = line'[j] => i = j
    <3> TAKE i, j \in DOMAIN line'
    <3> HAVE line'[i] = line'[j]
    <3>1. CASE i \in DOMAIN q /\ j \in DOMAIN q
      BY <3>1, <1>1, <2>1
    <3>2. CASE i = Len(q) + 1 \/ j = Len(q) + 1
      BY <3>2, <1>1, <1>3, <2>1, <2>2
    <3> QED BY <3>1, <3>2, <2>2
  <2> QED BY <1>0, <2>3, <2>4 DEF RoomInv, RoomIsOrderly
<1> QED BY <1>0, <1>2, <1>3

LEMMA EventSteps ==
    ASSUME RoomInv, NEW u \in Participants, EventOf(u)
    PROVE  RoomTypes' /\ LineStep /\ (speaker' # None => presence'[speaker'] = "PRESENT")
<1> USE SocialAssumption
<1>0. /\ presence \in [Participants -> {"ABSENT", "PRESENT", "LEFT"}]
      /\ speaker \in Participants \cup {None} /\ line \in Seq(Participants)
      /\ DOMAIN line = 1..Len(line) /\ Len(line) \in Nat
      /\ speaker # None => presence[speaker] = "PRESENT"
      /\ \A i \in DOMAIN line : presence[line[i]] = "PRESENT" /\ line[i] # speaker
      /\ turnNumber \in Nat
  BY DEF RoomInv, RoomTypes, RoomIsOrderly
<1>1. CASE Join(u)
  <2>1. RoomTypes'
    BY <1>0, <1>1 DEF Join, RoomInv, RoomTypes
  <2>2. \A v \in Participants : presence[v] = "PRESENT" => presence'[v] = "PRESENT"
    BY <1>0, <1>1 DEF Join
  <2>3. /\ speaker' # None => presence'[speaker'] = "PRESENT"
        /\ \A i \in DOMAIN line : presence'[line[i]] = "PRESENT" /\ line[i] # speaker'
    BY <1>0, <1>1, <2>2 DEF Join
  <2> QED BY <1>1, <2>1, <2>3, LineIsDrawn DEF Join, LineStep
<1>2. CASE Speak(u)
  <2>1. FromLine(line') /\ \A i \in DOMAIN line' : line'[i] # u
    <3>1. CASE line = <<>>
      <4>1. line' = line /\ DOMAIN line' = {}
        BY <1>0, <1>2, <3>1 DEF Speak
      <4> QED BY <4>1, LineIsDrawn
    <3>2. CASE line # <<>>
      <4>1. line' = Tail(line) /\ 1 \in DOMAIN line /\ line[1] = u
        BY <1>0, <1>2, <3>2 DEF Speak
      <4>2. Tail(line) = SubSeq(line, 1 + 1, Len(line))
        BY <1>0, <3>2, TailIsSubSeq
      <4> QED BY <4>1, <4>2, LineIsDrawn, RestIsDrawn
    <3> QED BY <3>1, <3>2
  <2>2. \A i \in DOMAIN line' : presence[line'[i]] = "PRESENT" /\ line' \in Seq(Participants)
    BY <2>1, DrawnIsOrderly
  <2>3. RoomTypes'
    BY <1>0, <1>2, <2>1, DrawnIsOrderly DEF Speak, NextTurn, RoomInv, RoomTypes
  <2> QED BY <1>0, <1>2, <2>1, <2>2, <2>3 DEF Speak, LineStep
<1>3. CASE Wait(u)
  <2>1. RoomTypes'
    BY <1>0, <1>3, AppendProperties DEF Wait, RoomInv, RoomTypes
  <2>2. /\ line' = Append(line, u) /\ u # speaker' /\ presence' = presence /\ speaker' = speaker
        /\ presence[u] = "PRESENT" /\ ~InLine(u)
    BY <1>3 DEF Wait
  <2>3. \A i \in DOMAIN line : line[i] # u
    BY <2>2 DEF InLine
  <2> QED BY <1>0, <2>1, <2>2, <2>3, LineIsDrawn DEF LineStep
<1>4. CASE Yield(u)
  <2>1. Promote(line) /\ presence' = presence /\ consents' = consents
    BY <1>4 DEF Yield
  <2>2. /\ FromLine(line') /\ turnNumber' \in Nat /\ \A i \in DOMAIN line' : line'[i] # speaker'
        /\ speaker' = None \/ (speaker' = line[1] /\ 1 \in DOMAIN line)
    BY <2>1, LineIsDrawn, PromoteKeeps
  <2>3. speaker' = None \/ (speaker' \in Participants /\ presence[speaker'] = "PRESENT")
    BY <1>0, <2>2
  <2>4. RoomTypes'
    BY <1>0, <2>1, <2>2, <2>3, DrawnIsOrderly DEF RoomInv, RoomTypes
  <2> QED BY <2>1, <2>2, <2>3, <2>4, DrawnIsOrderly DEF LineStep
<1>5. CASE LeaveRoom(u)
  <2> DEFINE w == LineWithout(u)
  <2>1. FromLine(w) /\ \A i \in DOMAIN w : w[i] # u /\ w[i] # speaker /\ presence[w[i]] = "PRESENT"
    BY WithoutIsDrawn, DrawnIsOrderly
  <2>2. /\ presence' = [presence EXCEPT ![u] = "LEFT"]
        /\ \A v \in Participants : v # u /\ presence[v] = "PRESENT" => presence'[v] = "PRESENT"
    BY <1>0, <1>5 DEF LeaveRoom
  <2>3. /\ \A c \in ConsentIds : consents'[c] # None => consents'[c] \in Entries
        /\ consents' = [c \in ConsentIds |-> consents'[c]]
    BY <1>5 DEF LeaveRoom, RoomInv, RoomTypes
  <2> HIDE DEF w
  <2>4. CASE speaker = u /\ Promote(w)
    <3>1. /\ FromLine(line') /\ turnNumber' \in Nat /\ \A i \in DOMAIN line' : line'[i] # speaker'
          /\ speaker' = None \/ (speaker' = w[1] /\ 1 \in DOMAIN w)
      BY <2>1, <2>4, PromoteKeeps
    <3>2. w \in Seq(Participants) /\ \A i \in DOMAIN line' : presence[line'[i]] = "PRESENT" /\ line'[i] # speaker
                                   /\ line' \in Seq(Participants)
      BY <2>1, <3>1, DrawnIsOrderly
    <3>3. speaker' = None \/ (speaker' \in Participants /\ presence'[speaker'] = "PRESENT")
      BY <2>1, <2>2, <3>1, <3>2
    <3>4. RoomTypes'
      <4>1. line' \in Seq(Participants)
        BY <3>1, DrawnIsOrderly
      <4>2. presence' \in [Participants -> {"ABSENT", "PRESENT", "LEFT"}]
        BY <1>0, <2>2
      <4> QED BY <2>3, <3>1, <3>3, <4>1, <4>2 DEF RoomTypes
    <3>5. \A i \in DOMAIN line' : presence'[line'[i]] = "PRESENT"
      <4> TAKE i \in DOMAIN line'
      <4>1. line'[i] \in Participants /\ line'[i] # u /\ presence[line'[i]] = "PRESENT"
        BY <2>4, <3>2
      <4> QED BY <2>2, <4>1
    <3> QED BY <3>1, <3>3, <3>4, <3>5 DEF LineStep
  <2>5. CASE speaker # u /\ line' = w /\ UNCHANGED <<speaker, turnNumber>>
    <3>1. w \in Seq(Participants) /\ \A i \in DOMAIN w : w[i] \in Participants
      BY <2>1, DrawnIsOrderly
    <3>2. \A i \in DOMAIN w : presence'[w[i]] = "PRESENT"
      BY <2>1, <2>2, <3>1
    <3>3. speaker' # None => presence'[speaker'] = "PRESENT"
      BY <1>0, <2>2, <2>5
    <3>4. presence' \in [Participants -> {"ABSENT", "PRESENT", "LEFT"}]
      BY <1>0, <2>2
    <3>5. RoomTypes'
      BY <1>0, <2>3, <2>5, <3>1, <3>4 DEF RoomTypes
    <3> QED BY <2>1, <2>5, <3>2, <3>3, <3>5 DEF LineStep
  <2> QED BY <1>5, <2>4, <2>5 DEF LeaveRoom, w
<1>6. ASSUME NEW c \in ConsentIds, Interrupt(u, c) PROVE RoomTypes' /\ LineStep /\ presence'[speaker'] = "PRESENT"
  <2> DEFINE w == LineWithout(u)
  <2>1. FromLine(w) /\ \A i \in DOMAIN w : w[i] # u /\ w[i] # speaker /\ presence[w[i]] = "PRESENT"
    BY WithoutIsDrawn, DrawnIsOrderly
  <2>2. w \in Seq(Participants)
    BY <2>1, DrawnIsOrderly
  <2> HIDE DEF w
  <2>3. /\ line' = Append(w, speaker) /\ speaker' = u /\ presence' = presence /\ speaker \in Participants
        /\ speaker # u /\ presence[u] = "PRESENT" /\ presence[speaker] = "PRESENT" /\ turnNumber' \in Nat
    BY <1>0, <1>6 DEF Interrupt, InLine, NextTurn, w
  <2>4. /\ consents[c] \in Entries /\ consents' = [consents EXCEPT ![c].consumed = TRUE]
    BY <1>6 DEF Interrupt, MayInterrupt, RoomInv, RoomTypes
  <2>5. [consents[c] EXCEPT !.consumed = TRUE] \in Entries
    BY <2>4 DEF Entries
  <2>6. /\ \A d \in ConsentIds : consents'[d] # None => consents'[d] \in Entries
        /\ consents' = [d \in ConsentIds |-> consents'[d]]
    BY <2>4, <2>5 DEF RoomInv, RoomTypes
  <2>7. RoomTypes'
    BY <1>0, <2>2, <2>3, <2>6, AppendProperties DEF RoomTypes
  <2> QED BY <1>0, <2>1, <2>3, <2>7 DEF LineStep
<1>7. ASSUME NEW c \in ConsentIds, NEW v \in Participants, Consent(u, v, c)
      PROVE  RoomTypes' /\ LineStep /\ (speaker' # None => presence'[speaker'] = "PRESENT")
  <2>1. [by |-> u, to |-> v, turn |-> turnNumber, consumed |-> FALSE] \in Entries
    BY <1>0 DEF Entries
  <2>2. RoomTypes'
    BY <1>7, <2>1 DEF Consent, RoomInv, RoomTypes
  <2> QED BY <1>0, <1>7, <2>2, LineIsDrawn DEF Consent, LineStep
<1> QED BY <1>1, <1>2, <1>3, <1>4, <1>5, <1>6, <1>7 DEF EventOf

LEMMA RoomInvStep == RoomInv /\ [SocialNext]_socialVars => RoomInv'
<1> SUFFICES ASSUME RoomInv, [SocialNext]_socialVars PROVE RoomInv'
  OBVIOUS
<1>1. ASSUME NEW u \in Participants, EventOf(u) PROVE RoomInv'
  <2>1. RoomTypes' /\ LineStep /\ (speaker' # None => presence'[speaker'] = "PRESENT")
    BY <1>1, EventSteps
  <2> QED BY <2>1, OrderlyAgain
<1>2. CASE UNCHANGED socialVars
  BY <1>2 DEF socialVars, RoomInv, RoomTypes, RoomIsOrderly
<1> QED BY <1>1, <1>2 DEF SocialNext

\* After any order of joining, speaking, waiting, interrupting, yielding and leaving: who
\* speaks or waits is there and waits once, a turn is only taken by a consent that is used
\* up, and nobody overtakes (process_event and _promote_next).
THEOREM TurnsPassInOrder ==
    SocialSpec => []RoomIsOrderly /\ TurnsAreTakenByConsent /\ NobodyOvertakes
<1>1. SocialSpec => []RoomInv
  BY RoomInvInit, RoomInvStep, PTL DEF SocialSpec
<1>2. RoomInv => RoomIsOrderly
  BY DEF RoomInv
<1> DEFINE Taken == speaker # None /\ speaker' # speaker /\ (\E i \in DOMAIN line' : line'[i] = speaker)
           LetIn == \E c \in ConsentIds :
              /\ consents[c] # None /\ ~consents[c].consumed /\ consents'[c].consumed
              /\ consents[c].by = speaker /\ consents[c].to = speaker' /\ consents[c].turn = turnNumber
           Order == \A i, j \in DOMAIN line, k, l \in DOMAIN line' :
              i < j /\ line[i] = line'[k] /\ line[j] = line'[l] /\ speaker \notin {line'[k], line'[l]} => k < l
           Freed == speaker # None /\ line # <<>> /\ speaker' # speaker /\ (\A i \in DOMAIN line' : line'[i] # speaker)
<1>3. ASSUME RoomInv, SocialNext, Taken PROVE LetIn
  <2>1. PICK u \in Participants : EventOf(u)
    BY <1>3 DEF SocialNext
  <2>2. CASE Yield(u) \/ LeaveRoom(u)
    <3>1. \E q : FromLine(q) /\ Promote(q)
      BY <1>3, <2>2, LineIsDrawn, WithoutIsDrawn DEF Yield, LeaveRoom
    <3>2. FromLine(line')
      BY <1>3, <3>1, PromoteKeeps
    <3> QED BY <1>3, <3>2, DrawnIsOrderly
  <2>3. ASSUME NEW c \in ConsentIds, Interrupt(u, c) PROVE LetIn
    <3>1. consents' = [consents EXCEPT ![c].consumed = TRUE] /\ MayInterrupt(u, c) /\ speaker' = u
      BY <2>3 DEF Interrupt
    <3>2. consents[c] \in Entries /\ DOMAIN consents = ConsentIds
      BY <1>3, <3>1 DEF MayInterrupt, RoomInv, RoomTypes
    <3>3. consents'[c].consumed
      BY <3>1, <3>2 DEF Entries
    <3> QED BY <3>1, <3>3 DEF MayInterrupt
  <2> QED BY <1>3, <2>1, <2>2, <2>3 DEF EventOf, Join, Speak, Wait, Consent
<1>4. ASSUME RoomInv, SocialNext PROVE Order
  <2>1. LineStep
    BY <1>4, EventSteps DEF SocialNext
  <2>2. PICK q : /\ FromLine(q)
                 /\ \/ line' = q
                    \/ \E u \in Participants : line' = Append(q, u) /\ (u = speaker \/ ~InLine(u))
    BY <2>1 DEF LineStep
  <2>3. /\ q \in Seq(Participants) /\ DOMAIN q = 1..Len(q) /\ Len(q) \in Nat
        /\ \A i, j \in DOMAIN line, k, l \in DOMAIN q : i < j /\ line[i] = q[k] /\ line[j] = q[l] => k < l
    BY <1>4, <2>2, DrawnIsOrderly
  <2>4. CASE line' = q
    BY <2>3, <2>4
  <2>5. ASSUME NEW u \in Participants, line' = Append(q, u), u = speaker \/ ~InLine(u) PROVE Order
    <3>1. DOMAIN line' = 1..(Len(q) + 1) /\ line'[Len(q) + 1] = u /\ \A i \in DOMAIN q : line'[i] = q[i]
      BY <2>3, <2>5, Appended
    <3>2. \A k \in DOMAIN line' : k \in DOMAIN q \/ line'[k] = u
      BY <2>3, <3>1
    <3>3. ASSUME NEW k \in DOMAIN line', NEW i \in DOMAIN line, line[i] = line'[k], speaker # line'[k]
          PROVE  k \in DOMAIN q /\ line'[k] = q[k]
      BY <2>5, <3>1, <3>2, <3>3 DEF InLine
    <3> QED BY <2>3, <3>3
  <2> QED BY <2>2, <2>4, <2>5
<1>5. ASSUME RoomInv, SocialNext, Freed PROVE speaker' = Head(line)
  <2>1. PICK u \in Participants : EventOf(u)
    BY <1>5 DEF SocialNext
  <2>2. ~InLine(speaker)
    BY <1>5 DEF RoomInv, RoomIsOrderly, InLine
  <2>3. ASSUME Promote(line) PROVE speaker' = Head(line)
    BY <1>5, <2>3, LineIsDrawn, PromoteKeeps
  <2>4. CASE LeaveRoom(u)
    BY <1>5, <2>2, <2>3, <2>4, WithoutIsDrawn DEF LeaveRoom
  <2>5. ASSUME NEW c \in ConsentIds, Interrupt(u, c) PROVE FALSE
    <3>1. line' = Append(LineWithout(u), speaker) /\ speaker \in Participants
      BY <1>5, <2>2, <2>5 DEF Interrupt, RoomInv, RoomTypes
    <3>2. LineWithout(u) \in Seq(Participants) /\ Len(LineWithout(u)) \in Nat
      BY <1>5, WithoutIsDrawn, DrawnIsOrderly
    <3>3. Len(LineWithout(u)) + 1 \in DOMAIN line' /\ line'[Len(LineWithout(u)) + 1] = speaker
      BY <3>1, <3>2, Appended
    <3> QED BY <1>5, <3>3
  <2> QED BY <1>5, <2>1, <2>3, <2>4, <2>5 DEF EventOf, Join, Speak, Wait, Yield, Consent
<1>6. RoomInv /\ [SocialNext]_socialVars => [Taken => LetIn]_socialVars /\ [Order /\ (Freed => speaker' = Head(line))]_socialVars
  BY <1>3, <1>4, <1>5
<1> QED BY <1>1, <1>2, <1>6, PTL DEF SocialSpec, TurnsAreTakenByConsent, NobodyOvertakes

-----------------------------------------------------------------------------
(* CommunityRules                                                          *)

Deeds == roomAudit \cup verdicts \cup incidents \cup appeals

\* The records are numbered as they come, and the users who left a role are known.
Numbered ==
    /\ IsFiniteSet(verdicts) /\ IsFiniteSet(incidents) /\ IsFiniteSet(appeals)
    /\ \A v \in verdicts : v.nth \in Nat /\ v.nth < Cardinality(verdicts)
    /\ \A v \in verdicts : v.decision = "EXIT_ROLE_PACK" => v.user \in exitedUsers

AuditEntries ==
    [type : {"INCIDENT_DECISION", "APPEAL_DECISION"}, record : IncidentNames \cup AppealNames, actor : Guests]

Entry(n, kind, id) == n \in DOMAIN auditLog /\ auditLog[n].type = kind /\ auditLog[n].record = id

ToldOnce(id) ==
    \E n \in DOMAIN auditLog :
        /\ Entry(n, "INCIDENT_DECISION", id)
        /\ \A m \in DOMAIN auditLog : Entry(m, "INCIDENT_DECISION", id) => m = n

ToldAfter(id, incident) ==
    \E m, n \in DOMAIN auditLog :
        Entry(m, "INCIDENT_DECISION", incident) /\ Entry(n, "APPEAL_DECISION", id) /\ m < n

\* Every incident has its one entry, no entry is of another, and an appeal comes after its
\* incident.
AuditIsComplete ==
    /\ auditLog \in Seq(AuditEntries)
    /\ Len(auditLog) = Cardinality(incidents) + Cardinality(appeals)
    /\ \A i, j \in incidents : i.id = j.id => i = j
    /\ \A i \in incidents : ToldOnce(i.id)
    /\ \A n \in DOMAIN auditLog : auditLog[n].type = "INCIDENT_DECISION" =>
          \E i \in incidents : i.id = auditLog[n].record
    /\ \A a \in appeals : \E i \in incidents :
          a.incident = i.id /\ a.user = i.subject /\ ToldAfter(a.id, i.id)

RulesInv ==
    /\ RulesTypeOK /\ OneDeedPerBadge /\ ExitIsTheLast /\ IncidentsAreGrounded
    /\ Numbered /\ AuditIsComplete

LEMMA RulesInvInit == RulesInit => RulesInv
<1> SUFFICES ASSUME RulesInit PROVE RulesInv
  OBVIOUS
<1>1. IsFiniteSet(verdicts) /\ IsFiniteSet(incidents) /\ IsFiniteSet(appeals)
      /\ Cardinality(incidents) = 0 /\ Cardinality(appeals) = 0
  BY FS_EmptySet DEF RulesInit
<1>2. Len(auditLog) = 0 /\ DOMAIN auditLog = {}
      /\ auditLog \in Seq(AuditEntries)
  BY DEF RulesInit
<1>3. RulesTypeOK /\ OneDeedPerBadge /\ ExitIsTheLast /\ IncidentsAreGrounded
  BY RulesAssumption DEF RulesInit, RulesTypeOK, OneDeedPerBadge, ExitIsTheLast, IncidentsAreGrounded
<1>4. Numbered /\ AuditIsComplete
  BY <1>1, <1>2 DEF RulesInit, Numbered, AuditIsComplete
<1> QED BY <1>3, <1>4 DEF RulesInv

\* Whoever takes a token for a deed: nobody had used it, and now it is of this deed alone.
LEMMA DeedIsNew ==
    ASSUME RulesInv, NEW b \in Badges, NEW u, SpendsBadge(b, u), NEW d, d.badge = b.id,
           Deeds' = Deeds \cup {d}
    PROVE  OneDeedPerBadge' /\ spent' \subseteq {t.id : t \in Badges}
<1>1. b.id \notin spent /\ spent' = spent \cup {b.id}
  BY DEF SpendsBadge, Desk!TokenAccepted
<1>2. spent = {e.badge : e \in Deeds} /\ \A e, f \in Deeds : e.badge = f.badge => e = f
  BY DEF RulesInv, OneDeedPerBadge, Deeds
<1>3. spent' = {e.badge : e \in Deeds'} /\ \A e, f \in Deeds' : e.badge = f.badge => e = f
  BY <1>1, <1>2
<1>4. OneDeedPerBadge'
  BY <1>3 DEF OneDeedPerBadge, Deeds
<1> QED BY <1>1, <1>4 DEF RulesInv, RulesTypeOK

LEMMA VerdictKeeps ==
    ASSUME RulesInv, NEW b \in Badges, NEW u \in Guests, NEW id \in RequestNames,
           NEW intent \in RoleIntents, NEW trigger \in RoleTriggers,
           EvaluateRole(b, u, id, intent, trigger)
    PROVE  RulesInv'
<1> DEFINE new == [request |-> id, user |-> u, decision |-> RoleDecision(intent, trigger),
                   badge |-> b.id, nth |-> Cardinality(verdicts)]
<1>1. /\ verdicts' = verdicts \cup {new} /\ roleRequests' = roleRequests \cup {id}
      /\ id \notin roleRequests /\ u \notin exitedUsers /\ SpendsBadge(b, u)
      /\ exitedUsers' = exitedUsers \cup (IF new.decision = "EXIT_ROLE_PACK" THEN {u} ELSE {})
      /\ roomAudit' = roomAudit /\ incidents' = incidents /\ appeals' = appeals
      /\ auditLog' = auditLog /\ minute' = minute
      /\ new.request = id /\ new.user = u /\ new.badge = b.id /\ new.nth = Cardinality(verdicts)
  BY DEF EvaluateRole, FreshRequest, RoomRests
<1> HIDE DEF new
<1>2. Deeds' = Deeds \cup {new}
  BY <1>1 DEF Deeds
<1>3. OneDeedPerBadge' /\ spent' \subseteq {t.id : t \in Badges}
  BY <1>1, <1>2, DeedIsNew
<1>4. new \notin verdicts /\ roleRequests' = {v.request : v \in verdicts'}
  BY <1>1 DEF RulesInv, RulesTypeOK
<1>5. IsFiniteSet(verdicts') /\ Cardinality(verdicts') = Cardinality(verdicts) + 1
      /\ Cardinality(verdicts) \in Nat
  BY <1>1, <1>4, FS_AddElement, FS_CardinalityType DEF RulesInv, Numbered
<1>6. Numbered'
  BY <1>1, <1>5 DEF RulesInv, Numbered
<1>7. ExitIsTheLast'
  <2>1. \A v \in verdicts : v.request # id
    BY <1>1 DEF RulesInv, RulesTypeOK
  <2>2. \A v, w \in verdicts' : v.request = w.request => v = w
    BY <1>1, <2>1 DEF RulesInv, ExitIsTheLast
  <2>3. \A v \in verdicts : v.decision = "EXIT_ROLE_PACK" => v.user # u
    BY <1>1 DEF RulesInv, Numbered
  <2>4. \A v \in verdicts : v.nth =< new.nth
    BY <1>1, <1>5 DEF RulesInv, Numbered
  <2>5. \A v, w \in verdicts' : v.decision = "EXIT_ROLE_PACK" /\ w.user = v.user => w.nth =< v.nth
    BY <1>1, <1>5, <2>3, <2>4 DEF RulesInv, ExitIsTheLast
  <2> QED BY <2>2, <2>5 DEF ExitIsTheLast
<1>8. RulesTypeOK' /\ IncidentsAreGrounded'
  BY <1>1, <1>3, <1>4 DEF RulesInv, RulesTypeOK, IncidentsAreGrounded
<1>9. AuditIsComplete'
  BY <1>1 DEF RulesInv, AuditIsComplete, ToldOnce, ToldAfter, Entry
<1> QED BY <1>3, <1>6, <1>7, <1>8, <1>9 DEF RulesInv

\* An entry that is appended leaves the entries that were there in their places.
LEMMA EntryIsAppended ==
    ASSUME RulesInv, NEW kind \in {"INCIDENT_DECISION", "APPEAL_DECISION"},
           NEW id \in IncidentNames \cup AppealNames, NEW u \in Guests, AppendAudit(kind, id, u)
    PROVE  LET n == Len(auditLog) + 1 IN
           /\ auditLog' \in Seq(AuditEntries)
           /\ n \in Nat /\ Len(auditLog') = n /\ DOMAIN auditLog' = DOMAIN auditLog \cup {n}
           /\ \A m \in DOMAIN auditLog : m \in Nat /\ m < n /\ auditLog'[m] = auditLog[m]
           /\ auditLog'[n].type = kind /\ auditLog'[n].record = id
<1> DEFINE n == Len(auditLog) + 1
           e == [type |-> kind, record |-> id, actor |-> u]
<1>1. e \in AuditEntries /\ e.type = kind /\ e.record = id
  BY DEF AuditEntries
<1>2. auditLog' = Append(auditLog, e) /\ auditLog \in Seq(AuditEntries)
  BY DEF AppendAudit, RulesInv, AuditIsComplete
<1> HIDE DEF e
<1>3. /\ auditLog' \in Seq(AuditEntries) /\ Len(auditLog') = n /\ auditLog'[n] = e
      /\ \A m \in 1..Len(auditLog) : auditLog'[m] = auditLog[m]
  BY <1>1, <1>2, AppendProperties
<1>4. Len(auditLog) \in Nat /\ DOMAIN auditLog = 1..Len(auditLog) /\ DOMAIN auditLog' = 1..n
  BY <1>2, <1>3
<1> QED BY <1>1, <1>3, <1>4

LEMMA IncidentKeeps ==
    ASSUME RulesInv, NEW b \in Badges, NEW u \in Guests, NEW id \in IncidentNames,
           NEW subject \in Guests, NEW category, NEW occurred \in 0..LastMinute,
           NEW verdict \in verdicts, Assess(b, u, id, subject, category, occurred, verdict)
    PROVE  RulesInv'
<1> DEFINE new == [id |-> id, reporter |-> u, subject |-> subject, actions |-> Categories[category],
                   at |-> minute, latency |-> minute - occurred, verdict |-> verdict, badge |-> b.id]
           n == Len(auditLog) + 1
<1>1. /\ incidents' = incidents \cup {new} /\ SpendsBadge(b, u) /\ AppendAudit("INCIDENT_DECISION", id, u)
      /\ roomAudit' = roomAudit /\ verdicts' = verdicts /\ appeals' = appeals
      /\ roleRequests' = roleRequests /\ exitedUsers' = exitedUsers /\ minute' = minute
      /\ new.id = id /\ new.reporter = u /\ new.badge = b.id /\ new.verdict = verdict
      /\ new.latency = minute - occurred /\ new.at = minute /\ new.actions = Categories[category]
  BY DEF Assess, RoomRests
<1>2. /\ \A i \in incidents : i.id # id
      /\ category \in DOMAIN Categories /\ occurred =< minute /\ minute - occurred < ResponseWindow
      /\ verdict.user = u
  BY DEF Assess, AcceptableReport, Reported, Warrants
<1> HIDE DEF new
<1>3. Deeds' = Deeds \cup {new}
  BY <1>1 DEF Deeds
<1>4. OneDeedPerBadge' /\ spent' \subseteq {t.id : t \in Badges}
  BY <1>1, <1>3, DeedIsNew
<1>5. IsFiniteSet(incidents') /\ Cardinality(incidents') = Cardinality(incidents) + 1
      /\ Cardinality(incidents) \in Nat /\ Cardinality(appeals) \in Nat
  BY <1>1, <1>2, FS_AddElement, FS_CardinalityType DEF RulesInv, Numbered
<1>6. Numbered' /\ ExitIsTheLast' /\ RulesTypeOK'
  BY <1>1, <1>4, <1>5 DEF RulesInv, Numbered, ExitIsTheLast, RulesTypeOK
<1>7. IncidentsAreGrounded'
  <2>1. minute \in Nat /\ occurred \in Nat
    BY RulesAssumption DEF RulesInv, RulesTypeOK
  <2>2. /\ new.latency < ResponseWindow /\ new.latency =< new.at
        /\ new.verdict \in verdicts /\ new.verdict.user = new.reporter
        /\ new.actions \in {Categories[c] : c \in DOMAIN Categories}
    BY <1>1, <1>2, <2>1
  <2> QED BY <1>1, <2>2 DEF RulesInv, IncidentsAreGrounded
<1>8. AuditIsComplete'
  <2>1. /\ auditLog' \in Seq(AuditEntries)
        /\ n \in Nat /\ Len(auditLog') = n /\ DOMAIN auditLog' = DOMAIN auditLog \cup {n}
        /\ \A m \in DOMAIN auditLog : m \in Nat /\ m < n /\ auditLog'[m] = auditLog[m]
        /\ auditLog'[n].type = "INCIDENT_DECISION" /\ auditLog'[n].record = id
    <3>1. AppendAudit("INCIDENT_DECISION", id, u) /\ id \in IncidentNames \cup AppealNames
      BY <1>1
    <3> QED BY <3>1, EntryIsAppended
  <2> HIDE DEF n
  <2>2. \A m \in DOMAIN auditLog : ~Entry(m, "INCIDENT_DECISION", id)
    BY <1>2 DEF RulesInv, AuditIsComplete, ToldOnce, ToldAfter, Entry
  <2>3. \A i \in incidents : ToldOnce(i.id)'
    <3> SUFFICES ASSUME NEW i \in incidents PROVE ToldOnce(i.id)'
      OBVIOUS
    <3>1. PICK m \in DOMAIN auditLog :
            /\ Entry(m, "INCIDENT_DECISION", i.id)
            /\ \A k \in DOMAIN auditLog : Entry(k, "INCIDENT_DECISION", i.id) => k = m
      BY DEF RulesInv, AuditIsComplete, ToldOnce
    <3>2. i.id # id
      BY <1>2
    <3> QED BY <2>1, <3>1, <3>2 DEF Entry, ToldOnce
  <2>4. ToldOnce(id)'
    BY <2>1, <2>2 DEF Entry, ToldOnce
  <2>5. \A m \in DOMAIN auditLog' : auditLog'[m].type = "INCIDENT_DECISION" =>
          \E i \in incidents' : i.id = auditLog'[m].record
    BY <1>1, <2>1 DEF RulesInv, AuditIsComplete
  <2>6. \A a \in appeals : \A i \in incidents : ToldAfter(a.id, i.id) => ToldAfter(a.id, i.id)'
    BY <2>1 DEF Entry, ToldAfter
  <2>7. Len(auditLog') = Cardinality(incidents') + Cardinality(appeals')
    <3>1. Len(auditLog) = Cardinality(incidents) + Cardinality(appeals)
      BY DEF RulesInv, AuditIsComplete
    <3> QED BY <1>1, <1>5, <2>1, <3>1 DEF n
  <2>8. \A i, j \in incidents' : i.id = j.id => i = j
    BY <1>1, <1>2 DEF RulesInv, AuditIsComplete
  <2>9. /\ \A i \in incidents' : ToldOnce(i.id)'
        /\ \A a \in appeals' : \E i \in incidents' :
              a.incident = i.id /\ a.user = i.subject /\ ToldAfter(a.id, i.id)'
    BY <1>1, <2>3, <2>4, <2>6 DEF RulesInv, AuditIsComplete
  <2> QED BY <2>1, <2>5, <2>7, <2>8, <2>9 DEF AuditIsComplete
<1> QED BY <1>4, <1>6, <1>7, <1>8 DEF RulesInv

LEMMA AppealKeeps ==
    ASSUME RulesInv, NEW b \in Badges, NEW u \in Guests, NEW id \in AppealNames,
           NEW incident \in incidents, AppealAgainst(b, u, id, incident)
    PROVE  RulesInv'
<1> DEFINE new == [id |-> id, incident |-> incident.id, user |-> u, badge |-> b.id]
           n == Len(auditLog) + 1
<1>1. /\ appeals' = appeals \cup {new} /\ SpendsBadge(b, u) /\ AppendAudit("APPEAL_DECISION", id, u)
      /\ roomAudit' = roomAudit /\ verdicts' = verdicts /\ incidents' = incidents
      /\ roleRequests' = roleRequests /\ exitedUsers' = exitedUsers /\ minute' = minute
      /\ new.id = id /\ new.badge = b.id /\ new.incident = incident.id /\ new.user = incident.subject
      /\ new \notin appeals
  BY DEF AppealAgainst, RoomRests
<1> HIDE DEF new
<1>2. Deeds' = Deeds \cup {new}
  BY <1>1 DEF Deeds
<1>3. OneDeedPerBadge' /\ spent' \subseteq {t.id : t \in Badges}
  BY <1>1, <1>2, DeedIsNew
<1>4. IsFiniteSet(appeals') /\ Cardinality(appeals') = Cardinality(appeals) + 1
      /\ Cardinality(incidents) \in Nat /\ Cardinality(appeals) \in Nat
  BY <1>1, FS_AddElement, FS_CardinalityType DEF RulesInv, Numbered
<1>5. Numbered' /\ ExitIsTheLast' /\ RulesTypeOK' /\ IncidentsAreGrounded'
  BY <1>1, <1>3, <1>4 DEF RulesInv, Numbered, ExitIsTheLast, RulesTypeOK, IncidentsAreGrounded
<1>6. AuditIsComplete'
  <2>1. /\ auditLog' \in Seq(AuditEntries)
        /\ n \in Nat /\ Len(auditLog') = n /\ DOMAIN auditLog' = DOMAIN auditLog \cup {n}
        /\ \A m \in DOMAIN auditLog : m \in Nat /\ m < n /\ auditLog'[m] = auditLog[m]
        /\ auditLog'[n].type = "APPEAL_DECISION" /\ auditLog'[n].record = id
    BY <1>1, EntryIsAppended
  <2>2. Len(auditLog') = Cardinality(incidents') + Cardinality(appeals')
    <3>1. Len(auditLog) = Cardinality(incidents) + Cardinality(appeals)
      BY DEF RulesInv, AuditIsComplete
    <3> QED BY <1>1, <1>4, <2>1, <3>1
  <2> HIDE DEF n
  <2>3. \A i \in incidents : ToldOnce(i.id)'
    <3> SUFFICES ASSUME NEW i \in incidents PROVE ToldOnce(i.id)'
      OBVIOUS
    <3>1. PICK m \in DOMAIN auditLog :
            /\ Entry(m, "INCIDENT_DECISION", i.id)
            /\ \A k \in DOMAIN auditLog : Entry(k, "INCIDENT_DECISION", i.id) => k = m
      BY DEF RulesInv, AuditIsComplete, ToldOnce
    <3> QED BY <2>1, <3>1 DEF Entry, ToldOnce
  <2>4. \A m \in DOMAIN auditLog' : auditLog'[m].type = "INCIDENT_DECISION" =>
          \E i \in incidents' : i.id = auditLog'[m].record
    BY <1>1, <2>1 DEF RulesInv, AuditIsComplete
  <2>5. \A a \in appeals : \A i \in incidents : ToldAfter(a.id, i.id) => ToldAfter(a.id, i.id)'
    BY <2>1 DEF Entry, ToldAfter
  <2>6. ToldAfter(id, incident.id)'
    <3>1. PICK m \in DOMAIN auditLog : Entry(m, "INCIDENT_DECISION", incident.id)
      BY DEF RulesInv, AuditIsComplete, ToldOnce
    <3> QED BY <2>1, <3>1 DEF Entry, ToldAfter
  <2>7. \A i, j \in incidents' : i.id = j.id => i = j
    BY <1>1 DEF RulesInv, AuditIsComplete
  <2>8. \A a \in appeals' : \E i \in incidents' :
          a.incident = i.id /\ a.user = i.subject /\ ToldAfter(a.id, i.id)'
    BY <1>1, <2>5, <2>6 DEF RulesInv, AuditIsComplete
  <2> QED BY <1>1, <2>1, <2>2, <2>3, <2>4, <2>7, <2>8 DEF AuditIsComplete
<1> QED BY <1>3, <1>5, <1>6 DEF RulesInv

LEMMA RulesInvStep == RulesInv /\ [RulesNext]_rulesVars => RulesInv'
<1> SUFFICES ASSUME RulesInv, [RulesNext]_rulesVars PROVE RulesInv'
  OBVIOUS
<1>1. ASSUME NEW b \in Badges, NEW u \in Guests, EventInRoom(b, u) PROVE RulesInv'
  <2> DEFINE new == [badge |-> b.id, user |-> u, nth |-> Cardinality(roomAudit)]
  <2>1. /\ roomAudit' = roomAudit \cup {new} /\ SpendsBadge(b, u) /\ minute' = minute
        /\ roleRequests' = roleRequests /\ exitedUsers' = exitedUsers /\ verdicts' = verdicts
        /\ incidents' = incidents /\ appeals' = appeals /\ auditLog' = auditLog
        /\ new.badge = b.id
    BY <1>1 DEF EventInRoom, EnginesRest
  <2> HIDE DEF new
  <2>2. Deeds' = Deeds \cup {new}
    BY <2>1 DEF Deeds
  <2>3. OneDeedPerBadge' /\ spent' \subseteq {t.id : t \in Badges}
    BY <2>1, <2>2, DeedIsNew
  <2> QED BY <2>1, <2>3 DEF RulesInv, RulesTypeOK, ExitIsTheLast, IncidentsAreGrounded, Numbered,
                            AuditIsComplete, ToldOnce, ToldAfter, Entry
<1>2. CASE MinutePasses \/ UNCHANGED rulesVars
  <2>1. /\ spent' = spent /\ roleRequests' = roleRequests /\ exitedUsers' = exitedUsers
        /\ verdicts' = verdicts /\ incidents' = incidents /\ appeals' = appeals
        /\ auditLog' = auditLog /\ roomAudit' = roomAudit /\ minute' \in 0..LastMinute
    BY <1>2, RulesAssumption DEF MinutePasses, EnginesRest, rulesVars, RulesInv, RulesTypeOK
  <2>2. RulesTypeOK' /\ OneDeedPerBadge' /\ ExitIsTheLast' /\ IncidentsAreGrounded'
    BY <2>1 DEF RulesInv, RulesTypeOK, OneDeedPerBadge, ExitIsTheLast, IncidentsAreGrounded
  <2>3. Numbered' /\ AuditIsComplete'
    BY <2>1 DEF RulesInv, Numbered, AuditIsComplete, ToldOnce, ToldAfter, Entry
  <2> QED BY <2>2, <2>3 DEF RulesInv
<1> QED BY <1>1, <1>2, VerdictKeeps, IncidentKeeps, AppealKeeps DEF RulesNext

\* RolePackEngine.evaluate, CommunitySafetyEngine.assess and appeal, in any order and between
\* the events of the room: a token serves for one deed, nothing is decided of a user who left
\* the role, containment rests on a report in time by an allowed reporter, and the audit has
\* every decision once, an incident before its appeals.
THEOREM DecisionsAreGrounded ==
    RulesSpec => [](RulesTypeOK /\ OneDeedPerBadge /\ ExitIsTheLast /\ IncidentsAreGrounded /\ AuditTellsAll)
<1>1. RulesInv => AuditTellsAll
  <2> SUFFICES ASSUME RulesInv PROVE AuditTellsAll
    OBVIOUS
  <2> DEFINE places(kind, id) == {n \in DOMAIN auditLog : auditLog[n].type = kind /\ auditLog[n].record = id}
  <2>1. ASSUME NEW i \in incidents PROVE Cardinality(places("INCIDENT_DECISION", i.id)) = 1
    <3>1. PICK n \in DOMAIN auditLog :
            /\ Entry(n, "INCIDENT_DECISION", i.id)
            /\ \A m \in DOMAIN auditLog : Entry(m, "INCIDENT_DECISION", i.id) => m = n
      BY DEF RulesInv, AuditIsComplete, ToldOnce
    <3>2. places("INCIDENT_DECISION", i.id) = {n}
      BY <3>1 DEF Entry
    <3> QED BY <3>2, FS_Singleton
  <2>2. ASSUME NEW a \in appeals
        PROVE  \E i \in incidents :
                  /\ a.incident = i.id /\ a.user = i.subject
                  /\ \E m \in places("INCIDENT_DECISION", i.id), n \in places("APPEAL_DECISION", a.id) : m < n
    BY DEF RulesInv, AuditIsComplete, ToldOnce, ToldAfter, Entry
  <2> QED BY <2>1, <2>2 DEF AuditTellsAll, RulesInv, AuditIsComplete
<1>2. RulesSpec => []RulesInv
  BY RulesInvInit, RulesInvStep, PTL DEF RulesSpec
<1>3. RulesInv => RulesTypeOK /\ OneDeedPerBadge /\ ExitIsTheLast /\ IncidentsAreGrounded
  BY DEF RulesInv
<1> QED BY <1>1, <1>2, <1>3, PTL

\* What a room promises: the line is kept, a turn is only taken by consent, and what is decided
\* of a guest is decided once, on what was allowed.
RoomsAreFair ==
    /\ [](RoomIsOrderly /\ RulesTypeOK /\ OneDeedPerBadge /\ ExitIsTheLast
          /\ IncidentsAreGrounded /\ AuditTellsAll)
    /\ TurnsAreTakenByConsent
    /\ NobodyOvertakes

\* social_interaction_protocol_v1, role_packs_v1 and community_safety_v1.
THEOREM RoomsAlwaysFair == SocialSpec /\ RulesSpec => RoomsAreFair
  BY TurnsPassInOrder, DecisionsAreGrounded, PTL DEF RoomsAreFair

-----------------------------------------------------------------------------
(* State that is reconciled                                                *)

\* A finite set has a member whose f is the greatest.
LEMMA FiniteHasGreatest ==
    ASSUME NEW S, IsFiniteSet(S), S # {}, NEW f, \A c \in S : f[c] \in Nat
    PROVE  \E c \in S : \A d \in S : f[d] <= f[c]
<1> DEFINE Without == {R \in FiniteSubsetsOf(S) : R # {} /\ ~\E c \in R : \A d \in R : f[d] <= f[c]}
<1>1. SUFFICES ASSUME Without # {} PROVE FALSE
  BY DEF FiniteSubsetsOf
<1>2. PICK R \in Without : \A Q \in Without : <<Q, R>> \notin StrictSubsetOrdering(S)
  <2>1. IsWellFoundedOn(StrictSubsetOrdering(S), FiniteSubsetsOf(S))
    BY FS_StrictSubsetOrderingWellFounded
  <2>2. Without \subseteq FiniteSubsetsOf(S)
    OBVIOUS
  <2> HIDE DEF Without
  <2> QED BY <1>1, <2>1, <2>2, WFMin
<1>3. PICK c \in R : TRUE
  OBVIOUS
<1>4. R \ {c} \notin Without
  BY <1>2 DEF StrictSubsetOrdering, FiniteSubsetsOf
<1>5. R \subseteq S /\ IsFiniteSet(R \ {c})
  BY FS_Subset DEF FiniteSubsetsOf
<1>6. R \ {c} # {} /\ \A b \in R \ {c} : \E d \in R \ {c} : ~(f[d] <= f[b])
  <2>1. R \ {c} # {}
    <3>1. ASSUME R \ {c} = {} PROVE FALSE
      <4>1. \A d \in R : d = c
        BY <3>1
      <4> QED BY <1>3, <1>5, <4>1
    <3> QED BY <3>1
  <2>2. ASSUME NEW b \in R \ {c}, \A d \in R \ {c} : f[d] <= f[b] PROVE FALSE
    <3>1. f[b] \in Nat /\ f[c] \in Nat
      BY <1>5
    <3>2. CASE f[c] <= f[b]
      <4>1. \A d \in R : f[d] <= f[b]
        BY <2>2, <3>2
      <4> QED BY <4>1
    <3>3. CASE f[b] <= f[c]
      <4>1. \A d \in R : f[d] <= f[c]
        BY <1>5, <2>2, <3>1, <3>3
      <4> QED BY <1>3, <4>1
    <3> QED BY <3>1, <3>2, <3>3
  <2> QED BY <2>1, <2>2
<1> QED BY <1>4, <1>5, <1>6 DEF FiniteSubsetsOf

\* Every source has a place in every profile, and only one source has it.
LEMMA PriorityType ==
    ASSUME NEW c \in StateClaims
    PROVE  Priority(c) \in 1..4
<1>1. \E i \in 1..4 : Authority[c.profile][i] = c.source
  <2>1. c.profile \in {"spatial_fact", "user_intent", "speech_fact", "behavior_inference"} /\ c.source \in Sources
    BY ReconciliationAssumption DEF Authority
  <2>2. 1 \in 1..4 /\ 2 \in 1..4 /\ 3 \in 1..4 /\ 4 \in 1..4
    OBVIOUS
  <2>3. CASE c.profile = "spatial_fact"
    BY <2>1, <2>2, <2>3 DEF Authority, Sources
  <2>4. CASE c.profile = "user_intent"
    BY <2>1, <2>2, <2>4 DEF Authority, Sources
  <2>5. CASE c.profile = "speech_fact"
    BY <2>1, <2>2, <2>5 DEF Authority, Sources
  <2>6. CASE c.profile = "behavior_inference"
    BY <2>1, <2>2, <2>6 DEF Authority, Sources
  <2> QED BY <2>1, <2>3, <2>4, <2>5, <2>6
<1> QED BY <1>1 DEF Priority

\* Of claims that are fresh some decide.
LEMMA SomeDecide ==
    ASSUME NEW S \in SUBSET StateClaims, IsFiniteSet(S), S # {}
    PROVE  Deciding(S) # {}
<1>1. \A c \in StateClaims : c.version \in Nat /\ c.observed \in Nat /\ Priority(c) \in 1..4
  BY ReconciliationAssumption, PriorityType
<1>2. Newest(S) # {} /\ Newest(S) \subseteq S
  <2>1. \E c \in S : \A d \in S : [e \in S |-> e.version][d] <= [e \in S |-> e.version][c]
    <3> DEFINE f == [e \in S |-> e.version]
    <3>1. \A c \in S : f[c] \in Nat
      BY <1>1
    <3> HIDE DEF f
    <3>2. \E c \in S : \A d \in S : f[d] <= f[c]
      BY <3>1, FiniteHasGreatest
    <3> QED BY <3>2 DEF f
  <2> QED BY <2>1 DEF Newest
<1>3. Strongest(Newest(S)) # {} /\ Strongest(Newest(S)) \subseteq S
  <2> DEFINE f == [e \in Newest(S) |-> 4 - Priority(e)]
  <2>1. \A c \in Newest(S) : f[c] \in Nat
    BY <1>1, <1>2
  <2>2. IsFiniteSet(Newest(S))
    BY <1>2, FS_Subset
  <2>3. \E c \in Newest(S) : \A d \in Newest(S) : f[d] <= f[c]
    <3> HIDE DEF f
    <3> QED BY <1>2, <2>1, <2>2, FiniteHasGreatest
  <2>4. \A c, d \in Newest(S) : f[d] <= f[c] => Priority(c) <= Priority(d)
    BY <1>1, <1>2
  <2>5. \E c \in Newest(S) : \A d \in Newest(S) : Priority(c) <= Priority(d)
    BY <2>3, <2>4
  <2> QED BY <1>2, <2>5 DEF Strongest
<1>4. \E c \in Strongest(Newest(S)) : \A d \in Strongest(Newest(S)) : d.observed <= c.observed
  <2> DEFINE f == [e \in Strongest(Newest(S)) |-> e.observed]
  <2>1. \A c \in Strongest(Newest(S)) : f[c] \in Nat
    BY <1>1, <1>3
  <2>2. IsFiniteSet(Strongest(Newest(S)))
    BY <1>3, FS_Subset
  <2>3. \E c \in Strongest(Newest(S)) : \A d \in Strongest(Newest(S)) : f[d] <= f[c]
    <3> HIDE DEF f
    <3> QED BY <1>3, <2>1, <2>2, FiniteHasGreatest
  <2> QED BY <2>3
<1> QED BY <1>4 DEF Deciding

\* What is selected is one of the claims, it is fresh, and none of them beats it.
LEMMA SelectedIsBest ==
    ASSUME NEW S \in SUBSET StateClaims, IsFiniteSet(S), S # {}, Selected(S) # None
    PROVE  Selected(S) \in S /\ FreshClaim(Selected(S)) /\ \A c \in S : Unbeaten(Selected(S), c)
<1> DEFINE F == FreshOf(S)  p == Selected(S)
<1>1. ~FailsClosed(S)
  BY DEF Selected
<1>2. F \subseteq S /\ F # {} /\ IsFiniteSet(F)
  BY <1>1, FS_Subset DEF FreshOf, FailsClosed
<1>3. p \in Deciding(F)
  BY <1>1, <1>2, SomeDecide DEF Selected
<1>4. /\ p \in F /\ FreshClaim(p)
      /\ p \in Newest(F) /\ \A d \in F : d.version <= p.version
      /\ \A d \in Newest(F) : Priority(p) <= Priority(d)
      /\ \A d \in Strongest(Newest(F)) : d.observed <= p.observed
  BY <1>3 DEF Deciding, Strongest, Newest, FreshOf
<1>5. \A c \in StateClaims : c.version \in Nat /\ c.observed \in Nat /\ Priority(c) \in 1..4
  BY ReconciliationAssumption, PriorityType
<1>6. ASSUME NEW c \in S PROVE Unbeaten(p, c)
  <2>1. c.version <= p.version
    <3>1. PICK d \in F : ~(d.version < c.version)
      BY <1>1 DEF FailsClosed
    <3>2. d.version <= p.version /\ d \in StateClaims /\ p \in StateClaims /\ c \in StateClaims
      BY <1>2, <1>4
    <3> HIDE DEF p
    <3> QED BY <1>5, <3>1, <3>2
  <2>2. ASSUME c.version = p.version, FreshClaim(c)
        PROVE  /\ c.profile = p.profile
               /\ Priority(p) <= Priority(c)
               /\ Priority(p) = Priority(c) =>
                    c.observed <= p.observed /\ (c.observed = p.observed => c.value = p.value)
    <3>1. c \in Newest(F)
      BY <1>4, <2>2 DEF Newest, FreshOf
    <3>2. c.profile = p.profile /\ Priority(p) <= Priority(c)
      BY <1>1, <1>4, <3>1 DEF FailsClosed
    <3>3. ASSUME Priority(p) = Priority(c)
          PROVE  c.observed <= p.observed /\ (c.observed = p.observed => c.value = p.value)
      <4>1. c \in Strongest(Newest(F))
        BY <1>4, <3>1, <3>3 DEF Strongest
      <4>2. c.observed = p.observed => c \in Deciding(F)
        BY <1>4, <4>1 DEF Deciding
      <4> QED BY <1>1, <1>3, <1>4, <4>1, <4>2 DEF FailsClosed
    <3> QED BY <3>2, <3>3
  <2> QED BY <2>1, <2>2 DEF Unbeaten
<1> QED BY <1>2, <1>4, <1>6

\* What beats a claim that is fresh and beats another beats the other as well.
LEMMA UnbeatenIsTransitive ==
    ASSUME NEW p \in StateClaims, NEW s \in StateClaims, NEW c \in StateClaims,
           FreshClaim(s), Unbeaten(p, s), Unbeaten(s, c)
    PROVE  Unbeaten(p, c)
<1>1. \A d \in StateClaims : d.version \in Nat /\ d.observed \in Nat /\ Priority(d) \in 1..4
  BY ReconciliationAssumption, PriorityType
<1>2. c.version <= s.version /\ s.version <= p.version
  BY DEF Unbeaten
<1>3. c.version <= p.version
  BY <1>1, <1>2
<1>4. ASSUME c.version = p.version, FreshClaim(c)
      PROVE  /\ c.profile = p.profile
             /\ Priority(p) <= Priority(c)
             /\ Priority(p) = Priority(c) =>
                  c.observed <= p.observed /\ (c.observed = p.observed => c.value = p.value)
  <2>1. c.version = s.version /\ s.version = p.version
    BY <1>1, <1>2, <1>4
  <2>2. /\ c.profile = s.profile /\ Priority(s) <= Priority(c)
        /\ Priority(s) = Priority(c) => c.observed <= s.observed /\ (c.observed = s.observed => c.value = s.value)
    BY <1>4, <2>1 DEF Unbeaten
  <2>3. /\ s.profile = p.profile /\ Priority(p) <= Priority(s)
        /\ Priority(p) = Priority(s) => s.observed <= p.observed /\ (s.observed = p.observed => s.value = p.value)
    BY <2>1 DEF Unbeaten
  <2>4. Priority(p) = Priority(c) => Priority(p) = Priority(s) /\ Priority(s) = Priority(c)
    BY <1>1, <2>2, <2>3
  <2>5. Priority(p) <= Priority(c)
    BY <1>1, <2>2, <2>3
  <2>6. Priority(p) = Priority(c) =>
          c.observed <= p.observed /\ (c.observed = p.observed => c.observed = s.observed /\ s.observed = p.observed)
    BY <1>1, <2>2, <2>3, <2>4
  <2> QED BY <2>2, <2>3, <2>4, <2>5, <2>6
<1> QED BY <1>3, <1>4 DEF Unbeaten

\* A claim of an older version never beats one.
LEMMA OlderIsUnbeaten ==
    ASSUME NEW p \in StateClaims, NEW c \in StateClaims, c.version < p.version
    PROVE  Unbeaten(p, c)
BY ReconciliationAssumption DEF Unbeaten

ReconcilerInv == ReconcilerTypeOK /\ ProjectionIsUnbeaten

\* What ingest leaves of a key: nothing, the projection that stood, unbeaten by what came, or
\* one of the claims that came, fresh, unbeaten by the others, and of no older version.
LEMMA IngestedIsUnbeaten ==
    ASSUME ReconcilerInv, NEW k \in Keys, NEW S \in SUBSET StateClaims, IsFiniteSet(S), S # {},
           Ingested(k, S) # None
    PROVE  /\ Ingested(k, S) \in StateClaims
           /\ Ingested(k, S) \in S \cup {projection[k]} /\ FreshClaim(Ingested(k, S))
           /\ \A c \in S : Unbeaten(Ingested(k, S), c)
           /\ Current(k) # None => Ingested(k, S).version >= Current(k).version
<1> DEFINE c == Current(k)  s == Selected(S)  p == Ingested(k, S)
<1>1. \A d \in StateClaims : d # None /\ d.version \in Nat
  BY ReconciliationAssumption
<1>2. c # None => c = projection[k] /\ c \in StateClaims /\ FreshClaim(c)
  BY DEF Current, ReconcilerInv, ReconcilerTypeOK
<1>3. s # None => s \in S /\ s \in StateClaims /\ FreshClaim(s) /\ \A d \in S : Unbeaten(s, d)
  BY SelectedIsBest
<1>4. CASE s = None
  <2>1. p = c /\ c # None /\ ~\E d \in S : d.version >= c.version
    BY <1>4 DEF Ingested
  <2>2. ASSUME NEW d \in S PROVE Unbeaten(c, d)
    <3>1. d \in StateClaims /\ d.version < c.version
      BY <1>1, <1>2, <2>1
    <3> HIDE DEF c
    <3> QED BY <1>2, <2>1, <3>1, OlderIsUnbeaten
  <2> QED BY <1>1, <1>2, <2>1, <2>2
<1>5. CASE s # None /\ (c = None \/ s.version > c.version)
  <2>1. p = s
    <3>1. c # None => ~(s.version < c.version) /\ s.version # c.version
      BY <1>1, <1>2, <1>3, <1>5
    <3> QED BY <1>5, <3>1 DEF Ingested
  <2> QED BY <1>1, <1>2, <1>3, <1>5, <2>1
<1>6. CASE s # None /\ c # None /\ s.version < c.version
  <2>1. p = c
    <3>1. ~(s.version > c.version)
      BY <1>1, <1>2, <1>3, <1>6
    <3> QED BY <1>6, <3>1 DEF Ingested
  <2>2. ASSUME NEW d \in S PROVE Unbeaten(c, d)
    <3>1. d \in StateClaims /\ d.version <= s.version
      BY <1>3, <1>6 DEF Unbeaten
    <3>2. d.version < c.version
      BY <1>1, <1>2, <1>3, <1>6, <3>1
    <3> HIDE DEF c
    <3> QED BY <1>2, <1>6, <3>1, <3>2, OlderIsUnbeaten
  <2> QED BY <1>1, <1>2, <1>6, <2>1, <2>2
<1>7. CASE s # None /\ c # None /\ s.version = c.version
  <2>1. p = Selected({c, s})
    <3>1. ~(s.version > c.version) /\ ~(s.version < c.version)
      BY <1>1, <1>2, <1>3, <1>7
    <3> QED BY <1>7, <3>1 DEF Ingested
  <2>2. {c, s} \in SUBSET StateClaims /\ IsFiniteSet({c, s}) /\ {c, s} # {}
    <3>1. IsFiniteSet({c}) /\ IsFiniteSet({c} \cup {s}) /\ {c} \cup {s} = {c, s}
      BY FS_Singleton, FS_AddElement
    <3> QED BY <1>2, <1>3, <1>7, <3>1
  <2>3. p \in {c, s} /\ FreshClaim(p) /\ Unbeaten(p, c) /\ Unbeaten(p, s)
    <3> HIDE DEF c, s
    <3> QED BY <2>1, <2>2, SelectedIsBest
  <2>4. p \in StateClaims /\ p \in S \cup {projection[k]}
    BY <1>2, <1>3, <1>7, <2>3
  <2>5. ASSUME NEW d \in S PROVE Unbeaten(p, d)
    <3>1. d \in StateClaims /\ Unbeaten(s, d) /\ FreshClaim(s) /\ s \in StateClaims
      BY <1>3, <1>7
    <3> HIDE DEF s, p
    <3> QED BY <2>3, <2>4, <3>1, UnbeatenIsTransitive
  <2>6. p.version >= c.version
    <3>1. c.version <= p.version
      BY <2>3 DEF Unbeaten
    <3> QED BY <1>1, <1>2, <1>7, <2>4, <3>1
  <2> QED BY <2>3, <2>4, <2>5, <2>6
<1>8. c # None => c.version \in Nat
  BY <1>1, <1>2
<1>9. s # None => s.version \in Nat
  BY <1>1, <1>3
<1> QED
  <2> HIDE DEF c, s
  <2>1. s # None /\ c # None => s.version > c.version \/ s.version < c.version \/ s.version = c.version
    BY <1>8, <1>9
  <2> QED BY <1>4, <1>5, <1>6, <1>7, <2>1 DEF c, s

LEMMA ReconcilerInvInit == ReconcilerInit => ReconcilerInv
BY ReconciliationAssumption DEF ReconcilerInit, ReconcilerInv, ReconcilerTypeOK, ProjectionIsUnbeaten

\* Time only makes claims stale.
LEMMA OldIsNotFresh ==
    ASSUME NEW c \in StateClaims, now \in Nat, now' \in Nat, now <= now', FreshClaim(c)'
    PROVE  FreshClaim(c)
<1>1. c.observed \in Nat /\ Lifetime[c.source] \in Nat
  BY ReconciliationAssumption
<1> QED BY <1>1 DEF FreshClaim

LEMMA UnbeatenLater ==
    ASSUME NEW p \in StateClaims, NEW c \in StateClaims, now \in Nat, now' \in Nat, now <= now',
           Unbeaten(p, c)
    PROVE  Unbeaten(p, c)'
BY OldIsNotFresh DEF Unbeaten, Priority

LEMMA IngestKeeps ==
    ASSUME ReconcilerInv, NEW S \in SUBSET StateClaims, IsFiniteSet(S), Ingest(S)
    PROVE  /\ ReconcilerInv'
           /\ \A k \in Keys : projection[k] # None /\ FreshClaim(projection[k]) /\ projection'[k] # None
                                => projection'[k].version >= projection[k].version
<1> DEFINE of(k) == {c \in S : c.key = k}
<1>1. /\ now' = now /\ now \in 0..LastTick /\ now \in Nat
      /\ projection \in [Keys -> StateClaims \cup {None}] /\ rivals \in [Keys -> SUBSET StateClaims]
      /\ projection' \in [Keys -> StateClaims \cup {None} \cup {projection'[k] : k \in Keys}]
      /\ \A k \in Keys : projection'[k] = IF of(k) # {} THEN Ingested(k, of(k)) ELSE projection[k]
      /\ \A k \in Keys : rivals'[k] = IF of(k) = {} THEN rivals[k]
                                      ELSE IF projection'[k] = None THEN {}
                                      ELSE IF projection'[k] = Current(k) THEN rivals[k] \cup of(k) ELSE of(k)
      /\ rivals' = [k \in Keys |-> rivals'[k]] /\ projection' = [k \in Keys |-> projection'[k]]
  <2>1. \A k : k \in {c.key : c \in S} <=> of(k) # {}
    OBVIOUS
  <2>2. now' = now /\ now \in 0..LastTick /\ now \in Nat
    BY ReconciliationAssumption DEF Ingest, ReconcilerInv, ReconcilerTypeOK
  <2> QED BY <2>1, <2>2 DEF Ingest, ReconcilerInv, ReconcilerTypeOK
<1>2. ASSUME NEW k \in Keys, projection'[k] # None
      PROVE  /\ projection'[k] \in StateClaims /\ projection'[k].key = k /\ ~projection'[k].stale
             /\ \A c \in rivals'[k] : Unbeaten(projection'[k], c)
             /\ projection[k] # None /\ FreshClaim(projection[k]) => projection'[k].version >= projection[k].version
  <2>1. CASE of(k) = {}
    <3>1. projection'[k] = projection[k] /\ rivals'[k] = rivals[k]
      BY <1>1, <2>1
    <3>2. projection[k] \in StateClaims /\ projection[k].version \in Nat
      BY <1>1, <1>2, <3>1, ReconciliationAssumption
    <3> QED BY <1>2, <3>1, <3>2 DEF ReconcilerInv, ReconcilerTypeOK, ProjectionIsUnbeaten
  <2>2. CASE of(k) # {}
    <3> DEFINE p == projection'[k]
    <3>1. p = Ingested(k, of(k)) /\ of(k) \in SUBSET StateClaims /\ IsFiniteSet(of(k))
      BY <1>1, <2>2, FS_Subset
    <3>2. /\ p \in StateClaims /\ p \in of(k) \cup {projection[k]} /\ FreshClaim(p)
          /\ \A c \in of(k) : Unbeaten(p, c)
          /\ Current(k) # None => p.version >= Current(k).version
      <4> HIDE DEF of
      <4> QED BY <1>2, <2>2, <3>1, IngestedIsUnbeaten
    <3>3. p.key = k
      BY <1>2, <3>2 DEF ReconcilerInv, ReconcilerTypeOK
    <3>4. projection[k] # None /\ FreshClaim(projection[k]) => Current(k) # None /\ Current(k) = projection[k]
      BY DEF Current
    <3>5. ASSUME NEW c \in rivals'[k] PROVE Unbeaten(p, c)
      <4>1. CASE c \in of(k)
        BY <3>2, <4>1
      <4>2. CASE c \notin of(k)
        <5>1. p = Current(k) /\ c \in rivals[k]
          BY <1>1, <1>2, <2>2, <3>5, <4>2
        <5>2. p = projection[k]
          BY <1>2, <5>1 DEF Current
        <5> QED BY <1>2, <5>1, <5>2 DEF ReconcilerInv, ProjectionIsUnbeaten
      <4> QED BY <4>1, <4>2
    <3> QED BY <3>2, <3>3, <3>4, <3>5 DEF FreshClaim
  <2> QED BY <2>1, <2>2
<1>3. \A k \in Keys : rivals'[k] \in SUBSET StateClaims
  BY <1>1
<1>4. ReconcilerTypeOK'
  <2>1. projection' \in [Keys -> StateClaims \cup {None}] /\ rivals' \in [Keys -> SUBSET StateClaims]
    BY <1>1, <1>2, <1>3
  <2> QED BY <1>1, <1>2, <2>1 DEF ReconcilerTypeOK
<1>5. ASSUME NEW k \in Keys, projection'[k] # None, NEW c \in rivals'[k]
      PROVE  Unbeaten(projection[k], c)'
  <2>1. Unbeaten(projection'[k], c)
    BY <1>2, <1>5
  <2> QED BY <1>1, <2>1 DEF Unbeaten, FreshClaim, Priority
<1>6. ProjectionIsUnbeaten'
  BY <1>5 DEF ProjectionIsUnbeaten
<1> QED BY <1>2, <1>4, <1>6 DEF ReconcilerInv

LEMMA ReconcilerStep ==
    ASSUME ReconcilerInv, [ReconcilerNext]_reconcilerVars
    PROVE  /\ ReconcilerInv'
           /\ \A k \in Keys : projection[k] # None /\ FreshClaim(projection[k]) /\ projection'[k] # None
                                => projection'[k].version >= projection[k].version
<1>1. ASSUME NEW S \in SUBSET StateClaims, IsFiniteSet(S), Ingest(S)
      PROVE  /\ ReconcilerInv'
             /\ \A k \in Keys : projection[k] # None /\ FreshClaim(projection[k]) /\ projection'[k] # None
                                  => projection'[k].version >= projection[k].version
  BY <1>1, IngestKeeps
<1>2. \A k \in Keys : projection[k] # None => projection[k].version \in Nat
  BY ReconciliationAssumption DEF ReconcilerInv, ReconcilerTypeOK
<1>3. now \in Nat /\ LastTick \in Nat
  BY ReconciliationAssumption DEF ReconcilerInv, ReconcilerTypeOK
<1>4. ASSUME now' \in 0..LastTick, now <= now',
             projection' \in [Keys -> StateClaims \cup {None}], rivals' \in [Keys -> SUBSET StateClaims],
             \A k \in Keys : projection'[k] # None => projection'[k] = projection[k] /\ rivals'[k] = rivals[k]
      PROVE  /\ ReconcilerInv'
             /\ \A k \in Keys : projection[k] # None /\ FreshClaim(projection[k]) /\ projection'[k] # None
                                  => projection'[k].version >= projection[k].version
  <2>1. ASSUME NEW k \in Keys, projection'[k] # None, NEW c \in rivals'[k]
        PROVE  Unbeaten(projection[k], c)'
    <3>1. /\ projection'[k] = projection[k] /\ c \in rivals[k] /\ projection[k] \in StateClaims /\ c \in StateClaims
          /\ Unbeaten(projection[k], c)
      BY <1>4, <2>1 DEF ReconcilerInv, ReconcilerTypeOK, ProjectionIsUnbeaten
    <3>2. now' \in Nat
      BY <1>3, <1>4
    <3>3. \A q \in StateClaims : q = projection[k] => Unbeaten(q, c)'
      BY <1>3, <1>4, <3>1, <3>2, UnbeatenLater
    <3> QED BY <3>1, <3>3 DEF Unbeaten, FreshClaim, Priority
  <2>2. ReconcilerTypeOK'
    BY <1>4 DEF ReconcilerInv, ReconcilerTypeOK
  <2> QED BY <1>2, <1>4, <2>1, <2>2 DEF ReconcilerInv, ProjectionIsUnbeaten
<1>5. ASSUME NEW k \in Keys, GetEvicts(k) PROVE /\ now' = now
                                               /\ projection' = [projection EXCEPT ![k] = None]
                                               /\ rivals' = [rivals EXCEPT ![k] = {}]
  BY <1>5 DEF GetEvicts
<1>6. ASSUME NEW k \in Keys, GetEvicts(k)
      PROVE  /\ now' \in 0..LastTick /\ now <= now'
             /\ projection' \in [Keys -> StateClaims \cup {None}] /\ rivals' \in [Keys -> SUBSET StateClaims]
             /\ \A j \in Keys : projection'[j] # None => projection'[j] = projection[j] /\ rivals'[j] = rivals[j]
  BY <1>3, <1>5, <1>6 DEF ReconcilerInv, ReconcilerTypeOK
<1>7. ASSUME ReconcilerTick \/ UNCHANGED reconcilerVars
      PROVE  /\ now' \in 0..LastTick /\ now <= now'
             /\ projection' \in [Keys -> StateClaims \cup {None}] /\ rivals' \in [Keys -> SUBSET StateClaims]
             /\ \A j \in Keys : projection'[j] # None => projection'[j] = projection[j] /\ rivals'[j] = rivals[j]
  BY <1>3, <1>7 DEF ReconcilerInv, ReconcilerTypeOK, ReconcilerTick, reconcilerVars
<1> QED BY <1>1, <1>4, <1>6, <1>7 DEF ReconcilerNext

\* Whatever claims come, in whatever batches and however late: what is believed is beaten by none
\* of the claims that came since, and no claim that is still fresh gives way to an older version.
THEOREM ProjectionsAreUnbeaten ==
    ReconcilerSpec => [](ReconcilerTypeOK /\ ProjectionIsUnbeaten) /\ CurrentIsNotRolledBack
<1>1. ReconcilerInv /\ [ReconcilerNext]_reconcilerVars => ReconcilerInv'
  BY ReconcilerStep
<1>2. ReconcilerInv /\ [ReconcilerNext]_reconcilerVars =>
        [\A k \in Keys : (projection[k] # None /\ FreshClaim(projection[k]) /\ projection'[k] # None)
           => projection'[k].version >= projection[k].version]_reconcilerVars
  BY ReconcilerStep
<1>3. ReconcilerInv => ReconcilerTypeOK /\ ProjectionIsUnbeaten
  BY DEF ReconcilerInv
<1> QED BY <1>1, <1>2, <1>3, ReconcilerInvInit, PTL DEF ReconcilerSpec, CurrentIsNotRolledBack

-----------------------------------------------------------------------------
(* Frames, maps and targets                                                *)

\* A store is a sequence; its entries are looked at one by one.
Listed(store) == store \in Seq({store[i] : i \in DOMAIN store})

LEMMA SequencesAreListed ==
    ASSUME NEW A, NEW s \in Seq(A)
    PROVE  Listed(s) /\ \A i \in DOMAIN s : s[i] \in A
<1>1. Len(s) \in Nat /\ DOMAIN s = 1..Len(s) /\ \A i \in 1..Len(s) : s[i] \in A
  OBVIOUS
<1>2. s = [i \in 1..Len(s) |-> s[i]]
  BY <1>1
<1>3. s \in [1..Len(s) -> {s[i] : i \in DOMAIN s}]
  BY <1>1, <1>2
<1> QED BY <1>1, <1>3, SeqDef DEF Listed

LEMMA MaxWithZero ==
    ASSUME NEW n \in Int
    PROVE  Max({0, n}) = IF n > 0 THEN n ELSE 0
<1>1. \E x \in {0, n} : \A y \in {0, n} : x >= y
  <2>1. CASE n > 0
    BY <2>1
  <2>2. CASE ~(n > 0)
    BY <2>2
  <2> QED BY <2>1, <2>2
<1>2. Max({0, n}) \in {0, n} /\ \A y \in {0, n} : Max({0, n}) >= y
  BY <1>1 DEF Max
<1> QED BY <1>2

\* What _bounded_store leaves: the new entry, and entries that were there.
LEMMA StoredProperties ==
    ASSUME NEW store, Listed(store), NEW key, NEW value
    PROVE  /\ Listed(Stored(store, key, value))
           /\ \A j \in DOMAIN Stored(store, key, value) :
                 \/ Stored(store, key, value)[j] = [key |-> key, value |-> value]
                 \/ \E i \in DOMAIN store : Stored(store, key, value)[j] = store[i]
<1> DEFINE entry == [key |-> key, value |-> value]
           A == {store[i] : i \in DOMAIN store} \cup {entry}
           grown == IF key \in KeysOf(store)
                    THEN [i \in DOMAIN store |-> IF store[i].key = key THEN entry ELSE store[i]]
                    ELSE Append(store, entry)
           m == Max({0, Len(grown) - CacheSize})
           remains == SubSeq(grown, m + 1, Len(grown))
<1>1. grown \in Seq(A)
  <2>1. store \in Seq(A)
    <3>1. store \in Seq({store[i] : i \in DOMAIN store})
      BY DEF Listed
    <3>2. {store[i] : i \in DOMAIN store} \subseteq A
      OBVIOUS
    <3> HIDE DEF A
    <3> QED BY <3>1, <3>2
  <2>2. [i \in DOMAIN store |-> IF store[i].key = key THEN entry ELSE store[i]] \in Seq(A)
    <3>1. DOMAIN store = 1..Len(store) /\ Len(store) \in Nat
      BY <2>1
    <3>2. [i \in DOMAIN store |-> IF store[i].key = key THEN entry ELSE store[i]] \in [1..Len(store) -> A]
      BY <3>1
    <3> QED BY <3>1, <3>2
  <2>3. Append(store, entry) \in Seq(A)
    <3>1. entry \in A
      OBVIOUS
    <3> HIDE DEF A, entry
    <3> QED BY <2>1, <3>1
  <2> QED BY <2>2, <2>3
<1>2. m \in 0..Len(grown)
  <2>1. Len(grown) \in Nat /\ CacheSize \in Nat
    BY <1>1, FramesAssumption
  <2> HIDE DEF grown
  <2>2. m = IF Len(grown) - CacheSize > 0 THEN Len(grown) - CacheSize ELSE 0
    BY <2>1, MaxWithZero
  <2> QED BY <2>1, <2>2
<1>3. remains \in Seq(A) /\ DOMAIN remains = 1..(Len(grown) - m) /\ Len(grown) \in Nat
  <2> HIDE DEF grown, m, A
  <2> QED BY <1>1, <1>2, SuffixProperties
<1>4. Stored(store, key, value) = remains
  BY DEF Stored
<1>5. Listed(remains) /\ \A j \in DOMAIN remains : remains[j] \in A
  <2> HIDE DEF remains, A, grown, m
  <2> QED BY <1>3, SequencesAreListed
<1>6. \A j \in DOMAIN remains : remains[j] = entry \/ \E i \in DOMAIN store : remains[j] = store[i]
  <2> HIDE DEF remains, entry
  <2> QED BY <1>5
<1> HIDE DEF remains
<1> QED BY <1>4, <1>5, <1>6

\* A value that is looked up is the value of an entry with that key.
LEMMA OfIsAnEntry ==
    ASSUME NEW store, NEW id \in KeysOf(store)
    PROVE  \E i \in DOMAIN store : store[i].key = id /\ Of(store, id) = store[i].value
BY DEF KeysOf, Of

\* Of the keys, what the proofs need: a frame's id is of its view and moment, a map's of the frame
\* it is for, a target's of the map; and what a map and a target are.
FrameIsNamed(e) ==
    /\ e.key.captured = e.value.captured /\ e.key.native = e.value.native
    /\ e.key.camera = e.value.view.camera /\ e.key.depth = e.value.view.depth
    /\ e.value.captured \in Int
    /\ e.value.snapshot # None => e.value.snapshot.captured \in Int
MapIsOfItsMoment(m) ==
    /\ m.snapshot.captured - m.source.captured \in -1..MaxSkew
    /\ m.at - m.snapshot.captured \in -10..WorldMaxAge
    /\ m.metadata.snapshot # None => m.snapshot = m.metadata.snapshot /\ m.snapshot.native = m.source.native
    /\ m.session = m.source.session
TargetIsSeen(t) ==
    /\ t.source = t.map.source /\ t.session = t.source.session
    /\ t.role \in {None, t.hit.role}
    /\ t.byDepth <=> t.source.depth # None
    /\ t.byDepth => t.hit \in t.source.depth

ClocksAreTimes ==
    /\ instant \in Nat
    /\ frame # None => frame.captured \in Int /\ (frame.snapshot # None => frame.snapshot.captured \in Int)
    /\ served # None => served.snapshot.captured \in Int
CapturesAreNamed == Listed(captures) /\ \A i \in DOMAIN captures : FrameIsNamed(captures[i])
MapsAreNamed ==
    /\ Listed(maps)
    /\ \A i \in DOMAIN maps : maps[i].key.source = maps[i].value.source /\ MapIsOfItsMoment(maps[i].value)
TargetsAreNamed == Listed(targets) /\ \A i \in DOMAIN targets : TargetIsSeen(targets[i].value)
BuildingIsOfAFrame ==
    building # None =>
        /\ building.metadata.snapshot = None
        /\ building.request.source.captured = building.metadata.captured
        /\ building.request.source.native = building.metadata.native
        /\ building.request.session = building.request.source.session
FramesInv ==
    /\ ClocksAreTimes /\ CapturesAreNamed /\ MapsAreNamed /\ TargetsAreNamed
    /\ BuildingIsOfAFrame /\ WaysAreOfOneFrame

LEMMA FramesInvInit == FramesInit => FramesInv
<1>1. ASSUME FramesInit PROVE Listed(<<>>) /\ DOMAIN <<>> = {}
  BY DEF Listed
<1> QED
  BY <1>1 DEF FramesInit, FramesInv, ClocksAreTimes, CapturesAreNamed, MapsAreNamed, TargetsAreNamed,
              BuildingIsOfAFrame, WaysAreOfOneFrame

LEMMA EngineTicksKeeps ==
    ASSUME FramesInv, EngineTicks
    PROVE  FramesInv'
<1>1. ClocksAreTimes'
  <2>1. ASSUME Render, UNCHANGED <<instant, served>> PROVE ClocksAreTimes'
    <3>1. PICK shot \in FrameShots :
            frame' = [native |-> shot.native, captured |-> instant + shot.ahead, view |-> shot.view,
                      snapshot |-> IF shot.layout = None THEN None ELSE SnapshotOf(shot.layout, shot.ahead, shot.of)]
      BY <2>1 DEF Render
    <3>2. instant + shot.ahead \in Int
      BY FramesAssumption DEF FramesInv, ClocksAreTimes
    <3> QED BY <2>1, <3>1, <3>2 DEF FramesInv, ClocksAreTimes, SnapshotOf
  <2>2. ASSUME BridgeTicks, UNCHANGED <<instant, frame>> PROVE ClocksAreTimes'
    <3>1. PICK place \in Rooms :
            served' = [updated |-> instant + place.ahead, snapshot |-> SnapshotOf(place.layout, place.ahead, None)]
      BY <2>2 DEF BridgeTicks
    <3>2. instant + place.ahead \in Int
      BY FramesAssumption DEF FramesInv, ClocksAreTimes
    <3> QED BY <2>2, <3>1, <3>2 DEF FramesInv, ClocksAreTimes, SnapshotOf
  <2> QED BY <2>1, <2>2 DEF EngineTicks, EngineOrBridge
<1> QED BY <1>1 DEF EngineTicks, FramesInv, CapturesAreNamed, MapsAreNamed, TargetsAreNamed,
                    BuildingIsOfAFrame, WaysAreOfOneFrame

LEMMA CaptureKeeps ==
    ASSUME FramesInv, Capture
    PROVE  FramesInv'
<1>1. PICK session \in FrameSessions : captures' = Stored(captures, FrameId(session), frame)
  BY DEF Capture
<1>2. frame # None /\ handedOn' = None /\ UNCHANGED <<instant, frame, served, maps, targets, building>>
  BY DEF Capture, FrameServes
<1>3. FrameIsNamed([key |-> FrameId(session), value |-> frame])
  BY <1>2 DEF FrameIsNamed, FrameId, FramesInv, ClocksAreTimes
<1>4. CapturesAreNamed'
  <2>1. Listed(captures) /\ \A i \in DOMAIN captures : FrameIsNamed(captures[i])
    BY DEF FramesInv, CapturesAreNamed
  <2>2. /\ Listed(captures')
        /\ \A j \in DOMAIN captures' : \/ captures'[j] = [key |-> FrameId(session), value |-> frame]
                                       \/ \E i \in DOMAIN captures : captures'[j] = captures[i]
    BY <1>1, <2>1, StoredProperties
  <2>3. \A j \in DOMAIN captures' : FrameIsNamed(captures'[j])
    BY <1>3, <2>1, <2>2
  <2> QED BY <2>2, <2>3 DEF CapturesAreNamed, Listed, FrameIsNamed
<1> QED BY <1>2, <1>4 DEF FramesInv, ClocksAreTimes, MapsAreNamed, TargetsAreNamed,
                          BuildingIsOfAFrame, WaysAreOfOneFrame

\* A map that is built of a frame and a room that is neither old nor of the future.
LEMMA BuildsFromKeeps ==
    ASSUME FramesInv, NEW request, NEW metadata, NEW snapshot,
           BuildsFrom(request, metadata, snapshot), ~TooOld(snapshot), snapshot.captured \in Int,
           request.source.captured = metadata.captured, request.source.native = metadata.native,
           request.session = request.source.session,
           metadata.snapshot # None => snapshot = metadata.snapshot /\ snapshot.native = metadata.native
    PROVE  /\ MapsAreNamed'
           /\ handedOn'.is = "map"
<1>1. PICK m \in {MapOf(request, metadata, snapshot)} :
        /\ maps' = Stored(maps, MapId(request, snapshot, m.radius), m)
        /\ handedOn' = [is |-> "map", map |-> m]
  BY DEF BuildsFrom
<1>2. m.source = request.source /\ m.session = request.session /\ m.snapshot = snapshot /\ m.metadata = metadata /\ m.at = instant
  BY DEF MapOf
<1>3. MapId(request, snapshot, m.radius).source = m.source
  BY <1>2 DEF MapId
<1>4. MapIsOfItsMoment(m)
  <2>1. snapshot.captured - metadata.captured \in -1..MaxSkew
    BY DEF BuildsFrom, InStep
  <2>2. instant - snapshot.captured \in -10..WorldMaxAge
    <3>1. instant \in Nat /\ WorldMaxAge \in Nat
      BY FramesAssumption DEF FramesInv, ClocksAreTimes
    <3> QED BY <3>1 DEF TooOld
  <2> QED BY <1>2, <2>1, <2>2 DEF MapIsOfItsMoment
<1> DEFINE id == MapId(request, snapshot, m.radius)
<1>5. Listed(maps) /\ \A i \in DOMAIN maps : maps[i].key.source = maps[i].value.source /\ MapIsOfItsMoment(maps[i].value)
  BY DEF FramesInv, MapsAreNamed
<1>6. /\ Listed(maps')
      /\ \A j \in DOMAIN maps' : maps'[j] = [key |-> id, value |-> m] \/ \E i \in DOMAIN maps : maps'[j] = maps[i]
  <2> HIDE DEF id
  <2>1. maps' = Stored(maps, id, m)
    BY <1>1 DEF id
  <2> QED BY <1>5, <2>1, StoredProperties
<1>7. \A j \in DOMAIN maps' : maps'[j].key.source = maps'[j].value.source /\ MapIsOfItsMoment(maps'[j].value)
  BY <1>3, <1>4, <1>5, <1>6
<1>8. MapsAreNamed'
  BY <1>6, <1>7 DEF MapsAreNamed, Listed, MapIsOfItsMoment
<1> QED BY <1>1, <1>8

LEMMA BuildFrameMapKeeps ==
    ASSUME FramesInv, BuildFrameMap
    PROVE  FramesInv'
<1>1. PICK session \in FrameSessions, radius \in Radii, id \in KeysOf(captures) :
        LET request == [session |-> session, source |-> id, radius |-> radius]
            metadata == Of(captures, id)
        IN /\ id.session = session
           /\ IF metadata.snapshot = None
              THEN /\ building' = [request |-> request, metadata |-> metadata, attempt |-> 1]
                   /\ handedOn' = None
                   /\ UNCHANGED maps
              ELSE /\ metadata.snapshot.native = metadata.native
                   /\ ~TooOld(metadata.snapshot)
                   /\ BuildsFrom(request, metadata, metadata.snapshot)
                   /\ UNCHANGED building
  BY DEF BuildFrameMap
<1> DEFINE request == [session |-> session, source |-> id, radius |-> radius]
           metadata == Of(captures, id)
<1>2. /\ metadata.captured = id.captured /\ metadata.native = id.native
      /\ metadata.snapshot # None => metadata.snapshot.captured \in Int
  BY OfIsAnEntry DEF FramesInv, CapturesAreNamed, FrameIsNamed
<1>3. request.session = request.source.session /\ request.source = id
  BY <1>1
<1>4. UNCHANGED <<instant, frame, served, captures, targets>>
  BY DEF BuildFrameMap
<1>5. ClocksAreTimes' /\ CapturesAreNamed' /\ TargetsAreNamed'
  BY <1>4 DEF FramesInv, ClocksAreTimes, CapturesAreNamed, TargetsAreNamed
<1>6. CASE metadata.snapshot = None
  <2>1. /\ building' = [request |-> request, metadata |-> metadata, attempt |-> 1]
        /\ handedOn' = None /\ UNCHANGED maps
    BY <1>1, <1>6
  <2>2. BuildingIsOfAFrame'
    <3> HIDE DEF request, metadata
    <3> QED BY <1>2, <1>3, <1>6, <2>1 DEF BuildingIsOfAFrame
  <2> QED BY <1>5, <2>1, <2>2 DEF FramesInv, MapsAreNamed, WaysAreOfOneFrame
<1>7. CASE metadata.snapshot # None
  <2>1. /\ metadata.snapshot.native = metadata.native /\ ~TooOld(metadata.snapshot)
        /\ BuildsFrom(request, metadata, metadata.snapshot) /\ building' = building
    BY <1>1, <1>7
  <2>2. MapsAreNamed' /\ handedOn'.is = "map"
    <3> HIDE DEF request, metadata
    <3> QED BY <1>2, <1>3, <1>7, <2>1, BuildsFromKeeps
  <2> QED BY <1>5, <2>1, <2>2 DEF FramesInv, BuildingIsOfAFrame, WaysAreOfOneFrame
<1> QED BY <1>6, <1>7

LEMMA MapFromWorldKeeps ==
    ASSUME FramesInv, MapFromWorld
    PROVE  FramesInv'
<1>1. /\ building # None /\ served # None /\ ~TooOld(served.snapshot)
      /\ BuildsFrom(building.request, building.metadata, served.snapshot)
      /\ building' = None /\ UNCHANGED <<instant, frame, served, captures, targets>>
  BY DEF MapFromWorld
<1>2. served.snapshot.captured \in Int
  BY <1>1 DEF FramesInv, ClocksAreTimes
<1>3. /\ building.request.source.captured = building.metadata.captured
      /\ building.request.source.native = building.metadata.native
      /\ building.request.session = building.request.source.session /\ building.metadata.snapshot = None
  BY <1>1 DEF FramesInv, BuildingIsOfAFrame
<1>4. MapsAreNamed' /\ handedOn'.is = "map"
  BY <1>1, <1>2, <1>3, BuildsFromKeeps
<1> QED BY <1>1, <1>4 DEF FramesInv, ClocksAreTimes, CapturesAreNamed, TargetsAreNamed,
                          BuildingIsOfAFrame, WaysAreOfOneFrame

LEMMA GroundTargetKeeps ==
    ASSUME FramesInv, GroundTarget
    PROVE  FramesInv'
<1>1. PICK session \in FrameSessions, source \in KeysOf(captures), id \in KeysOf(maps), role \in Roles :
        /\ source.session = session
        /\ Of(maps, id).source = source
        /\ \E hit \in HitsOf(Of(captures, source)) :
              /\ role # None => hit.role = role
              /\ targets' = Stored(targets, [map |-> id, at |-> hit.at],
                                   [map |-> id, source |-> source, session |-> session, hit |-> hit, role |-> role,
                                    byDepth |-> Of(captures, source).view.depth # None])
        /\ handedOn' = None
        /\ UNCHANGED <<instant, frame, served, captures, maps, building>>
  BY DEF GroundTarget
<1>2. PICK hit \in HitsOf(Of(captures, source)) :
        /\ role # None => hit.role = role
        /\ targets' = Stored(targets, [map |-> id, at |-> hit.at],
                             [map |-> id, source |-> source, session |-> session, hit |-> hit, role |-> role,
                              byDepth |-> Of(captures, source).view.depth # None])
  BY <1>1
<1> DEFINE key == [map |-> id, at |-> hit.at]
           t == [map |-> id, source |-> source, session |-> session, hit |-> hit, role |-> role,
                 byDepth |-> Of(captures, source).view.depth # None]
<1>3. Of(captures, source).view.depth = source.depth
  BY OfIsAnEntry DEF FramesInv, CapturesAreNamed, FrameIsNamed
<1>4. id.source = source
  BY <1>1, OfIsAnEntry DEF FramesInv, MapsAreNamed
<1>5. TargetIsSeen(t)
  <2>1. t.source = t.map.source /\ t.session = t.source.session /\ t.role \in {None, t.hit.role}
    BY <1>1, <1>2, <1>4
  <2>2. source.depth # None => hit \in source.depth
    BY <1>3 DEF HitsOf, SurfacesHit
  <2> QED BY <1>3, <2>1, <2>2 DEF TargetIsSeen
<1>6. Listed(targets) /\ \A i \in DOMAIN targets : TargetIsSeen(targets[i].value)
  BY DEF FramesInv, TargetsAreNamed
<1>7. /\ Listed(targets')
      /\ \A j \in DOMAIN targets' : targets'[j] = [key |-> key, value |-> t] \/ \E i \in DOMAIN targets : targets'[j] = targets[i]
  <2>1. targets' = Stored(targets, key, t)
    BY <1>2
  <2> HIDE DEF key, t
  <2> QED BY <1>6, <2>1, StoredProperties
<1>8. \A j \in DOMAIN targets' : TargetIsSeen(targets'[j].value)
  <2> HIDE DEF key, t
  <2> QED BY <1>5, <1>6, <1>7
<1>9. TargetsAreNamed'
  BY <1>7, <1>8 DEF TargetsAreNamed, Listed, TargetIsSeen
<1> QED BY <1>1, <1>9 DEF FramesInv, ClocksAreTimes, CapturesAreNamed, MapsAreNamed,
                          BuildingIsOfAFrame, WaysAreOfOneFrame

LEMMA OrderWayKeeps ==
    ASSUME FramesInv, OrderWay
    PROVE  FramesInv'
<1>1. PICK session \in FrameSessions, id \in KeysOf(maps), t \in KeysOf(targets) :
        /\ Of(targets, t).map = id
        /\ Of(maps, id).session = session
        /\ handedOn' = [is |-> "way", map |-> Of(maps, id), target |-> Of(targets, t), session |-> session]
        /\ UNCHANGED <<instant, frame, served, captures, maps, targets, building>>
  BY DEF OrderWay
<1>2. TargetIsSeen(Of(targets, t))
  BY OfIsAnEntry DEF FramesInv, TargetsAreNamed
<1>3. Of(maps, id).source = id.source /\ MapIsOfItsMoment(Of(maps, id))
  BY OfIsAnEntry DEF FramesInv, MapsAreNamed
<1>4. WaysAreOfOneFrame'
  BY <1>1, <1>2, <1>3 DEF WaysAreOfOneFrame, TargetIsSeen, MapIsOfItsMoment
<1> QED BY <1>1, <1>4 DEF FramesInv, ClocksAreTimes, CapturesAreNamed, MapsAreNamed, TargetsAreNamed,
                          BuildingIsOfAFrame

LEMMA FramesStep == FramesInv /\ [FramesNext]_framesVars => FramesInv'
<1> SUFFICES ASSUME FramesInv, [FramesNext]_framesVars PROVE FramesInv'
  OBVIOUS
<1>1. CASE TimePasses
  <2>1. /\ instant' \in Nat /\ handedOn' = None
        /\ UNCHANGED <<frame, served, captures, maps, targets, building>>
    BY <1>1, FramesAssumption DEF TimePasses, FramesInv, ClocksAreTimes
  <2> QED BY <2>1 DEF FramesInv, ClocksAreTimes, CapturesAreNamed, MapsAreNamed, TargetsAreNamed,
                      BuildingIsOfAFrame, WaysAreOfOneFrame
<1>2. CASE LookAtWorldAgain
  <2>1. /\ building' = [building EXCEPT !.attempt = @ + 1] /\ handedOn' = None /\ building # None
        /\ UNCHANGED <<instant, frame, served, captures, maps, targets>>
    BY <1>2 DEF LookAtWorldAgain
  <2>2. building'.metadata = building.metadata /\ building'.request = building.request
    BY <2>1
  <2> QED BY <2>1, <2>2 DEF FramesInv, ClocksAreTimes, CapturesAreNamed, MapsAreNamed, TargetsAreNamed,
                      BuildingIsOfAFrame, WaysAreOfOneFrame
<1>3. CASE BuildFails
  BY <1>3 DEF BuildFails, FramesInv, ClocksAreTimes, CapturesAreNamed, MapsAreNamed, TargetsAreNamed,
              BuildingIsOfAFrame, WaysAreOfOneFrame
<1>4. CASE UNCHANGED framesVars
  BY <1>4 DEF framesVars, FramesInv, ClocksAreTimes, CapturesAreNamed, MapsAreNamed, TargetsAreNamed,
              BuildingIsOfAFrame, WaysAreOfOneFrame
<1> QED BY <1>1, <1>2, <1>3, <1>4, EngineTicksKeeps, CaptureKeeps, BuildFrameMapKeeps, MapFromWorldKeeps,
           GroundTargetKeeps, OrderWayKeeps DEF FramesNext

LEMMA FramesInvariant == FramesSpec => []FramesInv
<1> QED BY FramesInvInit, FramesStep, PTL DEF FramesSpec

LEMMA ViewIsNamed ==
    ASSUME FramesInv, NEW id \in KeysOf(captures)
    PROVE  Of(captures, id).view.camera = id.camera /\ Of(captures, id).view.depth = id.depth
BY OfIsAnEntry DEF FramesInv, CapturesAreNamed, FrameIsNamed

\* However the engine reuses its ids and times and whatever the caches let go: a frame that is
\* known by an id keeps the view it was grounded in.
THEOREM FramesKeepViews == FramesSpec => FramesKeepTheirView
<1>1. FramesInv /\ FramesInv' =>
        \A id \in KeysOf(captures) \cap KeysOf(captures') :
          /\ Of(captures', id).view.camera = Of(captures, id).view.camera
          /\ Of(captures', id).view.depth = Of(captures, id).view.depth
  <2> SUFFICES ASSUME FramesInv, FramesInv', NEW id \in KeysOf(captures), id \in KeysOf(captures)'
               PROVE  /\ Of(captures', id).view.camera = Of(captures, id).view.camera
                      /\ Of(captures', id).view.depth = Of(captures, id).view.depth
    BY DEF KeysOf
  <2>1. Of(captures, id).view.camera = id.camera /\ Of(captures, id).view.depth = id.depth
    BY ViewIsNamed
  <2>2. Of(captures', id).view.camera = id.camera /\ Of(captures', id).view.depth = id.depth
    BY OfIsAnEntry DEF FramesInv, CapturesAreNamed, FrameIsNamed, KeysOf
  <2> QED BY <2>1, <2>2
<1>2. FramesInv /\ FramesInv' /\ [FramesNext]_framesVars =>
        [\A id \in KeysOf(captures) \cap KeysOf(captures') :
          /\ Of(captures', id).view.camera = Of(captures, id).view.camera
          /\ Of(captures', id).view.depth = Of(captures, id).view.depth]_framesVars
  BY <1>1
<1> QED BY <1>2, FramesInvariant, PTL DEF FramesSpec, FramesKeepTheirView

\* For any frames, rooms, clocks and callers: a map is of the moment of its frame although engine
\* and bridge go on while the call waits, and a way leads to what was seen in the frame of its map.
THEOREM MapsAndWaysAreOfOneFrame == FramesSpec => [](MapsAreOfTheirMoment /\ WaysAreOfOneFrame)
<1>1. FramesInv => MapsAreOfTheirMoment /\ WaysAreOfOneFrame
  BY DEF FramesInv, MapsAreNamed, MapIsOfItsMoment, MapsAreOfTheirMoment
<1> QED BY <1>1, FramesInvariant, PTL

\* What is known of the world: nothing weaker replaces what is believed, a frame keeps its view,
\* a map is of the moment of its frame, and a way leads to what was seen in the frame of its map.
BeliefsAreUnbeaten ==
    /\ [](ReconcilerTypeOK /\ ProjectionIsUnbeaten)
    /\ CurrentIsNotRolledBack
    /\ FramesKeepTheirView
    /\ [](MapsAreOfTheirMoment /\ WaysAreOfOneFrame)

\* state_reconciliation_v1 and godot_portable_navigation_adapter_v1.
THEOREM BeliefsAlwaysUnbeaten == ReconcilerSpec /\ FramesSpec => BeliefsAreUnbeaten
  BY ProjectionsAreUnbeaten, FramesKeepViews, MapsAndWaysAreOfOneFrame, PTL DEF BeliefsAreUnbeaten

-----------------------------------------------------------------------------
(* Sequences and numbers of what she does by herself                       *)

LEMMA EntryAdded ==
    ASSUME NEW s, NEW e, Listed(s)
    PROVE  /\ Listed(Append(s, e)) /\ Len(Append(s, e)) = Len(s) + 1 /\ Len(s) \in Nat
           /\ DOMAIN s = 1..Len(s) /\ DOMAIN Append(s, e) = 1..(Len(s) + 1)
           /\ \A i \in DOMAIN s : Append(s, e)[i] = s[i]
           /\ Append(s, e)[Len(s) + 1] = e
<1> DEFINE S == {s[i] : i \in DOMAIN s} \cup {e}
<1>1. s \in Seq(S)
  <2>1. {s[i] : i \in DOMAIN s} \subseteq S
    OBVIOUS
  <2> HIDE DEF S
  <2> QED BY <2>1, SeqMonotonic DEF Listed
<1>2. e \in S
  OBVIOUS
<1> HIDE DEF S
<1> DEFINE more == Append(s, e)
<1>3. /\ more \in Seq(S) /\ Len(more) = Len(s) + 1 /\ Len(s) \in Nat /\ DOMAIN s = 1..Len(s)
      /\ \A i \in 1..Len(s) : more[i] = s[i]
      /\ more[Len(s) + 1] = e
  BY <1>1, <1>2, AppendProperties
<1> HIDE DEF more
<1>4. DOMAIN more = 1..(Len(s) + 1)
  BY <1>3
<1>5. Listed(more)
  <2>1. Len(more) \in Nat /\ more \in [1..Len(more) -> {more[i] : i \in DOMAIN more}]
    <3>1. DOMAIN more = 1..Len(more) /\ Len(more) \in Nat
      BY <1>3
    <3>2. more = [i \in 1..Len(more) |-> more[i]]
      BY <1>3
    <3> QED BY <3>1, <3>2
  <2> QED BY <2>1, SeqDef DEF Listed
<1> QED BY <1>3, <1>4, <1>5 DEF more

LEMMA EntriesTaken ==
    ASSUME NEW s, NEW r \in Seq({s[i] : i \in DOMAIN s})
    PROVE  Listed(r) /\ \A j \in DOMAIN r : \E i \in DOMAIN s : r[j] = s[i]
<1> DEFINE S == {s[i] : i \in DOMAIN s}
           R == {r[j] : j \in DOMAIN r}
<1>1. /\ Len(r) \in Nat /\ DOMAIN r = 1..Len(r) /\ r = [j \in 1..Len(r) |-> r[j]]
      /\ \A j \in DOMAIN r : r[j] \in S
  OBVIOUS
<1>2. r \in [1..Len(r) -> R]
  BY <1>1
<1>3. Listed(r)
  BY <1>1, <1>2, SeqDef DEF Listed
<1> QED BY <1>1, <1>3

LEMMA LeastNumber ==
    ASSUME NEW T \in SUBSET Nat, T # {}
    PROVE  \E n \in T : \A k \in T : n =< k
<1>1. PICK n \in T : \A k \in T : <<k, n>> \notin OpToRel(<, Nat)
  BY NatLessThanWellFounded, WFMin
<1>2. \A k \in T : ~(k < n)
  BY <1>1 DEF OpToRel
<1> QED BY <1>2

-----------------------------------------------------------------------------
(* LifeTick                                                                *)

\* The words of a decision are not those of another that is remembered.
Repeats(uttered) == uttered \in {r.text : r \in ToSet(recentActions)}

\* She had seen it then, in the latest picture of that time.
SeenThen(target, at) ==
    \E s \in sights :
        /\ target \in ToSet(s.rows) /\ at - s.at \in 0..SightAge
        /\ ~\E v \in sights : v.nth > s.nth /\ v.at < at /\ v.rows # <<>> /\ None \notin ToSet(v.rows)

\* What was said has its time, and the last of it is _last_speech_at.
SpeechIsTimed ==
    /\ lifeTime \in Nat /\ lastSpoken \in Nat \cup {None}
    /\ lastSpoken # None => lastSpoken =< lifeTime
    /\ Listed(chronicle)
    /\ \A i \in DOMAIN chronicle :
          chronicle[i].text # None => /\ chronicle[i].at \in Nat /\ lastSpoken # None
                                      /\ chronicle[i].at =< lastSpoken

\* The last decisions are remembered with what was said in them.
DecisionsAreKept ==
    /\ Listed(recentActions)
    /\ Len(recentActions) = IF Len(chronicle) < KeptActions THEN Len(chronicle) ELSE KeptActions
    /\ \A d \in Nat : d < Len(recentActions) =>
          chronicle[Len(chronicle) - d].text \in {None, recentActions[Len(recentActions) - d].text}

\* Pictures are numbered in the order of their time.
SightsAreInOrder ==
    /\ IsFiniteSet(sights)
    /\ \A s \in sights : s.at \in Nat /\ s.at =< lifeTime /\ s.nth \in Nat /\ s.nth < Cardinality(sights)
    /\ \A s, v \in sights : v.nth > s.nth => v.at >= s.at

\* What is thought of was seen, and what is planned may be done.
ThoughtIsGrounded ==
    thinking # None => /\ thinking.at \in Nat /\ thinking.at =< lifeTime
                       /\ \A target \in thinking.targets : SeenThen(target, thinking.at)
PlanMayBeDone ==
    planned # None =>
       /\ thinking = None /\ planned.at \in Nat /\ planned.at =< lifeTime
       /\ planned.errors = {} /\ planned.action = "speak" =>
             planned.text # None /\ Rested /\ ~Repeats(planned.text)
       /\ planned.errors = {} /\ planned.action \in {"move", "look"} => SeenThen(planned.target, planned.at)
WentWhereSeen ==
    \A g \in went : g.at \in Nat /\ g.at =< lifeTime /\ SeenThen(g.target, g.at)

LifeInv ==
    /\ SpeechIsTimed /\ DecisionsAreKept /\ SightsAreInOrder
    /\ ThoughtIsGrounded /\ PlanMayBeDone /\ WentWhereSeen
    /\ SpeechIsSpaced /\ NoEcho

LEMMA LifeInvInit == LifeInit => LifeInv
<1> SUFFICES ASSUME LifeInit PROVE LifeInv
  OBVIOUS
<1> USE LifeAssumption
<1>1. /\ sights = {} /\ lifeTime = 0 /\ thinking = None /\ planned = None
      /\ recentActions = <<>> /\ lastSpoken = None /\ waitingWav = None /\ chronicle = <<>> /\ went = {}
  BY DEF LifeInit
<1>2. Listed(<<>>) /\ DOMAIN <<>> = {} /\ Len(<<>>) = 0
  BY DEF Listed
<1>3. IsFiniteSet({}) /\ Cardinality({}) = 0
  BY FS_EmptySet
<1> QED BY <1>1, <1>2, <1>3 DEF LifeInv, SpeechIsTimed, DecisionsAreKept, SightsAreInOrder, ThoughtIsGrounded,
           PlanMayBeDone, WentWhereSeen, SpeechIsSpaced, NoEcho

\* A step that leaves alone what was seen, said and remembered.
LEMMA LifeGoesOn ==
    ASSUME LifeInv, lifeTime' = lifeTime, sights' = sights, chronicle' = chronicle, lastSpoken' = lastSpoken,
           recentActions' = recentActions, went' = went,
           ThoughtIsGrounded', PlanMayBeDone', waitingWav' = waitingWav \/ waitingWav' = None
    PROVE  LifeInv'
<1>1. SpeechIsTimed' /\ DecisionsAreKept' /\ SightsAreInOrder'
  BY DEF LifeInv, SpeechIsTimed, DecisionsAreKept, SightsAreInOrder, Listed
<1>2. WentWhereSeen'
  BY DEF LifeInv, WentWhereSeen, SeenThen
<1>3. SpeechIsSpaced' /\ NoEcho'
  BY DEF LifeInv, SpeechIsSpaced, NoEcho
<1> QED BY <1>1, <1>2, <1>3 DEF LifeInv

\* The latest picture of the last minutes.
LEMMA LatelyIsThen ==
    ASSUME SightsAreInOrder, SpeechIsTimed, NEW target \in SeenLately(lifeTime)
    PROVE  SeenThen(target, lifeTime)
<1> USE LifeAssumption
<1>1. PICK s \in sights : /\ target \in ToSet(s.rows) /\ Usable(s, lifeTime)
                          /\ \A v \in sights : Usable(v, lifeTime) => v.nth =< s.nth
  BY DEF SeenLately
<1>2. lifeTime - s.at \in 0..SightAge /\ s.nth \in Nat /\ s.at \in Nat /\ lifeTime \in Nat
  BY <1>1 DEF Usable, SightsAreInOrder, SpeechIsTimed
<1>3. ASSUME NEW v \in sights, v.nth > s.nth, v.at < lifeTime, v.rows # <<>>, None \notin ToSet(v.rows)
      PROVE  FALSE
  <2>1. v.at >= s.at /\ v.at \in Nat /\ v.nth \in Nat
    BY <1>3 DEF SightsAreInOrder
  <2>2. lifeTime - v.at \in 0..SightAge
    BY <1>2, <1>3, <2>1
  <2>3. Usable(v, lifeTime)
    BY <1>3, <2>2 DEF Usable
  <2> QED BY <1>1, <1>2, <1>3, <2>1, <2>3
<1> QED BY <1>1, <1>2, <1>3 DEF SeenThen

LEMMA ContextTakenKeeps == ASSUME LifeInv, ContextTaken PROVE LifeInv'
<1>1. PICK heard \in BOOLEAN : thinking' = [targets |-> SeenLately(lifeTime), at |-> lifeTime, heard |-> heard]
  BY DEF ContextTaken
<1>2. /\ planned = None /\ planned' = None /\ lifeTime' = lifeTime /\ sights' = sights /\ chronicle' = chronicle
      /\ lastSpoken' = lastSpoken /\ recentActions' = recentActions /\ went' = went /\ waitingWav' = waitingWav
  BY DEF ContextTaken
<1>3. \A target \in SeenLately(lifeTime) : SeenThen(target, lifeTime)
  BY LatelyIsThen DEF LifeInv
<1>4. lifeTime \in Nat
  BY DEF LifeInv, SpeechIsTimed
<1>5. thinking'.targets = SeenLately(lifeTime) /\ thinking'.at = lifeTime
  BY <1>1
<1> DEFINE seen == SeenLately(lifeTime)
<1> HIDE DEF seen
<1>6. \A target \in thinking'.targets : SeenThen(target, lifeTime)
  BY <1>3, <1>5 DEF seen
<1>7. ThoughtIsGrounded'
  BY <1>2, <1>4, <1>5, <1>6 DEF ThoughtIsGrounded, SeenThen
<1>8. PlanMayBeDone'
  BY <1>2 DEF PlanMayBeDone
<1> QED BY <1>2, <1>7, <1>8, LifeGoesOn

\* What a plan without errors is.
LEMMA NoErrors ==
    ASSUME NEW p, NEW context, Errors(p, context) = {}
    PROVE  /\ p.action = "speak" => p.text # None /\ Rested /\ ~Repeats(p.text)
           /\ p.action \in {"move", "look"} => p.target \in context.targets
<1> DEFINE Kinds == {"action", "cooldown", "text", "duplicate", "native", "target", "target_not_applicable"}
<1>1. ~(p.action = "speak" /\ ~Rested)
  <2>1. "cooldown" \notin Errors(p, context)
    OBVIOUS
  <2> QED BY <2>1 DEF Errors
<1>2. ~(p.action = "speak" /\ p.text = None)
  <2>1. "text" \notin Errors(p, context)
    OBVIOUS
  <2> QED BY <2>1 DEF Errors
<1>3. ~(p.action = "speak" /\ Repeats(p.text))
  <2>1. "duplicate" \notin Errors(p, context)
    OBVIOUS
  <2> QED BY <2>1 DEF Errors, Repeats
<1>4. ~(p.action \in {"move", "look"} /\ p.target \notin context.targets)
  <2>1. "target" \notin Errors(p, context)
    OBVIOUS
  <2> QED BY <2>1 DEF Errors
<1> QED BY <1>1, <1>2, <1>3, <1>4

LEMMA PlanArrivesKeeps == ASSUME LifeInv, NEW p, NEW utterance, PlanArrives(p, utterance) PROVE LifeInv'
<1> DEFINE q == IF SpeechDue(thinking) THEN Spoken(p, utterance) ELSE p
           errors == Errors(q, thinking)
<1>1. /\ thinking # None /\ thinking' = None
      /\ planned' = [action |-> q.action, text |-> q.text, target |-> q.target, errors |-> errors, at |-> thinking.at]
      /\ lifeTime' = lifeTime /\ sights' = sights /\ chronicle' = chronicle
      /\ lastSpoken' = lastSpoken /\ recentActions' = recentActions /\ went' = went /\ waitingWav' = waitingWav
  BY DEF PlanArrives
<1> HIDE DEF q
<1>2. errors = {} => /\ q.action = "speak" => q.text # None /\ Rested /\ ~Repeats(q.text)
                     /\ q.action \in {"move", "look"} => q.target \in thinking.targets
  BY NoErrors
<1> HIDE DEF errors
<1>3. /\ planned'.action = q.action /\ planned'.text = q.text /\ planned'.target = q.target
      /\ planned'.errors = errors /\ planned'.at = thinking.at
  BY <1>1
<1>4. ThoughtIsGrounded
  BY DEF LifeInv
<1>5. thinking.at \in Nat /\ thinking.at =< lifeTime /\ \A target \in thinking.targets : SeenThen(target, thinking.at)
  BY <1>1, <1>4 DEF ThoughtIsGrounded
<1>6. errors = {} /\ q.action = "speak" =>
         q.text # None /\ (Rested)' /\ q.text \notin {r.text : r \in ToSet(recentActions')}
  BY <1>1, <1>2 DEF Rested, Repeats
<1>7. errors = {} /\ q.action \in {"move", "look"} => SeenThen(q.target, thinking.at)
  BY <1>2, <1>5
<1>8. PlanMayBeDone'
  <2>1. planned'.errors = {} /\ planned'.action = "speak" =>
           planned'.text # None /\ (Rested)' /\ planned'.text \notin {r.text : r \in ToSet(recentActions')}
    BY <1>3, <1>6
  <2>2. planned'.errors = {} /\ planned'.action \in {"move", "look"} => SeenThen(planned'.target, planned'.at)
    BY <1>3, <1>7
  <2>3. planned'.at \in Nat /\ planned'.at =< lifeTime'
    BY <1>1, <1>3, <1>5
  <2>4. planned'.errors = {} /\ planned'.action \in {"move", "look"} => SeenThen(planned.target, planned.at)'
    BY <1>1, <2>2 DEF SeenThen
  <2> QED BY <1>1, <2>1, <2>3, <2>4 DEF PlanMayBeDone, Repeats
<1>9. ThoughtIsGrounded'
  BY <1>1 DEF ThoughtIsGrounded
<1> QED BY <1>1, <1>8, <1>9, LifeGoesOn

LEMMA TickDroppedKeeps == ASSUME LifeInv, TickDropped PROVE LifeInv'
<1>1. /\ thinking' = None /\ planned' = None /\ lifeTime' = lifeTime /\ sights' = sights /\ chronicle' = chronicle
      /\ lastSpoken' = lastSpoken /\ recentActions' = recentActions /\ went' = went /\ waitingWav' = waitingWav
  BY DEF TickDropped
<1> QED BY <1>1, LifeGoesOn DEF ThoughtIsGrounded, PlanMayBeDone

LEMMA LifeStays == ASSUME LifeInv, UNCHANGED lifeVars PROVE LifeInv'
<1>1. /\ thinking' = thinking /\ planned' = planned /\ lifeTime' = lifeTime /\ sights' = sights /\ chronicle' = chronicle
      /\ lastSpoken' = lastSpoken /\ recentActions' = recentActions /\ went' = went /\ waitingWav' = waitingWav
  BY DEF lifeVars
<1>2. ThoughtIsGrounded' /\ PlanMayBeDone'
  BY <1>1 DEF LifeInv, ThoughtIsGrounded, PlanMayBeDone, SeenThen, Rested, Repeats
<1> QED BY <1>1, <1>2, LifeGoesOn

LEMMA FetchWavKeeps == ASSUME LifeInv, FetchWav PROVE LifeInv'
<1>1. /\ thinking' = thinking /\ planned' = planned /\ lifeTime' = lifeTime /\ sights' = sights /\ chronicle' = chronicle
      /\ lastSpoken' = lastSpoken /\ recentActions' = recentActions /\ went' = went /\ waitingWav' = None
  BY DEF FetchWav
<1>2. ThoughtIsGrounded' /\ PlanMayBeDone'
  BY <1>1 DEF LifeInv, ThoughtIsGrounded, PlanMayBeDone, SeenThen, Rested, Repeats
<1> QED BY <1>1, <1>2, LifeGoesOn

\* A decision is remembered, and what was said in it, if anything, was due and is new.
LEMMA DecisionIsKept ==
    ASSUME LifeInv, Remember, NEW uttered, Noted(uttered), lifeTime' = lifeTime,
           lastSpoken' = (IF uttered = None THEN lastSpoken ELSE lifeTime),
           uttered # None => uttered = planned.text /\ planned.action = "speak" /\ Rested /\ ~Repeats(uttered),
           waitingWav' = waitingWav \/ (waitingWav' = uttered /\ uttered # None)
    PROVE  SpeechIsTimed' /\ DecisionsAreKept' /\ SpeechIsSpaced' /\ NoEcho'
<1> USE LifeAssumption
<1> DEFINE n == Len(chronicle)
           k == Len(recentActions)
           entry == [text |-> uttered, at |-> IF uttered = None THEN None ELSE lifeTime]
           words == IF planned.action = "speak" THEN planned.text ELSE None
           note == [action |-> planned.action, text |-> words]
           longer == Append(recentActions, note)
<1>1. /\ SpeechIsTimed /\ DecisionsAreKept /\ SpeechIsSpaced /\ NoEcho
      /\ Listed(chronicle) /\ Listed(recentActions)
  BY DEF LifeInv, SpeechIsTimed, DecisionsAreKept
<1>2. /\ chronicle' = Append(chronicle, entry) /\ entry.text = uttered
      /\ uttered # None => entry.at = lifeTime
  BY DEF Noted
<1>3. recentActions' = (IF Len(longer) > KeptActions THEN Tail(longer) ELSE longer)
  BY DEF Remember
<1>4. note.text = words /\ (uttered # None => words = uttered)
  OBVIOUS
<1> HIDE DEF entry, note, words
<1>5. /\ Listed(chronicle') /\ Len(chronicle') = n + 1 /\ n \in Nat /\ DOMAIN chronicle = 1..n
      /\ DOMAIN chronicle' = 1..(n + 1)
      /\ \A i \in DOMAIN chronicle : chronicle'[i] = chronicle[i]
      /\ chronicle'[n + 1] = entry
  BY <1>1, <1>2, EntryAdded
<1>6. /\ Listed(longer) /\ Len(longer) = k + 1 /\ k \in Nat /\ DOMAIN recentActions = 1..k
      /\ DOMAIN longer = 1..(k + 1)
      /\ \A i \in 1..k : longer[i] = recentActions[i]
      /\ longer[k + 1] = note
  BY <1>1, EntryAdded
<1> HIDE DEF longer
<1>7. k = (IF n < KeptActions THEN n ELSE KeptActions)
  BY <1>1 DEF DecisionsAreKept
<1>8. \A d \in Nat : d < k => chronicle[n - d].text \in {None, recentActions[k - d].text}
  BY <1>1 DEF DecisionsAreKept
<1> HIDE DEF n, k
<1>9. SpeechIsTimed'
  <2>1. \A i \in DOMAIN chronicle' : chronicle'[i].text # None =>
           chronicle'[i].at \in Nat /\ lastSpoken' # None /\ chronicle'[i].at =< lastSpoken'
    <3> SUFFICES ASSUME NEW i \in 1..(n + 1), chronicle'[i].text # None
                 PROVE  chronicle'[i].at \in Nat /\ lastSpoken' # None /\ chronicle'[i].at =< lastSpoken'
      BY <1>5
    <3>1. CASE i = n + 1
      BY <1>1, <1>2, <1>5, <3>1 DEF SpeechIsTimed
    <3>2. CASE i \in 1..n
      <4>1. chronicle[i].at \in Nat /\ lastSpoken \in Nat /\ lastSpoken # None /\ chronicle[i].at =< lastSpoken
            /\ lastSpoken =< lifeTime /\ lifeTime \in Nat /\ chronicle'[i] = chronicle[i]
        BY <1>1, <1>5, <3>2 DEF SpeechIsTimed
      <4> QED BY <4>1
    <3> QED BY <1>5, <3>1, <3>2
  <2>2. lifeTime' \in Nat /\ lastSpoken' \in Nat \cup {None} /\ (lastSpoken' # None => lastSpoken' =< lifeTime')
    BY <1>1 DEF SpeechIsTimed
  <2>3. Listed(chronicle)'
    BY <1>5 DEF Listed
  <2> QED BY <2>1, <2>2, <2>3 DEF SpeechIsTimed
<1>10. /\ Listed(recentActions') /\ Len(recentActions') \in Nat
       /\ Len(recentActions') = IF n + 1 < KeptActions THEN n + 1 ELSE KeptActions
       /\ Len(recentActions') =< k + 1
       /\ \A d \in Nat : d < Len(recentActions') => recentActions'[Len(recentActions') - d] = longer[k + 1 - d]
  <2>1. CASE k + 1 > KeptActions
    <3>1. recentActions' = Tail(longer) /\ longer # <<>>
      BY <1>3, <1>6, <2>1
    <3> DEFINE r == Tail(longer)
               L == {longer[i] : i \in DOMAIN longer}
    <3>2. longer \in Seq(L)
      BY <1>6 DEF Listed
    <3> HIDE DEF L
    <3>3. /\ r \in Seq(L) /\ Len(r) = Len(longer) - 1
          /\ \A i \in 1..Len(r) : r[i] = longer[i + 1]
      BY <3>1, <3>2, HeadTailProperties
    <3>4. r \in Seq({longer[i] : i \in DOMAIN longer})
      BY <3>3 DEF L
    <3> HIDE DEF r
    <3>5. Listed(r)
      BY <3>4, EntriesTaken
    <3>6. Len(r) = k /\ k = KeptActions /\ \A i \in 1..k : r[i] = longer[i + 1]
      BY <1>5, <1>6, <1>7, <2>1, <3>3
    <3>7. \A d \in Nat : d < k => k - d \in 1..k /\ (k - d) + 1 = k + 1 - d
      BY <1>6
    <3>8. \A d \in Nat : d < k => r[k - d] = longer[k + 1 - d]
      BY <3>6, <3>7
    <3>9. recentActions' = r
      BY <3>1 DEF r
    <3> QED BY <1>5, <1>6, <1>7, <3>5, <3>6, <3>8, <3>9
  <2>2. CASE ~(k + 1 > KeptActions)
    <3>1. recentActions' = longer
      BY <1>3, <1>6, <2>2
    <3> QED BY <1>5, <1>6, <1>7, <2>2, <3>1
  <2> QED BY <2>1, <2>2
<1>11. DecisionsAreKept'
  <2>1. ASSUME NEW d \in Nat, d < Len(recentActions')
        PROVE  chronicle'[(n + 1) - d].text \in {None, recentActions'[Len(recentActions') - d].text}
    <3>1. recentActions'[Len(recentActions') - d] = longer[k + 1 - d]
      BY <1>10, <2>1
    <3>2. CASE d = 0
      BY <1>2, <1>4, <1>5, <1>6, <3>1, <3>2
    <3>3. CASE d # 0
      <4>1. d - 1 \in Nat /\ d - 1 < k /\ n - (d - 1) = (n + 1) - d /\ k - (d - 1) = k + 1 - d
        BY <1>5, <1>6, <1>10, <2>1, <3>3
      <4>2. chronicle[(n + 1) - d].text \in {None, recentActions[k + 1 - d].text}
        BY <1>8, <4>1
      <4>3. (n + 1) - d \in 1..n /\ k + 1 - d \in 1..k
        BY <1>5, <1>6, <1>7, <1>10, <2>1, <3>3, <4>1
      <4> QED BY <1>5, <1>6, <3>1, <4>2, <4>3
    <3> QED BY <3>2, <3>3
  <2>2. Listed(recentActions)'
    BY <1>10 DEF Listed
  <2> QED BY <1>5, <1>10, <2>1, <2>2 DEF DecisionsAreKept
<1>12. SpeechIsSpaced'
  <2> SUFFICES ASSUME NEW i \in 1..(n + 1), NEW j \in 1..(n + 1), i < j,
                      chronicle'[i].text # None, chronicle'[j].text # None
               PROVE  chronicle'[j].at - chronicle'[i].at >= Cooldown
    BY <1>5 DEF SpeechIsSpaced
  <2>1. i \in 1..n /\ chronicle'[i] = chronicle[i]
    BY <1>5
  <2>2. CASE j \in 1..n
    BY <1>1, <1>5, <2>1, <2>2 DEF SpeechIsSpaced
  <2>3. CASE j = n + 1
    <3>1. chronicle'[j].at = lifeTime /\ uttered # None
      BY <1>2, <1>5, <2>3
    <3>2. chronicle[i].at \in Nat /\ lastSpoken \in Nat /\ lastSpoken # None /\ chronicle[i].at =< lastSpoken /\ lifeTime \in Nat
      BY <1>1, <1>5, <2>1 DEF SpeechIsTimed
    <3>3. lifeTime - lastSpoken >= Cooldown
      BY <3>1, <3>2 DEF Rested
    <3> QED BY <2>1, <3>1, <3>2, <3>3
  <2> QED BY <1>5, <2>2, <2>3
<1>13. NoEcho'
  <2>1. ASSUME NEW i \in 1..(n + 1), NEW j \in 1..(n + 1), i < j,
               chronicle'[i].text # None, chronicle'[i].text = chronicle'[j].text
        PROVE  j - i > KeptActions
    <3>1. i \in 1..n /\ chronicle'[i] = chronicle[i]
      BY <1>5, <2>1
    <3>2. CASE j \in 1..n
      BY <1>1, <1>5, <2>1, <3>1, <3>2 DEF NoEcho
    <3>3. CASE j = n + 1
      <4>1. chronicle[i].text = uttered /\ uttered # None
        BY <1>2, <1>5, <2>1, <3>1, <3>3
      <4> DEFINE d == n - i
      <4>2. d \in Nat /\ n - d = i
        BY <1>5, <3>1
      <4> HIDE DEF d
      <4>3. ~(d < k)
        <5> SUFFICES ASSUME d < k PROVE FALSE
          OBVIOUS
        <5>1. recentActions[k - d].text = uttered
          BY <1>8, <4>1, <4>2
        <5>2. k - d \in DOMAIN recentActions
          BY <1>6, <4>2
        <5>3. Repeats(uttered)
          BY <5>1, <5>2 DEF Repeats, ToSet
        <5> QED BY <4>1, <5>3
      <4> QED BY <1>5, <1>6, <1>7, <3>1, <3>3, <4>2, <4>3
    <3> QED BY <1>5, <3>2, <3>3
  <2>2. waitingWav' # None => \E i \in DOMAIN chronicle' : chronicle'[i].text = waitingWav'
    <3>1. CASE waitingWav' = waitingWav
      <4>1. waitingWav # None => \E i \in DOMAIN chronicle : chronicle[i].text = waitingWav
        BY <1>1 DEF NoEcho
      <4>2. DOMAIN chronicle \subseteq DOMAIN chronicle'
        BY <1>5
      <4> QED BY <1>5, <3>1, <4>1, <4>2
    <3>2. CASE waitingWav' = uttered /\ uttered # None
      BY <1>2, <1>5, <3>2
    <3> QED BY <3>1, <3>2
  <2>3. DOMAIN chronicle' = 1..(n + 1)
    BY <1>5
  <2> QED BY <2>1, <2>2, <2>3 DEF NoEcho
<1> QED BY <1>9, <1>11, <1>12, <1>13

\* What is decided takes the plan away.
LEMMA DecisionKeeps ==
    ASSUME LifeInv, NotDone \/ ActsInPlace \/ SetsOut \/ \E byBridge \in BOOLEAN : SaysIt(byBridge)
    PROVE  LifeInv'
<1>1. /\ planned # None /\ planned' = None /\ thinking' = thinking /\ sights' = sights /\ lifeTime' = lifeTime
      /\ Remember
  BY DEF NotDone, ActsInPlace, SetsOut, SaysIt, Executes
<1>2. /\ PlanMayBeDone /\ thinking = None
  BY <1>1 DEF LifeInv, PlanMayBeDone
<1>3. \E uttered : /\ Noted(uttered) /\ lastSpoken' = (IF uttered = None THEN lastSpoken ELSE lifeTime)
                   /\ uttered # None => uttered = planned.text /\ planned.action = "speak" /\ Rested /\ ~Repeats(uttered)
                   /\ waitingWav' = waitingWav \/ (waitingWav' = uttered /\ uttered # None)
  <2>1. CASE NotDone \/ ActsInPlace \/ SetsOut
    <3>1. Noted(None) /\ lastSpoken' = lastSpoken /\ waitingWav' = waitingWav
      BY <2>1 DEF NotDone, ActsInPlace, SetsOut, Executes
    <3> QED BY <3>1
  <2>2. CASE \E byBridge \in BOOLEAN : SaysIt(byBridge)
    <3>1. /\ Noted(planned.text) /\ lastSpoken' = lifeTime /\ planned.errors = {} /\ planned.action = "speak"
          /\ waitingWav' = waitingWav \/ waitingWav' = planned.text
      BY <2>2 DEF SaysIt, Executes
    <3>2. planned.text # None /\ Rested /\ ~Repeats(planned.text)
      BY <1>1, <1>2, <3>1 DEF PlanMayBeDone
    <3> QED BY <3>1, <3>2
  <2> QED BY <2>1, <2>2
<1>4. SpeechIsTimed' /\ DecisionsAreKept' /\ SpeechIsSpaced' /\ NoEcho'
  BY <1>1, <1>3, DecisionIsKept
<1>5. SightsAreInOrder'
  BY <1>1 DEF LifeInv, SightsAreInOrder
<1>6. ThoughtIsGrounded' /\ PlanMayBeDone'
  BY <1>1, <1>2 DEF ThoughtIsGrounded, PlanMayBeDone
<1>7. WentWhereSeen'
  <2>1. CASE went' = went
    BY <1>1, <2>1 DEF LifeInv, WentWhereSeen, SeenThen
  <2>2. CASE SetsOut
    <3> DEFINE goal == [target |-> planned.target, at |-> planned.at]
    <3>1. went' = went \cup {goal} /\ planned.errors = {} /\ planned.action \in {"move", "look"}
      BY <2>2 DEF SetsOut, Executes
    <3>2. goal.at \in Nat /\ goal.at =< lifeTime /\ SeenThen(goal.target, goal.at)
      BY <1>1, <1>2, <3>1 DEF PlanMayBeDone
    <3> HIDE DEF goal
    <3>3. \A g \in went' : g.at \in Nat /\ g.at =< lifeTime /\ SeenThen(g.target, g.at)
      BY <3>1, <3>2 DEF LifeInv, WentWhereSeen
    <3> QED BY <1>1, <3>3 DEF WentWhereSeen, SeenThen
  <2> QED BY <2>1, <2>2 DEF NotDone, ActsInPlace, SaysIt
<1> QED BY <1>4, <1>5, <1>6, <1>7 DEF LifeInv

\* A picture more is later than all that were, and changes nothing that was seen before.
LEMMA SeenStaysSeen ==
    ASSUME LifeInv, NEW s, sights' = sights \cup {s}, s.at = lifeTime
    PROVE  \A target : \A at \in Nat : at =< lifeTime /\ SeenThen(target, at) =>
              \E u \in sights' : /\ target \in ToSet(u.rows) /\ at - u.at \in 0..SightAge
                                 /\ ~\E v \in sights' : v.nth > u.nth /\ v.at < at /\ v.rows # <<>> /\ None \notin ToSet(v.rows)
<1> SUFFICES ASSUME NEW target, NEW at \in Nat, at =< lifeTime, SeenThen(target, at)
             PROVE  \E u \in sights' : /\ target \in ToSet(u.rows) /\ at - u.at \in 0..SightAge
                                 /\ ~\E v \in sights' : v.nth > u.nth /\ v.at < at /\ v.rows # <<>> /\ None \notin ToSet(v.rows)
  OBVIOUS
<1>1. PICK u \in sights : /\ target \in ToSet(u.rows) /\ at - u.at \in 0..SightAge
                          /\ ~\E v \in sights : v.nth > u.nth /\ v.at < at /\ v.rows # <<>> /\ None \notin ToSet(v.rows)
  BY DEF SeenThen
<1>2. lifeTime \in Nat /\ ~(s.at < at)
  BY DEF LifeInv, SpeechIsTimed
<1> QED BY <1>1, <1>2

LEMMA JobEndsKeeps == ASSUME LifeInv, JobEnds PROVE LifeInv'
<1> DEFINE number == Cardinality(sights)
<1>1. PICK rows \in SightRows : sights' = sights \cup {[at |-> lifeTime, rows |-> rows, nth |-> number]}
  BY DEF JobEnds
<1>2. /\ thinking' = thinking /\ planned' = planned /\ lifeTime' = lifeTime /\ chronicle' = chronicle
      /\ lastSpoken' = lastSpoken /\ recentActions' = recentActions /\ went' = went /\ waitingWav' = waitingWav
  BY DEF JobEnds
<1> DEFINE s == [at |-> lifeTime, rows |-> rows, nth |-> number]
<1>3. sights' = sights \cup {s} /\ s.at = lifeTime /\ s.nth = number
  BY <1>1
<1> HIDE DEF s
<1>4. SightsAreInOrder /\ lifeTime \in Nat
  BY DEF LifeInv, SpeechIsTimed
<1>5. IsFiniteSet(sights) /\ number \in Nat /\ s \notin sights
  <2>1. IsFiniteSet(sights)
    BY <1>4 DEF SightsAreInOrder
  <2>2. number \in Nat
    BY <2>1, FS_CardinalityType
  <2>3. ~(s.nth < number)
    BY <1>3, <2>2
  <2> QED BY <1>4, <2>1, <2>2, <2>3 DEF SightsAreInOrder
<1>6. IsFiniteSet(sights') /\ Cardinality(sights') = number + 1
  BY <1>3, <1>5, FS_AddElement
<1>7. \A u \in sights : u.at \in Nat /\ u.at =< lifeTime /\ u.nth \in Nat /\ u.nth < number
  BY <1>4 DEF SightsAreInOrder
<1> HIDE DEF number
<1>8. SightsAreInOrder'
  <2>1. \A u \in sights' : u.at \in Nat /\ u.at =< lifeTime' /\ u.nth \in Nat /\ u.nth < Cardinality(sights')
    <3> TAKE u \in sights'
    <3>1. CASE u = s
      BY <1>2, <1>3, <1>4, <1>5, <1>6, <3>1
    <3>2. CASE u \in sights
      BY <1>2, <1>5, <1>6, <1>7, <3>2
    <3> QED BY <1>3, <3>1, <3>2
  <2>2. ASSUME NEW u \in sights', NEW v \in sights', v.nth > u.nth PROVE v.at >= u.at
    <3>1. CASE v = s
      BY <1>3, <1>4, <2>1, <3>1, <1>2
    <3>2. CASE v \in sights /\ u = s
      BY <1>3, <1>5, <1>7, <2>2, <3>2
    <3>3. CASE v \in sights /\ u \in sights
      BY <1>4, <2>2, <3>3 DEF SightsAreInOrder
    <3> QED BY <1>3, <3>1, <3>2, <3>3
  <2> QED BY <1>6, <2>1, <2>2 DEF SightsAreInOrder
<1>9. \A target : \A at \in Nat : at =< lifeTime /\ SeenThen(target, at) =>
         \E u \in sights' : /\ target \in ToSet(u.rows) /\ at - u.at \in 0..SightAge
                            /\ ~\E v \in sights' : v.nth > u.nth /\ v.at < at /\ v.rows # <<>> /\ None \notin ToSet(v.rows)
  BY <1>3, SeenStaysSeen
<1>10. ThoughtIsGrounded'
  <2>1. thinking # None => /\ thinking.at \in Nat /\ thinking.at =< lifeTime
                           /\ \A target \in thinking.targets : SeenThen(target, thinking.at)
    BY DEF LifeInv, ThoughtIsGrounded
  <2>2. thinking # None => \A target \in thinking.targets :
           \E u \in sights' : /\ target \in ToSet(u.rows) /\ thinking.at - u.at \in 0..SightAge
                              /\ ~\E v \in sights' : /\ v.nth > u.nth /\ v.at < thinking.at
                                                     /\ v.rows # <<>> /\ None \notin ToSet(v.rows)
    BY <1>9, <2>1
  <2> QED BY <1>2, <2>1, <2>2 DEF ThoughtIsGrounded, SeenThen
<1>11. PlanMayBeDone'
  BY <1>2, <1>3, SeenStaysSeen DEF LifeInv, PlanMayBeDone, SeenThen, Rested, Repeats
<1>12. WentWhereSeen'
  <2>1. \A g \in went : g.at \in Nat /\ g.at =< lifeTime /\ SeenThen(g.target, g.at)
    BY DEF LifeInv, WentWhereSeen
  <2>2. \A g \in went : \E u \in sights' :
           /\ g.target \in ToSet(u.rows) /\ g.at - u.at \in 0..SightAge
           /\ ~\E v \in sights' : v.nth > u.nth /\ v.at < g.at /\ v.rows # <<>> /\ None \notin ToSet(v.rows)
    BY <1>9, <2>1
  <2> QED BY <1>2, <2>1, <2>2 DEF WentWhereSeen, SeenThen
<1>13. SpeechIsTimed' /\ DecisionsAreKept' /\ SpeechIsSpaced' /\ NoEcho'
  BY <1>2 DEF LifeInv, SpeechIsTimed, DecisionsAreKept, SpeechIsSpaced, NoEcho, Listed
<1> QED BY <1>8, <1>10, <1>11, <1>12, <1>13 DEF LifeInv

LEMMA InstantPassesKeeps == ASSUME LifeInv, InstantPasses PROVE LifeInv'
<1>1. /\ thinking' = thinking /\ planned' = planned /\ lifeTime' = lifeTime + 1 /\ sights' = sights /\ chronicle' = chronicle
      /\ lastSpoken' = lastSpoken /\ recentActions' = recentActions /\ went' = went /\ waitingWav' = waitingWav
  BY DEF InstantPasses
<1>2. lifeTime \in Nat /\ lastSpoken \in Nat \cup {None}
  BY DEF LifeInv, SpeechIsTimed
<1>3. SpeechIsTimed' /\ DecisionsAreKept'
  <2>1. SpeechIsTimed'
    BY <1>1, <1>2 DEF LifeInv, SpeechIsTimed, Listed
  <2>2. DecisionsAreKept'
    BY <1>1 DEF LifeInv, DecisionsAreKept, Listed
  <2> QED BY <2>1, <2>2
<1>4. SightsAreInOrder'
  BY <1>1, <1>2 DEF LifeInv, SightsAreInOrder
<1>5. ThoughtIsGrounded' /\ WentWhereSeen'
  BY <1>1, <1>2 DEF LifeInv, ThoughtIsGrounded, WentWhereSeen, SeenThen
<1>6. Rested => (Rested)'
  BY <1>1, <1>2, LifeAssumption DEF Rested
<1>7. PlanMayBeDone'
  <2> SUFFICES ASSUME planned # None PROVE PlanMayBeDone'
    BY <1>1 DEF PlanMayBeDone
  <2>1. /\ thinking = None /\ planned.at \in Nat /\ planned.at =< lifeTime
        /\ planned.errors = {} /\ planned.action = "speak" => planned.text # None /\ Rested /\ ~Repeats(planned.text)
        /\ planned.errors = {} /\ planned.action \in {"move", "look"} => SeenThen(planned.target, planned.at)
    BY DEF LifeInv, PlanMayBeDone
  <2>2. planned'.at =< lifeTime'
    BY <1>1, <1>2, <2>1
  <2>3. SeenThen(planned.target, planned.at) => SeenThen(planned.target, planned.at)'
    BY <1>1 DEF SeenThen
  <2>4. ~Repeats(planned.text) => ~Repeats(planned.text)'
    BY <1>1 DEF Repeats
  <2> QED BY <1>1, <1>6, <2>1, <2>2, <2>3, <2>4 DEF PlanMayBeDone
<1>8. SpeechIsSpaced' /\ NoEcho'
  BY <1>1 DEF LifeInv, SpeechIsSpaced, NoEcho
<1> QED BY <1>3, <1>4, <1>5, <1>7, <1>8 DEF LifeInv

LEMMA LifeStep == LifeInv /\ [LifeNext]_lifeVars => LifeInv'
<1> SUFFICES ASSUME LifeInv, [LifeNext]_lifeVars PROVE LifeInv'
  OBVIOUS
<1> QED BY ContextTakenKeeps, PlanArrivesKeeps, TickDroppedKeeps, DecisionKeeps, FetchWavKeeps, JobEndsKeeps,
           InstantPassesKeeps, LifeStays DEF LifeNext

\* For any proposals of the model, pictures, pauses and bounds: a pause lies between what she says by
\* herself, nothing is said again while it is remembered, and she sets out only for what she had seen.
THEOREM SpeaksAndGoesInTime == LifeSpec => [](SpeechIsSpaced /\ NoEcho /\ GoesToWhatWasSeen)
<1>1. LifeInv => SpeechIsSpaced /\ NoEcho /\ GoesToWhatWasSeen
  BY DEF LifeInv, WentWhereSeen, SeenThen, GoesToWhatWasSeen
<1> QED BY <1>1, LifeInvInit, LifeStep, PTL DEF LifeSpec

-----------------------------------------------------------------------------
(* AutonomyLoop                                                            *)

\* The score that a goal had when it was a candidate says which source it is of.
ScoresOf(source) ==
    CASE source = "user" -> 600..820 [] source = "venue" -> 400..520 [] source = "role" -> 200..320
ActiveIsScored ==
    activeGoal # None => /\ activeGoal.source \in {"role", "user", "venue"} /\ activeGoal.status \in {"ACTIVE", "PAUSED"}
                         /\ activeGoal.score \in ScoresOf(activeGoal.source)
GoalInv == ActiveIsScored /\ GoalIsWarranted /\ BestIsPursued /\ OnlyLocalIsDone

\* What a run is asked about.
Context(actor, role, user, venue, circumstance) ==
    [actor |-> actor, role |-> role, user |-> user, venue |-> venue, signals |-> circumstance.signals, lapse |-> circumstance.lapse]

LEMMA MaxOfTwo == ASSUME NEW a \in Int, NEW b \in Int PROVE Max({a, b}) \in {a, b} /\ Max({a, b}) >= a /\ Max({a, b}) >= b
<1>1. \E x \in {a, b} : \A y \in {a, b} : x >= y
  <2>1. CASE a >= b
    BY <2>1
  <2>2. CASE b >= a
    BY <2>2
  <2> QED BY <2>1, <2>2
<1> QED BY <1>1 DEF Max

LEMMA MinOfTwo ==
    ASSUME NEW a \in Int, NEW b \in Int
    PROVE  Min({a, b}) = IF a =< b THEN a ELSE b
<1>1. \E x \in {a, b} : \A y \in {a, b} : x =< y
  <2>1. CASE a =< b
    BY <2>1
  <2>2. CASE b =< a
    BY <2>2
  <2> QED BY <2>1, <2>2
<1>2. Min({a, b}) \in {a, b} /\ Min({a, b}) =< a /\ Min({a, b}) =< b
  BY <1>1 DEF Min
<1> QED BY <1>2

\* A candidate is of a wish of the context, and one source has one.
LEMMA CandidatesAreWishes ==
    ASSUME NEW role \in RoleGoals, NEW user \in UserGoals, NEW venue \in VenueGoals, NEW circumstance, NEW actor,
           NEW o \in GoalCandidates(Context(actor, role, user, venue, circumstance))
    PROVE  /\ \/ o.source = "role" /\ o = CandidateOf("role", role)
              \/ o.source = "user" /\ user # None /\ o = CandidateOf("user", user)
              \/ o.source = "venue" /\ venue # None /\ o = CandidateOf("venue", venue)
           /\ o.source \in {"role", "user", "venue"} /\ o.score \in ScoresOf(o.source)
           /\ o.type \in role.allowed
           /\ o.type \in {g.type : g \in {g \in {role, user, venue} : g # None}}
<1> DEFINE c == Context(actor, role, user, venue, circumstance)
<1>1. c.role = role /\ c.user = user /\ c.venue = venue
  BY DEF Context
<1> HIDE DEF c
<1>2. PICK w \in {<<"role", c.role>>, <<"user", c.user>>, <<"venue", c.venue>>} :
         w[2] # None /\ w[2].type \in c.role.allowed /\ o = CandidateOf(w[1], w[2])
  BY DEF GoalCandidates, c
<1>3. /\ w[1] \in {"role", "user", "venue"} /\ w[2] # None /\ w[2] \in RoleGoals \cup UserGoals \cup VenueGoals
      /\ w[1] = "role" => w[2] = role
      /\ w[1] = "user" => w[2] = user
      /\ w[1] = "venue" => w[2] = venue
  BY <1>1, <1>2
<1>4. w[2].priority \in 0..100
  BY <1>3, LoopAssumption
<1>5. o.source = w[1] /\ o.type = w[2].type /\ o.score \in ScoresOf(w[1])
  BY <1>2, <1>3, <1>4 DEF CandidateOf, ScoresOf, SourceBase
<1> QED BY <1>1, <1>2, <1>3, <1>5

LEMMA OnePerSource ==
    ASSUME NEW role \in RoleGoals, NEW user \in UserGoals, NEW venue \in VenueGoals, NEW circumstance, NEW actor,
           NEW o \in GoalCandidates(Context(actor, role, user, venue, circumstance)),
           NEW p \in GoalCandidates(Context(actor, role, user, venue, circumstance)), o.source = p.source
    PROVE  o = p
BY CandidatesAreWishes

\* The best of the candidates.
LEMMA TopIsBest ==
    ASSUME NEW role \in RoleGoals, NEW user \in UserGoals, NEW venue \in VenueGoals, NEW circumstance, NEW actor, NEW candidates,
           candidates = GoalCandidates(Context(actor, role, user, venue, circumstance)), candidates # {}
    PROVE  Top(candidates) \in candidates /\ \A o \in candidates : Top(candidates).score >= o.score
<1>1. \A o \in candidates : /\ o.source \in {"role", "user", "venue"} /\ o.score \in ScoresOf(o.source)
                            /\ \A p \in candidates : o.source = p.source => o = p
  BY CandidatesAreWishes, OnePerSource
<1>2. \A o \in candidates : /\ o.source = "role" => o.score \in 200..320
                            /\ o.source = "venue" => o.score \in 400..520
                            /\ o.source = "user" => o.score \in 600..820
  BY <1>1 DEF ScoresOf
<1>3. \E t \in candidates : \A o \in candidates : t.score >= o.score
  <2>1. CASE \E t \in candidates : t.source = "user"
    <3>0. PICK t \in candidates : t.source = "user"
      BY <2>1
    <3>1. ASSUME NEW o \in candidates PROVE t.score >= o.score
      <4>1. CASE o.source = "user"
        BY <3>0, <1>1, <1>2, <4>1
      <4>2. CASE o.source # "user"
        <5>1. t.score \in 600..820
          BY <3>0, <1>2
        <5>2. o.score \in Int /\ o.score =< 520
          <6>1. CASE o.source = "role"
            BY <1>2, <6>1
          <6>2. CASE o.source = "venue"
            BY <1>2, <6>2
          <6> QED BY <1>1, <4>2, <6>1, <6>2
        <5>3. t.score \in Int /\ t.score >= 600
          BY <5>1
        <5> QED BY <5>2, <5>3
      <4> QED BY <4>1, <4>2
    <3> QED BY <3>1
  <2>2. CASE ~(\E t \in candidates : t.source = "user") /\ \E t \in candidates : t.source = "venue"
    <3>0. PICK t \in candidates : t.source = "venue"
      BY <2>2
    <3>1. ASSUME NEW o \in candidates PROVE t.score >= o.score
      <4>1. CASE o.source = "venue"
        BY <3>0, <1>1, <1>2, <4>1
      <4>2. CASE o.source # "venue"
        <5>1. t.score \in 400..520
          BY <3>0, <1>2
        <5>2. o.score \in 200..320
          <6>1. o.source # "user"
            BY <2>2
          <6>2. o.source \in {"role", "user", "venue"}
            BY <1>1
          <6>3. o.source = "role"
            BY <4>2, <6>1, <6>2
          <6> QED BY <1>2, <6>3
        <5>3. t.score \in Int /\ t.score >= 400
          BY <5>1
        <5>4. o.score \in Int /\ o.score =< 320
          BY <5>2
        <5> QED BY <5>3, <5>4
      <4> QED BY <4>1, <4>2
    <3> QED BY <3>1
  <2>3. CASE ~(\E t \in candidates : t.source \in {"user", "venue"})
    <3> PICK t \in candidates : TRUE
      OBVIOUS
    <3>1. ASSUME NEW o \in candidates PROVE t.score >= o.score
      <4>1. o.source = "role" /\ t.source = "role"
        BY <1>1, <2>3
      <4>2. o = t /\ t.score \in Int
        BY <1>1, <1>2, <4>1
      <4> QED BY <4>2
    <3> QED BY <3>1
  <2> QED BY <2>1, <2>2, <2>3
<1> QED BY <1>3 DEF Top

\* What a run that selects a goal has found.
Open(c, d, candidates, top, own) ==
    /\ ~ContextFails(c) /\ "emergency_stop" \notin c.signals /\ c.signals \cap Ended = {} /\ candidates # {}
    /\ \/ activeGoal = None /\ d = Selects(top, "START")
       \/ /\ activeGoal # None /\ activeGoal.type \in c.role.allowed
          /\ \/ d.goal = own /\ activeGoal.score >= top.score
             \/ d = Selects(top, "PREEMPT") /\ top.score > activeGoal.score
             \/ d = Selects(top, "INTERRUPT") /\ "interrupt_request" \in c.signals
             \/ d = Selects(top, "CONTINUE") /\ GoalOf(top) = GoalOf(activeGoal)

OwnGoal(candidates) ==
    LET same == {o \in candidates : GoalOf(o) = GoalOf(activeGoal)}
    IN IF same # {} THEN CHOOSE o \in same : TRUE
       ELSE [source |-> activeGoal.source, type |-> activeGoal.type, short |-> activeGoal.short, score |-> activeGoal.score]

LEMMA SelectedIsOpen ==
    ASSUME ActiveIsScored, NEW role \in RoleGoals, NEW user \in UserGoals, NEW venue \in VenueGoals, NEW circumstance, NEW actor, NEW c, NEW candidates,
           c = Context(actor, role, user, venue, circumstance), candidates = GoalCandidates(c), ~Evaluated(c).closed
    PROVE  Open(c, Evaluated(c), candidates, Top(candidates), OwnGoal(candidates))
<1> DEFINE d == Evaluated(c)
<1>1. \A action : Idle(action).closed = TRUE
  BY DEF Idle
<1>2. \A action, g : Selects(g, action).closed = FALSE /\ Selects(g, action).goal = g /\ Selects(g, action).action = action
  BY DEF Selects
<1>3. ~ContextFails(c) /\ "emergency_stop" \notin c.signals /\ c.signals \cap Ended = {}
  BY <1>1 DEF Evaluated
<1>4. /\ ~(activeGoal # None /\ activeGoal.type \notin c.role.allowed) /\ candidates # {}
      /\ d = IF activeGoal = None THEN Selects(Top(candidates), "START")
             ELSE AgainstActive(c, candidates, Top(candidates))
  BY <1>1, <1>3 DEF Evaluated
<1>5. CASE activeGoal = None
  BY <1>3, <1>4, <1>5 DEF Open
<1>6. CASE activeGoal # None
  <2> DEFINE top == Top(candidates)
             own == OwnGoal(candidates)
  <2>1. d = AgainstActive(c, candidates, top)
    BY <1>4, <1>6
  <2>2. activeGoal.status \in {"ACTIVE", "PAUSED"} /\ activeGoal.score \in Int
    BY <1>6 DEF ActiveIsScored, ScoresOf
  <2>3. top \in candidates /\ top.score \in Int
    BY <1>4, TopIsBest, CandidatesAreWishes DEF ScoresOf
  <2> HIDE DEF top
  <2>4. AgainstActive(c, candidates, top) =
           CASE activeGoal.status = "PAUSED" /\ "resume_ready" \in c.signals /\ activeGoal.score >= top.score -> Selects(own, "RESUME")
             [] activeGoal.status = "PAUSED" /\ top.score > activeGoal.score -> Selects(top, "PREEMPT")
             [] activeGoal.status = "PAUSED" /\ top.score =< activeGoal.score /\ "resume_ready" \notin c.signals -> Idle("SAFE_IDLE")
             [] activeGoal.status = "ACTIVE" /\ GoalOf(top) # GoalOf(activeGoal) /\ "interrupt_request" \in c.signals -> Selects(top, "INTERRUPT")
             [] activeGoal.status = "ACTIVE" /\ GoalOf(top) = GoalOf(activeGoal) -> Selects(top, "CONTINUE")
             [] activeGoal.status = "ACTIVE" /\ GoalOf(top) # GoalOf(activeGoal) /\ "interrupt_request" \notin c.signals ->
                    IF top.score > activeGoal.score THEN Selects(top, "PREEMPT") ELSE Selects(own, "CONTINUE")
    BY DEF AgainstActive, OwnGoal
  <2> HIDE DEF own
  <2>5. \/ d = Selects(own, "RESUME") /\ activeGoal.score >= top.score
        \/ d = Selects(own, "CONTINUE") /\ activeGoal.score >= top.score
        \/ d = Selects(top, "PREEMPT") /\ top.score > activeGoal.score
        \/ d = Selects(top, "INTERRUPT") /\ "interrupt_request" \in c.signals
        \/ d = Selects(top, "CONTINUE") /\ GoalOf(top) = GoalOf(activeGoal)
        \/ d = Idle("SAFE_IDLE")
    <3>1. CASE activeGoal.status = "PAUSED"
      BY <2>1, <2>2, <2>3, <2>4, <3>1
    <3>2. CASE activeGoal.status = "ACTIVE"
      BY <2>1, <2>2, <2>3, <2>4, <3>2
    <3> QED BY <2>2, <3>1, <3>2
  <2>6. d # Idle("SAFE_IDLE")
    BY <1>1
  <2>7. \/ d.goal = own /\ activeGoal.score >= top.score
        \/ d = Selects(top, "PREEMPT") /\ top.score > activeGoal.score
        \/ d = Selects(top, "INTERRUPT") /\ "interrupt_request" \in c.signals
        \/ d = Selects(top, "CONTINUE") /\ GoalOf(top) = GoalOf(activeGoal)
    BY <1>2, <2>5, <2>6
  <2> QED BY <1>3, <1>4, <1>6, <2>7 DEF Open, top, own
<1> QED BY <1>5, <1>6

\* Her own goal, if it is a candidate, is the one that is wished for circumstance; its source tells its score.
LEMMA OwnIsOwn ==
    ASSUME ActiveIsScored, activeGoal # None, NEW role \in RoleGoals, NEW user \in UserGoals, NEW venue \in VenueGoals, NEW circumstance, NEW actor,
           NEW candidates, candidates = GoalCandidates(Context(actor, role, user, venue, circumstance)), candidates # {},
           activeGoal.score >= Top(candidates).score
    PROVE  /\ GoalOf(OwnGoal(candidates)) = GoalOf(activeGoal) /\ OwnGoal(candidates).type = activeGoal.type
           /\ OwnGoal(candidates).source = activeGoal.source /\ OwnGoal(candidates).score \in ScoresOf(activeGoal.source)
           /\ \A o \in candidates : o.score =< OwnGoal(candidates).score
<1> DEFINE own == OwnGoal(candidates)
           top == Top(candidates)
           same == {o \in candidates : GoalOf(o) = GoalOf(activeGoal)}
<1>1. \A g, h : GoalOf(g) = GoalOf(h) => g.source = h.source /\ g.type = h.type
  BY DEF GoalOf
<1>2. \A o \in candidates : /\ o.source \in {"role", "user", "venue"} /\ o.score \in ScoresOf(o.source)
                            /\ \A p \in candidates : o.source = p.source => o = p
  BY CandidatesAreWishes, OnePerSource
<1>3. /\ activeGoal.source \in {"role", "user", "venue"}
      /\ activeGoal.score \in ScoresOf(activeGoal.source)
  BY DEF ActiveIsScored
<1>4. top \in candidates /\ \A o \in candidates : top.score >= o.score
  BY TopIsBest
<1> HIDE DEF top
<1>5. CASE same = {}
  <2>1. own = [source |-> activeGoal.source, type |-> activeGoal.type, short |-> activeGoal.short, score |-> activeGoal.score]
    BY <1>5 DEF OwnGoal
  <2> HIDE DEF own
  <2>2. own.score = activeGoal.score /\ own.source = activeGoal.source /\ own.type = activeGoal.type /\ own.short = activeGoal.short
    BY <2>1
  <2>3. GoalOf(own) = GoalOf(activeGoal)
    BY <2>2 DEF GoalOf
  <2>4. \A o \in candidates : o.score \in Int
    BY <1>2 DEF ScoresOf
  <2>5. activeGoal.score \in Int
    BY <1>3 DEF ScoresOf
  <2>6. \A o \in candidates : o.score =< own.score
    BY <1>4, <2>2, <2>4, <2>5 DEF top
  <2> QED BY <1>3, <2>2, <2>3, <2>6 DEF own
<1>6. CASE same # {}
  <2>1. own \in candidates /\ GoalOf(own) = GoalOf(activeGoal)
    BY <1>6 DEF OwnGoal
  <2> HIDE DEF own
  <2>2. own.source = activeGoal.source /\ own.type = activeGoal.type
    BY <1>1, <2>1
  <2>3. own.score \in ScoresOf(activeGoal.source)
    BY <1>2, <2>1, <2>2
  <2>4. own.score >= top.score
    <3>1. CASE own.source = top.source
      BY <1>2, <1>4, <2>1, <3>1
    <3>2. CASE own.source # top.source
      <4>1. own.score =< top.score
        BY <1>4, <2>1, <1>2
      <4>2. activeGoal.score >= top.score
        BY DEF top
      <4>3. ~(own.source = "role")
        <5> SUFFICES ASSUME own.source = "role" PROVE FALSE
          OBVIOUS
        <5>1. activeGoal.score \in 200..320
          BY <1>3, <2>2 DEF ScoresOf
        <5>2. top.score \in 400..520 \/ top.score \in 600..820
          BY <1>2, <1>4, <3>2 DEF ScoresOf
        <5>3. top.score \in Int /\ top.score >= 400
          BY <5>2
        <5> QED BY <4>2, <5>1, <5>3
      <4>4. ~(own.source = "venue")
        <5> SUFFICES ASSUME own.source = "venue" PROVE FALSE
          OBVIOUS
        <5>1. activeGoal.score \in 400..520 /\ own.score \in 400..520
          BY <1>3, <2>2, <2>3 DEF ScoresOf
        <5>2. top.score \in 200..320 \/ top.score \in 600..820
          BY <1>2, <1>4, <3>2 DEF ScoresOf
        <5>3. CASE top.score \in 200..320
          <6>1. top.score \in Int /\ top.score =< 320 /\ own.score \in Int /\ own.score >= 400
            BY <5>1, <5>3
          <6> QED BY <4>1, <6>1
        <5>4. CASE top.score \in 600..820
          <6>1. top.score \in Int /\ top.score >= 600
            BY <5>4
          <6>2. activeGoal.score \in Int /\ activeGoal.score =< 520
            BY <5>1
          <6> QED BY <4>2, <6>1, <6>2
        <5> QED BY <5>2, <5>3, <5>4
      <4>5. ~(own.source = "user")
        <5> SUFFICES ASSUME own.source = "user" PROVE FALSE
          OBVIOUS
        <5>1. own.score \in 600..820
          BY <2>2, <2>3 DEF ScoresOf
        <5>2. top.score \in 200..320 \/ top.score \in 400..520
          BY <1>2, <1>4, <3>2 DEF ScoresOf
        <5>3. top.score \in Int /\ top.score =< 520
          BY <5>2
        <5> QED BY <4>1, <5>1, <5>3
      <4> QED BY <1>3, <2>2, <4>3, <4>4, <4>5
    <3> QED BY <3>1, <3>2
  <2>5. \A o \in candidates : o.score \in Int
    BY <1>2 DEF ScoresOf
  <2>6. \A o \in candidates : o.score =< own.score
    BY <1>4, <2>1, <2>4, <2>5
  <2> QED BY <2>1, <2>2, <2>3, <2>6 DEF own
<1> QED BY <1>5, <1>6

LEMMA RunOnceKeeps == ASSUME GoalInv, RunOnce PROVE GoalInv'
<1>1. PICK actor \in GoalOwners, role \in RoleGoals, user \in UserGoals, venue \in VenueGoals, circumstance \in Circumstances, order \in LoopOrders :
        /\ OfOneUser(Context(actor, role, user, venue, circumstance))
        /\ activeGoal' = AdoptedGoal(Context(actor, role, user, venue, circumstance), Evaluated(Context(actor, role, user, venue, circumstance)))
        /\ looped' = [context |-> Context(actor, role, user, venue, circumstance), was |-> activeGoal,
                      decision |-> Evaluated(Context(actor, role, user, venue, circumstance)), order |-> order, plan |-> Planned(order.plan),
                      act |-> Acted(Planned(order.plan), order.mode, order.right)]
  <2>1. PICK actor \in GoalOwners, role \in RoleGoals, user \in UserGoals, venue \in VenueGoals, circumstance \in Circumstances, order \in LoopOrders :
          LET c == Context(actor, role, user, venue, circumstance)
              plan == Planned(order.plan)
          IN /\ looped = None /\ OfOneUser(c)
             /\ \E decision \in {Evaluated(c)} :
                   /\ activeGoal' = AdoptedGoal(c, decision)
                   /\ looped' = [context |-> c, was |-> activeGoal, decision |-> decision, order |-> order, plan |-> plan,
                                 act |-> Acted(plan, order.mode, order.right)]
    BY DEF RunOnce, Context
  <2> QED BY <2>1
<1> DEFINE c == Context(actor, role, user, venue, circumstance)
           d == Evaluated(c)
           candidates == GoalCandidates(c)
           top == Top(candidates)
           own == OwnGoal(candidates)
<1>2. /\ looped'.context = c /\ looped'.was = activeGoal /\ looped'.decision = d /\ looped'.order = order
      /\ looped'.plan = Planned(order.plan) /\ looped'.act = Acted(Planned(order.plan), order.mode, order.right)
  BY <1>1
<1>3. /\ c.role = role /\ c.user = user /\ c.venue = venue /\ c.actor = actor
      /\ c.signals = circumstance.signals /\ c.lapse = circumstance.lapse
  BY DEF Context
<1>4. ActiveIsScored /\ OfOneUser(c) /\ activeGoal' = AdoptedGoal(c, d)
  BY <1>1 DEF GoalInv
<1>5. ~d.closed => Open(c, d, candidates, top, own)
  BY <1>4, SelectedIsOpen
<1>6. candidates # {} => /\ top \in candidates /\ \A o \in candidates : top.score >= o.score
  BY TopIsBest
<1>7. \A o \in candidates : /\ o.source \in {"role", "user", "venue"} /\ o.score \in ScoresOf(o.source)
                            /\ o.type \in role.allowed /\ o.type \in {g.type : g \in {g \in {role, user, venue} : g # None}}
  BY CandidatesAreWishes
<1>8. activeGoal # None /\ candidates # {} /\ activeGoal.score >= top.score =>
         /\ GoalOf(own) = GoalOf(activeGoal) /\ own.type = activeGoal.type
         /\ own.source = activeGoal.source /\ own.score \in ScoresOf(activeGoal.source)
         /\ \A o \in candidates : o.score =< own.score
  BY <1>4, OwnIsOwn
<1>9. \A g, action : Selects(g, action).goal = g /\ Selects(g, action).action = action
  BY DEF Selects
<1> HIDE DEF c, d, candidates, top, own
<1>10. ASSUME ~d.closed
       PROVE  /\ ~ContextFails(c) /\ "emergency_stop" \notin c.signals /\ c.signals \cap Ended = {} /\ candidates # {}
              /\ \/ d.goal = top
                 \/ d.goal = own /\ activeGoal # None /\ activeGoal.type \in c.role.allowed /\ activeGoal.score >= top.score
              /\ d.action \in {"CONTINUE", "RESUME"} => activeGoal # None /\ GoalOf(d.goal) = GoalOf(activeGoal)
              /\ activeGoal # None /\ GoalOf(d.goal) # GoalOf(activeGoal) =>
                    /\ d.goal = top
                    /\ top.score > activeGoal.score \/ "interrupt_request" \in c.signals
  BY <1>5, <1>8, <1>9, <1>10 DEF Open
<1>11. ASSUME ~d.closed
       PROVE  /\ d.goal.source \in {"role", "user", "venue"} /\ d.goal.score \in ScoresOf(d.goal.source)
              /\ d.goal.type \in c.role.allowed /\ \A o \in candidates : o.score =< d.goal.score
  <2>1. CASE d.goal = top
    <3>1. /\ top.source \in {"role", "user", "venue"} /\ top.score \in ScoresOf(top.source) /\ top.type \in c.role.allowed
      BY <1>3, <1>6, <1>7, <1>10, <1>11
    <3>2. \A o \in candidates : o.score =< top.score
      BY <1>6, <1>7, <1>10, <1>11, <3>1 DEF ScoresOf
    <3> QED BY <2>1, <3>1, <3>2
  <2>2. CASE d.goal = own /\ activeGoal # None /\ activeGoal.type \in c.role.allowed /\ activeGoal.score >= top.score
    BY <1>4, <1>8, <1>10, <1>11, <2>2 DEF ActiveIsScored
  <2> QED BY <1>10, <1>11, <2>1, <2>2
<1>12. ASSUME ~d.closed PROVE d.goal.type \in SafeTypes
  <2>1. \A g \in GoalWishes(c) \cup {c.role} : g.type \in SafeTypes
    BY <1>10, <1>12 DEF ContextFails
  <2>2. /\ user # None => user.type \in SafeTypes
        /\ venue # None => venue.type \in SafeTypes
        /\ activeGoal # None => activeGoal.type \in SafeTypes
        /\ role.type \in SafeTypes
    BY <1>3, <2>1 DEF GoalWishes
  <2>3. CASE d.goal = top
    BY <1>6, <1>7, <1>10, <1>12, <2>2, <2>3
  <2>4. CASE d.goal = own /\ activeGoal # None /\ activeGoal.score >= top.score
    BY <1>8, <1>10, <1>12, <2>2, <2>4
  <2> QED BY <1>10, <1>12, <2>3, <2>4
<1>13. activeGoal # None => activeGoal.owner = c.actor
  BY <1>4 DEF OfOneUser
<1>14. c.user # None => c.user.owner = c.actor
  BY <1>4 DEF OfOneUser
<1>15. ~d.closed /\ activeGoal # None => ~activeGoal.stale
  BY <1>10 DEF ContextFails, GoalWishes
<1>16. ~d.closed => c.lapse = None
  BY <1>10 DEF ContextFails
<1>17. GoalIsWarranted'
  BY <1>2, <1>10, <1>11, <1>12, <1>13, <1>14, <1>15, <1>16 DEF GoalIsWarranted
<1>18. BestIsPursued'
  BY <1>2, <1>10, <1>11 DEF BestIsPursued, candidates
<1>19. OnlyLocalIsDone'
  <2> SUFFICES ASSUME Acted(Planned(order.plan), order.mode, order.right) = "EXECUTED"
               PROVE  order.mode = "execute_local" /\ order.right = "local" /\ Range(Planned(order.plan)) = {"local"}
    BY <1>2 DEF OnlyLocalIsDone
  <2>1. /\ Planned(order.plan) # <<>> /\ \A i \in DOMAIN Planned(order.plan) : Planned(order.plan)[i] = "local"
        /\ order.mode \notin {"observe_only", "dry_run"} /\ order.right = "local"
    BY DEF Acted
  <2>2. order.mode = "execute_local"
    BY <2>1, LoopAssumption
  <2>3. Planned(order.plan) \in Seq({"local", "other"})
    <3>1. <<"local">> \in Seq({"local", "other"})
      OBVIOUS
    <3>2. order.plan # None => order.plan \in Seq({"local", "other"})
      BY LoopAssumption
    <3> QED BY <3>1, <3>2 DEF Planned
  <2> DEFINE p == Planned(order.plan)
  <2> HIDE DEF p
  <2>4. p # <<>> /\ p \in Seq({"local", "other"}) /\ \A i \in DOMAIN p : p[i] = "local"
    BY <2>1, <2>3 DEF p
  <2>5. 1 \in DOMAIN p
    BY <2>4
  <2>6. Range(p) = {"local"}
    BY <2>4, <2>5 DEF Range
  <2> QED BY <2>1, <2>2, <2>6 DEF p
<1>20. ActiveIsScored'
  <2>1. CASE d.closed
    BY <1>4, <2>1 DEF AdoptedGoal, ActiveIsScored
  <2>2. CASE ~d.closed
    BY <1>4, <1>11, <2>2 DEF AdoptedGoal, ActiveIsScored
  <2> QED BY <2>1, <2>2
<1> QED BY <1>17, <1>18, <1>19, <1>20 DEF GoalInv

LEMMA BetweenRunsKeeps == ASSUME GoalInv, BetweenRuns PROVE GoalInv'
<1>1. looped' = None
  BY DEF BetweenRuns
<1>2. ActiveIsScored'
  <2>1. CASE activeGoal = None
    BY <2>1 DEF BetweenRuns, ActiveIsScored
  <2>2. CASE activeGoal # None
    <3>1. PICK status \in {"ACTIVE", "PAUSED"}, stale \in BOOLEAN :
             activeGoal' = [activeGoal EXCEPT !.status = status, !.stale = stale]
      BY <2>2 DEF BetweenRuns
    <3>2. /\ activeGoal.source \in {"role", "user", "venue"} /\ activeGoal.status \in {"ACTIVE", "PAUSED"}
          /\ activeGoal.score \in ScoresOf(activeGoal.source)
      BY <2>2 DEF GoalInv, ActiveIsScored
    <3>3. \A f, s : f \in STRING => TRUE
      OBVIOUS
    <3>4. activeGoal'.source = activeGoal.source /\ activeGoal'.score = activeGoal.score
      BY <3>1
    <3>5. activeGoal'.status \in {"ACTIVE", "PAUSED"}
      BY <3>1, <3>2
    <3> QED BY <3>2, <3>4, <3>5 DEF ActiveIsScored
  <2> QED BY <2>1, <2>2
<1> QED BY <1>1, <1>2 DEF GoalInv, GoalIsWarranted, BestIsPursued, OnlyLocalIsDone

-----------------------------------------------------------------------------
\* A watchdog that runs has counted the samples since the last other action, and under pressure.
Samples == [action : LoopActions, pressed : BOOLEAN, well : BOOLEAN]
WatchTypes ==
    /\ sampled \in Seq(Samples)
    /\ watch \in [state : {"RUNNING", "SAFE_IDLE", "KILLED"}, last : LoopActions \cup {None},
                  repeats : 0..MaxRepeated + 1, pressures : 0..PressureLimit]
Counted ==
    watch.state = "RUNNING" =>
        /\ \A i \in DOMAIN sampled : sampled[i].well
        /\ sampled = <<>> => watch.repeats = 0 /\ watch.pressures = 0 /\ watch.last = None
        /\ sampled # <<>> =>
              /\ watch.last = sampled[Len(sampled)].action
              /\ watch.repeats \in 1..MaxRepeated /\ watch.pressures < PressureLimit
              /\ Len(sampled) > watch.repeats => sampled[Len(sampled) - watch.repeats].action # watch.last
              /\ Len(sampled) > watch.pressures => ~sampled[Len(sampled) - watch.pressures].pressed
WatchInv == WatchTypes /\ Counted

LEMMA FreshIsCounted ==
    ASSUME watch' = FreshWatch, sampled' = <<>> PROVE WatchInv'
BY LoopAssumption DEF WatchInv, WatchTypes, Counted, FreshWatch

LEMMA KillKeeps == ASSUME WatchInv, TriggerKillSwitch PROVE WatchInv'
<1>1. watch' = [watch EXCEPT !.state = "KILLED"] /\ sampled' = sampled
  BY DEF TriggerKillSwitch
<1>2. WatchTypes' /\ watch'.state = "KILLED"
  BY <1>1 DEF WatchInv, WatchTypes
<1> QED BY <1>2 DEF WatchInv, Counted

\* A sample more, of which no more than what is looked at is kept.
LastOnes(s, x, longest) == IF Len(Append(s, x)) > longest THEN Tail(Append(s, x)) ELSE Append(s, x)
LEMMA SampleKept ==
    ASSUME NEW s \in Seq(Samples), NEW x \in Samples, NEW longest \in Nat \ {0}, NEW held, held = LastOnes(s, x, longest)
    PROVE  /\ held \in Seq(Samples) /\ held # <<>> /\ held[Len(held)] = x
           /\ \A back \in Nat \ {0} : back < Len(held) =>
                 /\ back - 1 < Len(s) /\ held[Len(held) - back] = s[Len(s) - (back - 1)]
           /\ \A i \in DOMAIN held : held[i] = x \/ \E j \in DOMAIN s : held[i] = s[j]
<1> DEFINE all == Append(s, x)
           n == Len(s)
<1>1. /\ all \in Seq(Samples) /\ Len(all) = n + 1 /\ n \in Nat
      /\ \A i \in 1..n : all[i] = s[i]
      /\ all[n + 1] = x /\ DOMAIN s = 1..n
  OBVIOUS
<1>2. held = IF Len(all) > longest THEN Tail(all) ELSE all
  BY DEF LastOnes
<1> HIDE DEF all
<1>3. CASE Len(all) > longest
  <2> DEFINE m == Len(held)
  <2>1. held \in Seq(Samples) /\ m = n /\ DOMAIN held = 1..n /\ \A i \in 1..n : held[i] = all[i + 1]
    BY <1>1, <1>2, <1>3
  <2>2. n > 0
    BY <1>1, <1>3
  <2>3. held[n] = x
    <3> HIDE DEF n
    <3>1. n \in 1..n
      BY <1>1, <2>2
    <3> QED BY <1>1, <2>1, <3>1
  <2>4. held # <<>>
    BY <2>1, <2>2
  <2>5. \A back \in Nat \ {0} : back < n => back - 1 < n /\ held[n - back] = s[n - (back - 1)]
    <3> HIDE DEF n
    <3> SUFFICES ASSUME NEW back \in Nat \ {0}, back < n
                 PROVE  back - 1 < n /\ held[n - back] = s[n - (back - 1)]
      OBVIOUS
    <3>1. n - back \in 1..n /\ n - back + 1 \in 1..n /\ n - (back - 1) = n - back + 1
      BY <1>1
    <3>2. held[n - back] = all[n - back + 1]
      BY <2>1, <3>1
    <3>3. all[n - back + 1] = s[n - back + 1]
      BY <1>1, <3>1
    <3> QED BY <1>1, <3>1, <3>2, <3>3
  <2>6. ASSUME NEW i \in DOMAIN held PROVE held[i] = x \/ \E j \in DOMAIN s : held[i] = s[j]
    <3> HIDE DEF n
    <3>1. i \in 1..n /\ held[i] = all[i + 1]
      BY <2>1, <2>6
    <3>2. CASE i = n
      BY <1>1, <3>1, <3>2
    <3>3. CASE i < n
      <4>1. i + 1 \in 1..n
        BY <1>1, <3>1, <3>3
      <4> QED BY <1>1, <3>1, <4>1
    <3> QED BY <1>1, <3>1, <3>2, <3>3
  <2> QED BY <2>1, <2>3, <2>4, <2>5, <2>6
<1>4. CASE ~(Len(all) > longest)
  <2> DEFINE m == Len(held)
  <2>1. held = all /\ m = n + 1 /\ DOMAIN held = 1..n + 1
    BY <1>1, <1>2, <1>4
  <2>2. held # <<>> /\ held[m] = x
    <3>1. held # <<>>
      <4>1. Len(<<>>) = 0
        OBVIOUS
      <4> HIDE DEF n
      <4>2. m # 0
        BY <1>1, <2>1
      <4> QED BY <4>1, <4>2
    <3> HIDE DEF n, m
    <3>2. held[n + 1] = x
      BY <1>1, <2>1
    <3> QED BY <2>1, <3>1, <3>2
  <2>3. \A back \in Nat \ {0} : back < n + 1 => back - 1 < n /\ held[n + 1 - back] = s[n - (back - 1)]
    <3> HIDE DEF n
    <3> SUFFICES ASSUME NEW back \in Nat \ {0}, back < n + 1
                 PROVE  back - 1 < n /\ held[n + 1 - back] = s[n - (back - 1)]
      OBVIOUS
    <3>1. n + 1 - back = n - (back - 1) /\ n - (back - 1) \in 1..n /\ back - 1 < n
      BY <1>1
    <3> QED BY <1>1, <2>1, <3>1
  <2>4. ASSUME NEW i \in DOMAIN held PROVE held[i] = x \/ \E j \in DOMAIN s : held[i] = s[j]
    <3> HIDE DEF n
    <3>1. i \in 1..n \/ i = n + 1
      BY <1>1, <2>1, <2>4
    <3> QED BY <1>1, <2>1, <3>1
  <2>5. \A back \in Nat \ {0} : back < m => back - 1 < n /\ held[m - back] = s[n - (back - 1)]
    <3> HIDE DEF n, m
    <3> SUFFICES ASSUME NEW back \in Nat \ {0}, back < m
                 PROVE  back - 1 < n /\ held[m - back] = s[n - (back - 1)]
      OBVIOUS
    <3>1. m = n + 1
      BY <2>1
    <3>2. back < n + 1 /\ m - back = n + 1 - back
      BY <1>1, <3>1
    <3> QED BY <2>3, <3>2
  <2> QED BY <1>1, <2>1, <2>2, <2>4, <2>5
<1> QED BY <1>3, <1>4

LEMMA SampleKeeps == ASSUME WatchInv, IngestSample PROVE WatchInv'
<1> USE LoopAssumption
<1> DEFINE longest == Max({MaxRepeated + 1, PressureLimit})
<1>0. PICK action \in LoopActions, pressed \in BOOLEAN, stop \in BOOLEAN, whole \in BOOLEAN, beating \in BOOLEAN :
        LET repeats   == IF action = watch.last THEN watch.repeats + 1 ELSE 1
            pressures == IF pressed THEN watch.pressures + 1 ELSE 0
            alarmed   == stop \/ ~whole \/ ~beating \/ repeats > MaxRepeated \/ pressures >= PressureLimit
            held      == [state |-> IF alarmed THEN "SAFE_IDLE" ELSE watch.state,
                          last |-> action, repeats |-> Min({repeats, MaxRepeated + 1}),
                          pressures |-> Min({pressures, PressureLimit})]
            sample    == [action |-> action, pressed |-> pressed, well |-> whole /\ beating /\ ~stop]
        IN /\ watch' = IF watch.state = "KILLED" THEN watch ELSE held
           /\ sampled' = LET all == Append(sampled, sample)
                         IN IF Len(all) > longest THEN Tail(all) ELSE all
  BY DEF IngestSample
<1> DEFINE repeats   == IF action = watch.last THEN watch.repeats + 1 ELSE 1
           pressures == IF pressed THEN watch.pressures + 1 ELSE 0
           alarmed   == stop \/ ~whole \/ ~beating \/ repeats > MaxRepeated \/ pressures >= PressureLimit
           verdict   == [state |-> IF alarmed THEN "SAFE_IDLE" ELSE watch.state,
                         last |-> action, repeats |-> Min({repeats, MaxRepeated + 1}),
                         pressures |-> Min({pressures, PressureLimit})]
           x         == [action |-> action, pressed |-> pressed, well |-> whole /\ beating /\ ~stop]
           held      == IF Len(Append(sampled, x)) > longest THEN Tail(Append(sampled, x)) ELSE Append(sampled, x)
<1>1. watch' = (IF watch.state = "KILLED" THEN watch ELSE verdict) /\ sampled' = held
  BY <1>0
<1>2. WatchTypes /\ Counted
  BY DEF WatchInv
<1>3. /\ watch.repeats \in 0..MaxRepeated + 1 /\ watch.pressures \in 0..PressureLimit
      /\ watch.state \in {"RUNNING", "SAFE_IDLE", "KILLED"} /\ sampled \in Seq(Samples)
      /\ watch.last \in LoopActions \cup {None}
  BY <1>2 DEF WatchTypes
<1>4. x \in Samples /\ x.action = action /\ x.pressed = pressed /\ x.well = (whole /\ beating /\ ~stop)
  BY DEF Samples
<1>5. longest \in Nat \ {0}
  <2>1. MaxRepeated + 1 \in Int /\ PressureLimit \in Int
    OBVIOUS
  <2>2. longest \in {MaxRepeated + 1, PressureLimit} /\ longest >= MaxRepeated + 1
    BY <2>1, MaxOfTwo
  <2> HIDE DEF longest
  <2> QED BY <2>2
<1>6. repeats \in Nat \ {0} /\ pressures \in Nat
  BY <1>3
<1>7. /\ Min({repeats, MaxRepeated + 1}) = IF repeats =< MaxRepeated + 1 THEN repeats ELSE MaxRepeated + 1
      /\ Min({pressures, PressureLimit}) = IF pressures =< PressureLimit THEN pressures ELSE PressureLimit
  BY <1>6, MinOfTwo
<1>8. /\ verdict.state = (IF alarmed THEN "SAFE_IDLE" ELSE watch.state) /\ verdict.last = action
      /\ verdict.repeats = Min({repeats, MaxRepeated + 1}) /\ verdict.pressures = Min({pressures, PressureLimit})
  OBVIOUS
<1>9. verdict \in [state : {"RUNNING", "SAFE_IDLE", "KILLED"}, last : LoopActions \cup {None},
                   repeats : 0..MaxRepeated + 1, pressures : 0..PressureLimit]
  <2>1. Min({repeats, MaxRepeated + 1}) \in 0..MaxRepeated + 1 /\ Min({pressures, PressureLimit}) \in 0..PressureLimit
    BY <1>6, <1>7
  <2> QED BY <1>3, <2>1
<1>10. /\ sampled' \in Seq(Samples) /\ sampled' # <<>> /\ sampled'[Len(sampled')] = x
       /\ \A back \in Nat \ {0} : back < Len(sampled') =>
             /\ back - 1 < Len(sampled) /\ sampled'[Len(sampled') - back] = sampled[Len(sampled) - (back - 1)]
       /\ \A i \in DOMAIN sampled' : sampled'[i] = x \/ \E j \in DOMAIN sampled : sampled'[i] = sampled[j]
  <2>1. held = LastOnes(sampled, x, longest)
    BY DEF LastOnes
  <2>2. sampled' = held
    BY <1>1
  <2> HIDE DEF longest, x, held
  <2>3. PICK h : h = held
    OBVIOUS
  <2>4. /\ h \in Seq(Samples) /\ h # <<>> /\ h[Len(h)] = x
        /\ \A back \in Nat \ {0} : back < Len(h) =>
              /\ back - 1 < Len(sampled) /\ h[Len(h) - back] = sampled[Len(sampled) - (back - 1)]
        /\ \A i \in DOMAIN h : h[i] = x \/ \E j \in DOMAIN sampled : h[i] = sampled[j]
    <3>1. h = LastOnes(sampled, x, longest)
      BY <2>1, <2>3
    <3>2. sampled \in Seq(Samples) /\ x \in Samples
      BY <1>3, <1>4
    <3> HIDE LoopAssumption DEF Samples
    <3> QED BY <3>1, <3>2, <1>5, SampleKept
  <2> QED BY <2>2, <2>3, <2>4
<1> DEFINE runs == ~alarmed /\ watch.state = "RUNNING"
<1>11. runs => /\ whole /\ beating /\ ~stop /\ repeats =< MaxRepeated /\ pressures < PressureLimit
  BY <1>3, <1>6
<1> HIDE DEF longest, x, held
<1>12. watch'.state = "RUNNING" => runs /\ watch' = verdict
  BY <1>1, <1>3, <1>8
<1>13. WatchTypes'
  BY <1>1, <1>2, <1>9, <1>10 DEF WatchTypes
<1>14. Counted'
  <2> SUFFICES ASSUME watch'.state = "RUNNING"
               PROVE  /\ \A i \in DOMAIN sampled' : sampled'[i].well
                      /\ watch'.last = sampled'[Len(sampled')].action
                      /\ watch'.repeats \in 1..MaxRepeated /\ watch'.pressures < PressureLimit
                      /\ Len(sampled') > watch'.repeats => sampled'[Len(sampled') - watch'.repeats].action # watch'.last
                      /\ Len(sampled') > watch'.pressures => ~sampled'[Len(sampled') - watch'.pressures].pressed
    BY <1>10 DEF Counted
  <2>1. runs /\ watch' = verdict
    BY <1>12
  <2>2. watch'.last = action /\ watch'.repeats = repeats /\ watch'.pressures = pressures
    BY <1>6, <1>7, <1>8, <1>11, <2>1
  <2>3. /\ \A i \in DOMAIN sampled : sampled[i].well
        /\ sampled = <<>> => watch.repeats = 0 /\ watch.pressures = 0 /\ watch.last = None
        /\ sampled # <<>> =>
              /\ watch.last = sampled[Len(sampled)].action
              /\ watch.repeats \in 1..MaxRepeated /\ watch.pressures < PressureLimit
              /\ Len(sampled) > watch.repeats => sampled[Len(sampled) - watch.repeats].action # watch.last
              /\ Len(sampled) > watch.pressures => ~sampled[Len(sampled) - watch.pressures].pressed
    BY <1>2, <2>1 DEF Counted
  <2>4. \A i \in DOMAIN sampled' : sampled'[i].well
    BY <1>4, <1>10, <1>11, <2>1, <2>3
  <2>5. ASSUME Len(sampled') > repeats PROVE sampled'[Len(sampled') - repeats].action # action
    <3>1. repeats - 1 < Len(sampled) /\ sampled'[Len(sampled') - repeats] = sampled[Len(sampled) - (repeats - 1)]
      BY <1>6, <1>10, <2>5
    <3>2. sampled # <<>>
      BY <1>3, <1>6, <3>1
    <3>3. CASE action = watch.last
      <4>1. repeats - 1 = watch.repeats
        BY <1>3, <3>3
      <4> QED BY <2>3, <3>1, <3>2, <3>3, <4>1
    <3>4. CASE action # watch.last
      <4>1. repeats - 1 = 0 /\ Len(sampled) - (repeats - 1) = Len(sampled)
        BY <1>3, <3>4
      <4> QED BY <2>3, <3>1, <3>2, <3>4, <4>1
    <3> QED BY <3>3, <3>4
  <2>6. ASSUME Len(sampled') > pressures PROVE ~sampled'[Len(sampled') - pressures].pressed
    <3>1. CASE ~pressed
      <4>1. pressures = 0 /\ Len(sampled') - pressures = Len(sampled')
        BY <1>10, <3>1
      <4> QED BY <1>4, <1>10, <3>1, <4>1
    <3>2. CASE pressed
      <4>1. pressures \in Nat \ {0} /\ pressures - 1 = watch.pressures
        BY <1>3, <3>2
      <4>2. watch.pressures < Len(sampled) /\ sampled'[Len(sampled') - pressures] = sampled[Len(sampled) - watch.pressures]
        BY <1>10, <2>6, <4>1
      <4>3. sampled # <<>>
        BY <1>3, <4>2
      <4> QED BY <2>3, <4>2, <4>3
    <3> QED BY <3>1, <3>2
  <2>7. repeats \in 1..MaxRepeated /\ pressures < PressureLimit
    BY <1>6, <1>11, <2>1
  <2> QED BY <1>4, <1>10, <2>2, <2>4, <2>5, <2>6, <2>7
<1> QED BY <1>13, <1>14 DEF WatchInv

\* What the counts say of the samples.
LEMMA CountedRunsWell == WatchInv => RunsWhileWell
<1> SUFFICES ASSUME WatchInv, watch.state = "RUNNING" PROVE RunsWhileWell
  BY DEF RunsWhileWell
<1> USE LoopAssumption
<1>1. sampled \in Seq(Samples) /\ Len(sampled) \in Nat /\ watch.repeats \in Nat /\ watch.pressures \in Nat
  BY DEF WatchInv, WatchTypes
<1>2. \A i \in DOMAIN sampled : sampled[i].well
  BY DEF WatchInv, Counted
<1>3. sampled # <<>> =>
              /\ watch.last = sampled[Len(sampled)].action
              /\ watch.repeats \in 1..MaxRepeated /\ watch.pressures < PressureLimit
              /\ Len(sampled) > watch.repeats => sampled[Len(sampled) - watch.repeats].action # watch.last
              /\ Len(sampled) > watch.pressures => ~sampled[Len(sampled) - watch.pressures].pressed
  BY DEF WatchInv, Counted
<1>4. ASSUME Len(sampled) > MaxRepeated
      PROVE  \E i \in Len(sampled) - MaxRepeated .. Len(sampled) : sampled[i].action # sampled[Len(sampled)].action
  <2>1. sampled # <<>>
    BY <1>1, <1>4
  <2>2. Len(sampled) - watch.repeats \in Len(sampled) - MaxRepeated .. Len(sampled)
    BY <1>1, <1>3, <2>1
  <2>3. Len(sampled) > watch.repeats
    BY <1>1, <1>3, <1>4, <2>1
  <2>4. sampled[Len(sampled) - watch.repeats].action # sampled[Len(sampled)].action
    BY <1>3, <2>1, <2>3
  <2> QED BY <2>2, <2>4
<1>5. ASSUME sampled # <<>>, Len(sampled) >= PressureLimit
      PROVE  \E i \in Len(sampled) - PressureLimit + 1 .. Len(sampled) : ~sampled[i].pressed
  <2>1. Len(sampled) - watch.pressures \in Len(sampled) - PressureLimit + 1 .. Len(sampled)
    BY <1>1, <1>3, <1>5
  <2>2. ~sampled[Len(sampled) - watch.pressures].pressed
    BY <1>1, <1>3, <1>5
  <2> QED BY <2>1, <2>2
<1> QED BY <1>2, <1>4, <1>5 DEF RunsWhileWell

-----------------------------------------------------------------------------
LoopInv == GoalInv /\ WatchInv

LEMMA LoopInvInit == LoopInit => LoopInv
<1> SUFFICES ASSUME LoopInit PROVE LoopInv
  OBVIOUS
<1>1. activeGoal = None /\ looped = None /\ watch = FreshWatch /\ sampled = <<>>
  BY DEF LoopInit, GoalInit, WatchInit
<1>2. GoalInv
  BY <1>1 DEF GoalInv, ActiveIsScored, GoalIsWarranted, BestIsPursued, OnlyLocalIsDone
<1>3. WatchInv
  BY <1>1, LoopAssumption DEF WatchInv, WatchTypes, Counted, FreshWatch
<1> QED BY <1>2, <1>3 DEF LoopInv

LEMMA LoopStep == LoopInv /\ [LoopNext]_loopVars => LoopInv'
<1> SUFFICES ASSUME LoopInv, [LoopNext]_loopVars PROVE LoopInv'
  OBVIOUS
<1>1. CASE GoalNext /\ UNCHANGED watchVars
  <2>1. GoalInv'
    BY <1>1, RunOnceKeeps, BetweenRunsKeeps DEF LoopInv, GoalNext
  <2>2. WatchInv'
    BY <1>1 DEF LoopInv, watchVars, WatchInv, WatchTypes, Counted
  <2> QED BY <2>1, <2>2 DEF LoopInv
<1>2. CASE WatchNext /\ UNCHANGED goalVars
  <2>1. WatchInv'
    BY <1>2, SampleKeeps, KillKeeps, FreshIsCounted DEF LoopInv, WatchNext, ResetSafeIdle
  <2>2. GoalInv'
    BY <1>2 DEF LoopInv, goalVars, GoalInv, ActiveIsScored, GoalIsWarranted, BestIsPursued, OnlyLocalIsDone
  <2> QED BY <2>1, <2>2 DEF LoopInv
<1>3. CASE UNCHANGED loopVars
  BY <1>3 DEF LoopInv, loopVars, GoalInv, ActiveIsScored, GoalIsWarranted, BestIsPursued, OnlyLocalIsDone,
     WatchInv, WatchTypes, Counted
<1> QED BY <1>1, <1>2, <1>3 DEF LoopNext

LEMMA LoopInvGives == LoopInv => LoopTypeOK /\ GoalIsWarranted /\ BestIsPursued /\ OnlyLocalIsDone /\ RunsWhileWell
<1>1. LoopInv => RunsWhileWell
  BY CountedRunsWell DEF LoopInv
<1>2. LoopInv => LoopTypeOK
  <2> SUFFICES ASSUME LoopInv PROVE LoopTypeOK
    OBVIOUS
  <2>1. activeGoal # None => activeGoal.status \in {"ACTIVE", "PAUSED"} /\ activeGoal.score \in 0..1000
    BY DEF LoopInv, GoalInv, ActiveIsScored, ScoresOf
  <2> QED BY <2>1 DEF LoopInv, WatchInv, WatchTypes, LoopTypeOK
<1> QED BY <1>1, <1>2 DEF LoopInv, GoalInv

\* For any roles, wishes, plans, samples and limits: the goal that is pursued is allowed, current and
\* the best there is, only what is local is done, and the watchdog lets go on what goes well.
THEOREM GoalsAreWarranted == LoopSpec => [](LoopTypeOK /\ GoalIsWarranted /\ BestIsPursued /\ OnlyLocalIsDone /\ RunsWhileWell)
  BY LoopInvInit, LoopStep, LoopInvGives, PTL DEF LoopSpec

-----------------------------------------------------------------------------
(* Initiative                                                              *)

\* Numbers that are bounded have a greatest.
LEMMA SomeIsGreatest ==
    ASSUME NEW n \in Nat, NEW S \in SUBSET (1..n), S # {}
    PROVE  Max(S) \in S /\ \A k \in S : k =< Max(S)
<1> DEFINE Below == {n - k : k \in S}
<1>1. Below \in SUBSET Nat /\ Below # {}
  <2>1. \A k \in S : n - k \in Nat
    OBVIOUS
  <2> QED BY <2>1
<1>2. PICK b \in Below : \A d \in Below : b =< d
  <2> HIDE DEF Below
  <2> QED BY <1>1, LeastNumber
<1>3. PICK m \in S : b = n - m
  BY <1>2
<1>4. \A k \in S : m >= k
  BY <1>2, <1>3
<1> QED BY <1>4 DEF Max

\* Whoever is of one kind of the members of a set is one of few.
LEMMA ImagesAreFinite ==
    ASSUME NEW n \in Nat, NEW f, DOMAIN f \in SUBSET (1..n), NEW values, values = Range(f)
    PROVE  /\ IsFiniteSet(values) /\ Cardinality(values) \in Nat
           /\ (Cardinality(values) = 1 <=> \E v : values = {v})
           /\ (Cardinality(values) = 0 <=> values = {})
<1> DEFINE X == DOMAIN f
<1>1. IsFiniteSet(X)
  <2>1. IsFiniteSet(1..n)
    BY FS_Interval
  <2> QED BY <2>1, FS_Subset
<1>2. [i \in X |-> f[i]] \in Surjection(X, values)
  BY DEF Surjection, Range
<1>3. IsFiniteSet(values)
  BY <1>1, <1>2, FS_Surjection
<1> QED BY <1>3, FS_Singleton, FS_EmptySet, FS_CardinalityType

\* Every event is lawful and names only earlier ones.
EventsInOrder ==
    /\ Listed(events)
    /\ \A i \in DOMAIN events : LawfulSaying(events[i]) /\ events[i].names \subseteq 1..i - 1

\* Of the events of a set the last is not outdated, and what is outdated was corrected in it.
LEMMA LastStands ==
    ASSUME EventsInOrder, NEW S \in SUBSET DOMAIN events
    PROVE  /\ S # {} => Max(S) \in NotSuperseded(S) /\ \A k \in S : k =< Max(S)
           /\ NotSuperseded(S) \subseteq S
           /\ \A i \in S : i \notin NotSuperseded(S) =>
                 \E c \in S : Explicit(events[c]) /\ i \in events[c].names /\ c > i
<1>1. Len(events) \in Nat /\ DOMAIN events = 1..Len(events)
  BY DEF EventsInOrder, Listed
<1>2. \A c \in S : \A i \in S : i \in events[c].names => c > i
  BY <1>1 DEF EventsInOrder
<1>3. \A i \in S : i \notin NotSuperseded(S) => \E c \in S : Explicit(events[c]) /\ i \in events[c].names /\ c > i
  BY <1>2 DEF NotSuperseded
<1>4. ASSUME S # {} PROVE Max(S) \in NotSuperseded(S) /\ \A k \in S : k =< Max(S)
  <2>1. Max(S) \in S /\ \A k \in S : k =< Max(S)
    BY <1>1, <1>4, SomeIsGreatest
  <2> DEFINE m == Max(S)
  <2> HIDE DEF m
  <2>2. m \in S /\ \A k \in S : k \in Int /\ m \in Int /\ k =< m
    BY <1>1, <2>1 DEF m
  <2>3. m \in NotSuperseded(S)
    BY <1>3, <2>2
  <2> QED BY <2>1, <2>3 DEF m
<1>5. NotSuperseded(S) \subseteq S
  BY DEF NotSuperseded
<1> QED BY <1>3, <1>4, <1>5

LEMMA KnownAreEvents ==
    ASSUME NEW when
    PROVE  /\ KnownBy(when) \subseteq DOMAIN events
           /\ \A category, key : About(KnownBy(when), category, key) \subseteq KnownBy(when)
           /\ \A set : Said(set) \subseteq set /\ Witnessed(set) \subseteq set
  BY DEF KnownBy, About, Said, Witnessed

LEMMA BoundaryStays ==
    ASSUME EventsInOrder, NEW known \in SUBSET DOMAIN events, NEW key,
           NEW set, set = Said({i \in About(known, "boundary", key) : events[i].op = "enforce"}), set # {}, ~Enforced(known, key)
    PROVE  \E i \in About(known, "boundary", key) : i > Max(set) /\ events[i].op = "relax" /\ Explicit(events[i])
<1>1. set \in SUBSET DOMAIN events /\ Enforcements(known, key) = NotSuperseded(set)
  BY DEF Said, About, Enforcements
<1>2. Max(set) \in NotSuperseded(set)
  BY <1>1, LastStands
<1>3. PICK i \in About(known, "boundary", key) : Relaxes(i, Enforcements(known, key))
  BY <1>1, <1>2 DEF Enforced
<1>4. events[i].op = "relax" /\ Explicit(events[i]) /\ Max(set) \in events[i].names
  BY <1>1, <1>2, <1>3 DEF Relaxes
<1>5. i \in DOMAIN events /\ DOMAIN events = 1..Len(events) /\ Len(events) \in Nat /\ events[i].names \subseteq 1..i - 1
  BY <1>3 DEF EventsInOrder, Listed, About
<1> DEFINE m == Max(set)
<1> HIDE DEF m
<1>6. m \in 1..i - 1 /\ i \in Nat
  BY <1>4, <1>5 DEF m
<1>7. i > m
  BY <1>6
<1> QED BY <1>3, <1>4, <1>7 DEF m

LEMMA BoundaryGives ==
    ASSUME EventsInOrder, NEW known \in SUBSET DOMAIN events, NEW i \in known,
           events[i].op = "relax", events[i].sure, Explicit(events[i]),
           Said({e \in About(known, "boundary", events[i].key) : events[e].op = "enforce"}) \subseteq events[i].names
    PROVE  ~Enforced(known, events[i].key)
<1>1. events[i].category = "boundary"
  BY DEF EventsInOrder, LawfulSaying
<1>2. i \in About(known, "boundary", events[i].key)
  BY <1>1 DEF About
<1>3. Enforcements(known, events[i].key) \subseteq events[i].names
  BY DEF Enforcements, NotSuperseded
<1>4. Enforcements(known, events[i].key) # {} => Relaxes(i, Enforcements(known, events[i].key))
  BY <1>3 DEF Relaxes
<1> QED BY <1>2, <1>4 DEF Enforced

\* Values of events.
LEMMA OneValue ==
    ASSUME EventsInOrder, NEW X \in SUBSET DOMAIN events, NEW values, values = {events[i].value : i \in X}
    PROVE  Cardinality(values) = 1 <=> \E v : values = {v}
<1>1. Len(events) \in Nat /\ X \in SUBSET (1..Len(events))
  BY DEF EventsInOrder, Listed
<1> DEFINE f == [k \in X |-> events[k].value]
<1>2. values = Range(f) /\ DOMAIN f = X
  BY DEF Range
<1> HIDE DEF f
<1> QED BY <1>1, <1>2, ImagesAreFinite

LEMMA PreferenceIsOne ==
    ASSUME EventsInOrder, NEW known \in SUBSET DOMAIN events, NEW key
    PROVE  LET said == Said(About(known, "preference", key))
           IN /\ Preference(known, key) # None =>
                    /\ \E i \in said : events[i].value = Preference(known, key)
                    /\ \A i \in said : events[i].value = Preference(known, key) \/ CorrectedBy(i, known)
              /\ \A v : said # {} /\ (\A i \in said : events[i].value = v) => Preference(known, key) = v
<1> DEFINE said == Said(About(known, "preference", key))
           left == NotSuperseded(said)
           values == {events[i].value : i \in left}
<1>1. said \in SUBSET DOMAIN events /\ said \subseteq known /\ \A i \in said : events[i].sure
  BY DEF Said, About
<1>2. Preference(known, key) = IF Cardinality(values) = 1 THEN CHOOSE v \in values : TRUE ELSE None
  BY DEF Preference
<1> HIDE DEF said
<1>3. /\ said # {} => left # {}
      /\ left \subseteq said
      /\ \A i \in said : i \notin left => \E c \in said : Explicit(events[c]) /\ i \in events[c].names /\ c > i
  BY <1>1, LastStands
<1>4. Cardinality(values) = 1 <=> \E v : values = {v}
  BY <1>1, <1>3, OneValue
<1>5. ASSUME Preference(known, key) # None
      PROVE  /\ \E i \in said : events[i].value = Preference(known, key)
             /\ \A i \in said : events[i].value = Preference(known, key) \/ CorrectedBy(i, known)
  <2>1. PICK v : values = {v}
    BY <1>2, <1>4, <1>5
  <2>2. Preference(known, key) = v
    BY <1>2, <1>4, <2>1
  <2>3. \A i \in left : events[i].value = v
    BY <2>1
  <2>4. \E i \in left : events[i].value = v
    BY <2>1
  <2>5. \A i \in said : i \notin left => CorrectedBy(i, known)
    BY <1>1, <1>3 DEF CorrectedBy
  <2> QED BY <1>3, <2>2, <2>3, <2>4, <2>5
<1>6. ASSUME NEW v, said # {}, \A i \in said : events[i].value = v PROVE Preference(known, key) = v
  <2>1. values = {v}
    BY <1>3, <1>6
  <2> HIDE DEF values
  <2> QED BY <1>2, <1>4, <2>1
<1> QED BY <1>5, <1>6 DEF said

\* The outcome that counts is the only one of those that nobody took back.
LEMMA OutcomeIsOne ==
    ASSUME EventsInOrder, NEW known \in SUBSET DOMAIN events, NEW key,
           PromiseStatus(known, key) \in {"fulfill", "breach", "cancel"},
           NEW i \in Witnessed(About(known, "promise", key)),
           events[i].op \notin {"open", PromiseStatus(known, key)}, events[i].target = Max(Openings(known, key))
    PROVE  CorrectedBy(i, known)
<1> DEFINE opened == Max(Openings(known, key))
           ended == Witnessed({j \in About(known, "promise", key) :
                       events[j].op \in {"fulfill", "breach", "cancel"} /\ events[j].target = opened})
           left == NotSuperseded(ended)
           outcomes == {events[j].op : j \in left}
<1>1. ended \in SUBSET DOMAIN events /\ ended \subseteq known /\ \A j \in ended : events[j].sure
  BY DEF Witnessed, About
<1>2. OutcomesOf(known, key, opened) = outcomes
  BY DEF OutcomesOf
<1>3. i \in ended
  <2>1. i \in About(known, "promise", key) /\ events[i].sure /\ events[i].state \in {"observation", "confirmation", "correction"}
    BY DEF Witnessed
  <2>2. events[i].category = "promise" /\ i \in DOMAIN events
    BY <2>1 DEF About
  <2>3. events[i].op \in {"fulfill", "breach", "cancel"}
    BY <2>2 DEF EventsInOrder, LawfulSaying
  <2> QED BY <2>1, <2>3 DEF Witnessed
<1> HIDE DEF ended
<1>4. /\ left \subseteq ended
      /\ i \notin left => \E c \in ended : Explicit(events[c]) /\ i \in events[c].names /\ c > i
  BY <1>1, <1>3, LastStands
<1>5. /\ IsFiniteSet(outcomes) /\ Cardinality(outcomes) \in Nat
      /\ (Cardinality(outcomes) = 1 <=> \E v : outcomes = {v}) /\ (Cardinality(outcomes) = 0 <=> outcomes = {})
  <2> DEFINE f == [j \in left |-> events[j].op]
  <2>1. outcomes = Range(f) /\ DOMAIN f = left
    BY DEF Range
  <2>2. Len(events) \in Nat /\ left \in SUBSET (1..Len(events))
    BY <1>1, <1>4 DEF EventsInOrder, Listed
  <2> HIDE DEF f, left, outcomes
  <2> QED BY <2>1, <2>2, ImagesAreFinite
<1> HIDE DEF outcomes
<1>6. /\ Cardinality(outcomes) \in Nat /\ ~(Cardinality(outcomes) > 1) /\ outcomes # {}
      /\ PromiseStatus(known, key) = CHOOSE o \in outcomes : TRUE
  <2>1. PromiseStatus(known, key) # None /\ PromiseStatus(known, key) # "open"
    BY InitiativeAssumption
  <2>2. PromiseStatus(known, key) =
           IF Openings(known, key) = {} \/ Cardinality({events[j].value : j \in Openings(known, key)}) # 1 \/ Cardinality(outcomes) > 1 THEN None
           ELSE IF outcomes = {} THEN "open" ELSE CHOOSE o \in outcomes : TRUE
    BY <1>2 DEF PromiseStatus
  <2> QED BY <1>5, <2>1, <2>2
<1>7. Cardinality(outcomes) = 1
  BY <1>5, <1>6
<1>8. PICK v : outcomes = {v}
  BY <1>5, <1>7
<1>9. PromiseStatus(known, key) = v
  BY <1>6, <1>8
<1>10. i \notin left
  <2> SUFFICES ASSUME i \in left PROVE FALSE
    OBVIOUS
  <2>1. events[i].op \in outcomes
    BY DEF outcomes
  <2> QED BY <1>8, <1>9, <2>1
<1> QED BY <1>1, <1>4, <1>10 DEF CorrectedBy

\* By the day: she is quiet in the hours since the quiet began that it has.
LEMMA QuietIsItsLength ==
    ASSUME NEW quiet \in DOMAIN QuietSpans, NEW at \in Nat
    PROVE  HoursInto(quiet, at) < QuietLength(quiet) => IsQuiet(quiet, at)
<1> DEFINE from == QuietSpans[quiet].from
           until == QuietSpans[quiet].until
           clock == at % Day
<1>1. from \in 0..Day - 1 /\ until \in 0..Day - 1 /\ Day \in Nat \ {0} /\ quiet # None
  BY InitiativeAssumption
<1>2. clock \in 0..Day - 1
  BY <1>1
<1> HIDE DEF clock
<1>3. /\ HoursInto(quiet, at) = (IF clock - from < 0 THEN clock - from + Day ELSE clock - from)
      /\ QuietLength(quiet) = (IF until - from > 0 THEN until - from ELSE until - from + Day)
  BY DEF HoursInto, QuietLength, clock
<1>4. IsQuiet(quiet, at) = \/ from = until
                           \/ from < until /\ clock \in from .. until - 1
                           \/ from > until /\ clock \notin until .. from - 1
  BY <1>1 DEF IsQuiet, clock
<1> HIDE DEF from, until
<1> SUFFICES ASSUME HoursInto(quiet, at) < QuietLength(quiet)
             PROVE  \/ from = until
                    \/ from < until /\ clock \in from .. until - 1
                    \/ from > until /\ clock \notin until .. from - 1
  BY <1>4
<1>5. CASE from < until
  BY <1>1, <1>2, <1>3, <1>5
<1>6. CASE from > until
  BY <1>1, <1>2, <1>3, <1>6
<1> QED BY <1>1, <1>5, <1>6

\* A boundary that is set and that nobody has spoken against since is in force.
LEMMA StandingIsEnforced ==
    ASSUME EventsInOrder, NEW known \in SUBSET DOMAIN events, NEW key, ~Enforced(known, key)
    PROVE  {i \in Said(About(known, "boundary", key)) : events[i].op = "enforce"
               /\ ~\E r \in known : r > i /\ Explicit(events[r])} = {}
<1> DEFINE set == Said({i \in About(known, "boundary", key) : events[i].op = "enforce"})
<1> SUFFICES ASSUME NEW i \in Said(About(known, "boundary", key)), events[i].op = "enforce",
                    ~\E r \in known : r > i /\ Explicit(events[r])
             PROVE  FALSE
  OBVIOUS
<1>1. i \in set
  BY DEF Said
<1>2. \E r \in About(known, "boundary", key) : r > Max(set) /\ events[r].op = "relax" /\ Explicit(events[r])
  BY <1>1, BoundaryStays
<1>3. set \in SUBSET DOMAIN events /\ DOMAIN events = 1..Len(events) /\ Len(events) \in Nat
  BY DEF Said, About, EventsInOrder, Listed
<1>4. Max(set) \in Nat /\ i \in Nat /\ i =< Max(set)
  <2> HIDE DEF set
  <2>1. Max(set) \in set /\ i =< Max(set)
    BY <1>1, <1>3, SomeIsGreatest
  <2> QED BY <1>1, <1>3, <2>1
<1>5. PICK r \in known : r \in Nat /\ r > Max(set) /\ Explicit(events[r])
  <2> HIDE DEF set
  <2>1. About(known, "boundary", key) \subseteq known /\ \A r \in known : r \in Nat
    BY <1>3 DEF About
  <2> QED BY <1>2, <2>1
<1>6. r > i
  <2> HIDE DEF set
  <2> QED BY <1>4, <1>5
<1> QED BY <1>5, <1>6

-----------------------------------------------------------------------------
\* What an initiative was decided on.
MaySpeak(d) ==
    LET known == KnownBy(d.at)
    IN /\ d.at \in Nat /\ d.cooldown \in Nat
       /\ ~Enforced(known, "no_proactive_interruptions")
       /\ d.offer.voice => ~Enforced(known, "no_voice_interruptions")
       /\ d.offer.type = "safety_alert" => ~Enforced(known, "no_safety_alerts")
       /\ Setting(known, "proactive_policy", "off") # "off"
       /\ ~Overrides(d.offer) => ~IsQuiet(Setting(known, "quiet_hours_local", None), d.at)
TriggersSpaced ==
    /\ Listed(triggers)
    /\ \A i \in DOMAIN triggers : triggers[i].at \in Nat /\ triggers[i].cooldown \in Nat
    /\ InitiativesAreSpaced
WelcomeInv ==
    /\ hour \in Nat /\ EventsInOrder /\ TriggersSpaced
    /\ offered # None => MaySpeak(offered)

LEMMA WelcomeIfPermitted ==
    ASSUME EventsInOrder, offered # None => MaySpeak(offered) PROVE InitiativesAreWelcome
<1> SUFFICES ASSUME offered # None PROVE InitiativesAreWelcome
  BY DEF InitiativesAreWelcome
<1> DEFINE known == KnownBy(offered.at)
           StandingNow(key) == {i \in Said(About(known, "boundary", key)) : events[i].op = "enforce"
                                 /\ ~\E r \in known : r > i /\ Explicit(events[r])}
           policies == Said(About(known, "preference", "proactive_policy"))
           quiets == Said(About(known, "preference", "quiet_hours_local"))
<1>1. /\ offered.at \in Nat
      /\ ~Enforced(known, "no_proactive_interruptions")
      /\ offered.offer.voice => ~Enforced(known, "no_voice_interruptions")
      /\ offered.offer.type = "safety_alert" => ~Enforced(known, "no_safety_alerts")
      /\ Setting(known, "proactive_policy", "off") # "off"
      /\ ~Overrides(offered.offer) => ~IsQuiet(Setting(known, "quiet_hours_local", None), offered.at)
  BY DEF MaySpeak
<1>2. known \in SUBSET DOMAIN events
  BY DEF KnownBy
<1>3. /\ StandingNow("no_proactive_interruptions") = {}
      /\ offered.offer.voice => StandingNow("no_voice_interruptions") = {}
      /\ offered.offer.type = "safety_alert" => StandingNow("no_safety_alerts") = {}
  BY <1>1, <1>2, StandingIsEnforced
<1>4. \E i \in policies : events[i].value \in {"allow", "important_only"}
  <2>1. Preference(known, "proactive_policy") # None /\ Preference(known, "proactive_policy") # "off"
    BY <1>1 DEF Setting
  <2>2. PICK i \in policies : events[i].value = Preference(known, "proactive_policy")
    BY <1>2, <2>1, PreferenceIsOne
  <2>3. i \in DOMAIN events /\ events[i].category = "preference" /\ events[i].key = "proactive_policy"
    BY <1>2 DEF Said, About
  <2>4. events[i].value \in {"allow", "important_only", "off"}
    BY <2>3 DEF EventsInOrder, LawfulSaying
  <2> QED BY <2>1, <2>2, <2>4
<1>5. ASSUME NEW i \in quiets, events[i].value # None, HoursInto(events[i].value, offered.at) < QuietLength(events[i].value)
      PROVE  \/ Overrides(offered.offer)
             \/ \E e \in quiets : events[e].value # events[i].value
  <2> SUFFICES ASSUME ~Overrides(offered.offer), \A e \in quiets : events[e].value = events[i].value PROVE FALSE
    OBVIOUS
  <2>1. Preference(known, "quiet_hours_local") = events[i].value
    BY <1>2, PreferenceIsOne
  <2>2. i \in DOMAIN events /\ events[i].category = "preference" /\ events[i].key = "quiet_hours_local"
    BY <1>2 DEF Said, About
  <2>3. events[i].value \in DOMAIN QuietSpans
    BY <1>5, <2>2 DEF EventsInOrder, LawfulSaying
  <2>4. IsQuiet(events[i].value, offered.at)
    BY <1>1, <1>5, <2>3, QuietIsItsLength
  <2>5. Setting(known, "quiet_hours_local", None) = events[i].value
    BY <1>5, <2>1 DEF Setting
  <2> QED BY <1>1, <2>4, <2>5
<1> QED BY <1>3, <1>4, <1>5 DEF InitiativesAreWelcome

LEMMA WelcomeInvGives ==
    ASSUME WelcomeInv
    PROVE  BoundariesStay /\ BoundariesGive /\ OnlyUndisputedCounts /\ InitiativesAreWelcome /\ InitiativesAreSpaced
<1>1. EventsInOrder
  BY DEF WelcomeInv
<1>2. BoundariesStay
  BY <1>1, BoundaryStays, KnownAreEvents DEF BoundariesStay, Said
<1>3. BoundariesGive
  BY <1>1, BoundaryGives, KnownAreEvents DEF BoundariesGive
<1>4. OnlyUndisputedCounts
  <2> SUFFICES ASSUME NEW when \in 0..hour, NEW key \in {events[i].key : i \in DOMAIN events}
               PROVE  LET known == KnownBy(when)
                      IN /\ Preference(known, key) # None =>
                               \A i \in Said(About(known, "preference", key)) : events[i].value = Preference(known, key) \/ CorrectedBy(i, known)
                         /\ PromiseStatus(known, key) \in {"fulfill", "breach", "cancel"} =>
                               \A i \in Witnessed(About(known, "promise", key)) :
                                   events[i].op \notin {"open", PromiseStatus(known, key)} =>
                                       CorrectedBy(i, known) \/ events[i].target # Max(Openings(known, key))
    BY DEF OnlyUndisputedCounts
  <2>1. KnownBy(when) \in SUBSET DOMAIN events
    BY KnownAreEvents
  <2> QED BY <1>1, <2>1, PreferenceIsOne, OutcomeIsOne
<1> QED BY <1>1, <1>2, <1>3, <1>4, WelcomeIfPermitted DEF WelcomeInv, TriggersSpaced

-----------------------------------------------------------------------------
LEMMA RecordEventKeeps == ASSUME WelcomeInv, RecordEvent PROVE WelcomeInv'
<1>1. PICK s \in Sayings, at \in 0..hour, target \in DOMAIN events \cup {None}, names \in SUBSET DOMAIN events :
         events' = Append(events, [category |-> s.category, key |-> s.key, op |-> s.op, value |-> s.value, state |-> s.state,
                                   sure |-> s.sure, at |-> at, names |-> names, target |-> target])
  BY DEF RecordEvent
<1> DEFINE e == [category |-> s.category, key |-> s.key, op |-> s.op, value |-> s.value, state |-> s.state,
                 sure |-> s.sure, at |-> at, names |-> names, target |-> target]
<1>2. /\ e.category = s.category /\ e.key = s.key /\ e.op = s.op /\ e.value = s.value /\ e.names = names
  OBVIOUS
<1>3. events' = Append(events, e) /\ hour' = hour /\ triggers' = triggers /\ offered' = None
  BY <1>1 DEF RecordEvent
<1> HIDE DEF e
<1>4. LawfulSaying(e)
  BY <1>2, InitiativeAssumption DEF LawfulSaying
<1>5. Listed(events) /\ \A i \in DOMAIN events : LawfulSaying(events[i]) /\ events[i].names \subseteq 1..i - 1
  BY DEF WelcomeInv, EventsInOrder
<1> DEFINE n == Len(events)
<1>6. /\ Listed(events') /\ n \in Nat /\ DOMAIN events = 1..n /\ DOMAIN events' = 1..(n + 1)
      /\ \A i \in DOMAIN events : events'[i] = events[i]
      /\ events'[n + 1] = e
  BY <1>3, <1>5, EntryAdded
<1> HIDE DEF n
<1>7. ASSUME NEW i \in DOMAIN events' PROVE LawfulSaying(events'[i]) /\ events'[i].names \subseteq 1..i - 1
  <2>1. CASE i \in DOMAIN events
    BY <1>5, <1>6, <2>1
  <2>2. CASE i = n + 1
    <3>1. names \subseteq 1..i - 1
      BY <1>6, <2>2
    <3> QED BY <1>2, <1>4, <1>6, <2>2, <3>1
  <2> QED BY <1>6, <1>7, <2>1, <2>2
<1>8. EventsInOrder'
  BY <1>6, <1>7 DEF EventsInOrder, LawfulSaying
<1> QED BY <1>3, <1>8 DEF WelcomeInv, TriggersSpaced, InitiativesAreSpaced, Listed

\* A setting that is a number.
LEMMA CooldownIsNumber ==
    ASSUME EventsInOrder, NEW known \in SUBSET DOMAIN events
    PROVE  Setting(known, "proactive_cooldown_seconds", DefaultCooldown) \in Nat
<1>1. CASE Preference(known, "proactive_cooldown_seconds") = None
  BY <1>1, InitiativeAssumption DEF Setting
<1>2. CASE Preference(known, "proactive_cooldown_seconds") # None
  <2>1. PICK i \in Said(About(known, "preference", "proactive_cooldown_seconds")) :
           events[i].value = Preference(known, "proactive_cooldown_seconds")
    BY <1>2, PreferenceIsOne
  <2>2. i \in DOMAIN events /\ events[i].category = "preference" /\ events[i].key = "proactive_cooldown_seconds"
    BY DEF Said, About
  <2>3. events[i].value \in Nat
    BY <2>2 DEF EventsInOrder, LawfulSaying
  <2> QED BY <1>2, <2>1, <2>3 DEF Setting
<1> QED BY <1>1, <1>2

\* A trigger after the pause since the latest before it is after the pause since them all.
LEMMA PauseSinceAll ==
    ASSUME TriggersSpaced, NEW at \in Nat, NEW cooldown \in Nat, ~CoolsDown(at, cooldown),
           NEW i \in DOMAIN triggers, triggers[i].at < at
    PROVE  at - triggers[i].at >= cooldown
<1> DEFINE before == {triggers[k].at : k \in DOMAIN triggers} \cap 0 .. at - 1
<1>1. triggers[i].at \in Nat
  BY DEF TriggersSpaced
<1>2. triggers[i].at \in before /\ before \in SUBSET Nat
  BY <1>1
<1>3. ~(before # {} /\ at - Max(before) < cooldown)
  BY DEF CoolsDown
<1>4. \A x \in before : x \in Nat /\ x < at
  OBVIOUS
<1> HIDE DEF before
<1>5. Max(before) \in before /\ triggers[i].at =< Max(before)
  <2> DEFINE Backward == {at - x : x \in before}
  <2>1. Backward \in SUBSET Nat /\ Backward # {}
    <3>1. \A x \in before : at - x \in Nat
      BY <1>4
    <3> QED BY <1>2, <3>1
  <2>2. PICK b \in Backward : \A d \in Backward : b =< d
    <3> HIDE DEF Backward
    <3> QED BY <2>1, LeastNumber
  <2>3. PICK m \in before : b = at - m
    BY <2>2
  <2>4. \A x \in before : m >= x
    <3>1. ASSUME NEW x \in before PROVE m >= x
      <4>1. at - m =< at - x
        BY <2>2, <2>3
      <4>2. m \in Nat /\ x \in Nat
        BY <1>4
      <4> QED BY <4>1, <4>2
    <3> QED BY <3>1
  <2>5. Max(before) \in before /\ \A x \in before : Max(before) >= x
    BY <2>4 DEF Max
  <2> QED BY <1>1, <1>2, <1>4, <2>5
<1> DEFINE m == Max(before)
           a == triggers[i].at
<1>6. m \in Nat /\ a \in Nat /\ a =< m /\ ~(at - m < cooldown)
  BY <1>1, <1>3, <1>4, <1>5
<1> HIDE DEF m, a
<1>7. at - a >= cooldown
  BY <1>6
<1> QED BY <1>7 DEF a

\* What was permitted stays so while nothing is said.
LEMMA PermittedStays ==
    ASSUME events' = events, NEW d, MaySpeak(d), offered' = d
    PROVE  MaySpeak(offered)'
<1>1. \A when : KnownBy(when)' = KnownBy(when)
  BY DEF KnownBy
<1>2. \A known, category, key : About(known, category, key)' = About(known, category, key)
  BY DEF About
<1>3. \A set : Said(set)' = Said(set)
  BY DEF Said
<1>4. \A set : NotSuperseded(set)' = NotSuperseded(set)
  BY DEF NotSuperseded
<1>5. \A known, key : Enforcements(known, key)' = Enforcements(known, key)
  BY DEF Enforcements, About, Said, NotSuperseded
<1>6. \A i, enforcements : Relaxes(i, enforcements)' <=> Relaxes(i, enforcements)
  BY DEF Relaxes
<1>7. \A known, key : Enforced(known, key)' <=> Enforced(known, key)
  BY <1>2, <1>5, <1>6 DEF Enforced
<1>8. \A known, key : Preference(known, key)' = Preference(known, key)
  BY DEF Preference, About, Said, NotSuperseded
<1>9. \A known, key, default : Setting(known, key, default)' = Setting(known, key, default)
  BY <1>8 DEF Setting
<1> QED BY <1>1, <1>7, <1>9 DEF MaySpeak

LEMMA DecideKeeps == ASSUME WelcomeInv, Decide PROVE WelcomeInv'
<1>1. PICK o \in FirstOffers, at \in {hour - 1, hour} \cap Nat :
          LET known    == KnownBy(at)
              decision == [offer |-> o, at |-> at, cooldown |-> Setting(known, "proactive_cooldown_seconds", DefaultCooldown)]
          IN /\ offered' = IF HeldBack(o, known, at) THEN None ELSE decision
             /\ triggers' = IF HeldBack(o, known, at) THEN triggers ELSE Append(triggers, decision)
  BY DEF Decide
<1> DEFINE known    == KnownBy(at)
           cooldown == Setting(known, "proactive_cooldown_seconds", DefaultCooldown)
           decision == [offer |-> o, at |-> at, cooldown |-> cooldown]
<1>2. hour' = hour /\ events' = events
  BY DEF Decide
<1>3. decision.offer = o /\ decision.at = at /\ decision.cooldown = cooldown
  OBVIOUS
<1>4. EventsInOrder /\ hour \in Nat /\ TriggersSpaced
  BY DEF WelcomeInv
<1>5. cooldown \in Nat /\ at \in Nat
  BY <1>4, KnownAreEvents, CooldownIsNumber
<1>6. EventsInOrder' /\ hour' \in Nat
  BY <1>2, <1>4 DEF EventsInOrder, Listed
<1>7. CASE HeldBack(o, known, at)
  <2>1. offered' = None /\ triggers' = triggers
    BY <1>1, <1>7
  <2> QED BY <1>4, <1>6, <2>1 DEF WelcomeInv, TriggersSpaced, InitiativesAreSpaced, Listed
<1>8. CASE ~HeldBack(o, known, at)
  <2>1. offered' = decision /\ triggers' = Append(triggers, decision)
    BY <1>1, <1>8
  <2>2. /\ ~Enforced(known, "no_proactive_interruptions")
        /\ o.voice => ~Enforced(known, "no_voice_interruptions")
        /\ o.type = "safety_alert" => ~Enforced(known, "no_safety_alerts")
        /\ Setting(known, "proactive_policy", "off") # "off"
        /\ ~Overrides(o) => /\ ~IsQuiet(Setting(known, "quiet_hours_local", None), at)
                            /\ ~CoolsDown(at, cooldown)
    BY <1>8 DEF HeldBack
  <2>3. \A when : KnownBy(when)' = KnownBy(when)
    BY <1>2 DEF KnownBy
  <2> HIDE DEF decision
  <2>4. MaySpeak(decision)
    BY <1>3, <1>5, <2>2 DEF MaySpeak
  <2>5. offered' # None => MaySpeak(offered)'
    <3>1. PICK d : d = decision
      OBVIOUS
    <3>2. MaySpeak(d)
      BY <2>4, <3>1
    <3> QED BY <1>2, <2>1, <3>1, <3>2, PermittedStays
  <2>6. Listed(triggers)
    BY <1>4 DEF TriggersSpaced
  <2> DEFINE n == Len(triggers)
  <2>7. /\ Listed(triggers') /\ n \in Nat /\ DOMAIN triggers = 1..n /\ DOMAIN triggers' = 1..(n + 1)
        /\ \A i \in DOMAIN triggers : triggers'[i] = triggers[i]
        /\ triggers'[n + 1] = decision
    BY <2>1, <2>6, EntryAdded
  <2> HIDE DEF n
  <2>8. ASSUME NEW i \in DOMAIN triggers' PROVE triggers'[i].at \in Nat /\ triggers'[i].cooldown \in Nat
    <3>1. CASE i \in DOMAIN triggers
      BY <1>4, <2>7, <3>1 DEF TriggersSpaced
    <3>2. CASE i = n + 1
      BY <1>3, <1>5, <2>7, <3>2
    <3> QED BY <2>7, <2>8, <3>1, <3>2
  <2>9. ASSUME NEW i \in DOMAIN triggers', NEW j \in DOMAIN triggers', i < j, triggers'[i].at < triggers'[j].at
        PROVE  Overrides(triggers'[j].offer) \/ triggers'[j].at - triggers'[i].at >= triggers'[j].cooldown
    <3>1. i \in DOMAIN triggers
      BY <2>7, <2>9
    <3>2. CASE j \in DOMAIN triggers
      BY <1>4, <2>7, <2>9, <3>1, <3>2 DEF TriggersSpaced, InitiativesAreSpaced
    <3>3. CASE j = n + 1
      <4>1. triggers'[j] = decision /\ triggers'[i] = triggers[i]
        BY <2>7, <3>1, <3>3
      <4>2. CASE Overrides(o)
        BY <1>3, <4>1, <4>2
      <4>3. CASE ~Overrides(o)
        <5>1. ~CoolsDown(at, cooldown) /\ triggers[i].at < at
          BY <1>3, <2>2, <2>9, <4>1, <4>3
        <5>2. at - triggers[i].at >= cooldown
          BY <1>4, <1>5, <3>1, <5>1, PauseSinceAll
        <5> QED BY <1>3, <4>1, <5>2
      <4> QED BY <4>2, <4>3
    <3> QED BY <2>7, <2>9, <3>2, <3>3
  <2>10. TriggersSpaced'
    BY <2>7, <2>8, <2>9 DEF TriggersSpaced, InitiativesAreSpaced
  <2> QED BY <1>6, <2>5, <2>10 DEF WelcomeInv
<1> QED BY <1>7, <1>8

LEMMA WelcomeInvInit == InitiativeInit => WelcomeInv
<1> SUFFICES ASSUME InitiativeInit PROVE WelcomeInv
  OBVIOUS
<1>1. hour = 0 /\ events = Beginning /\ triggers = <<>> /\ offered = None
  BY DEF InitiativeInit
<1>2. EventsInOrder
  BY <1>1, InitiativeAssumption DEF EventsInOrder, Listed
<1>3. Listed(<<>>) /\ DOMAIN <<>> = {}
  BY DEF Listed
<1> QED BY <1>1, <1>2, <1>3 DEF WelcomeInv, TriggersSpaced, InitiativesAreSpaced

LEMMA WelcomeStep == WelcomeInv /\ [InitiativeNext]_initiativeVars => WelcomeInv'
<1> SUFFICES ASSUME WelcomeInv, [InitiativeNext]_initiativeVars PROVE WelcomeInv'
  OBVIOUS
<1>1. CASE HourPasses
  BY <1>1 DEF HourPasses, WelcomeInv, EventsInOrder, TriggersSpaced, InitiativesAreSpaced, Listed
<1>2. CASE UNCHANGED initiativeVars
  <2>1. hour' = hour /\ events' = events /\ triggers' = triggers /\ offered' = offered
    BY <1>2 DEF initiativeVars
  <2>2. offered # None => MaySpeak(offered)
    BY DEF WelcomeInv
  <2>3. offered' # None => MaySpeak(offered)'
    <3>1. PICK d : d = offered
      OBVIOUS
    <3> QED BY <2>1, <2>2, <3>1, PermittedStays
  <2> QED BY <2>1, <2>3 DEF WelcomeInv, EventsInOrder, TriggersSpaced, InitiativesAreSpaced, Listed
<1> QED BY <1>1, <1>2, RecordEventKeeps, DecideKeeps DEF InitiativeNext

\* For any sayings, offers, hours and pauses: boundaries stay until they are taken back and then go,
\* what is disputed does not count, and she speaks first where she is welcome and not too often.
THEOREM FirstWordsAreWelcome ==
    InitiativeSpec => [](/\ BoundariesStay /\ BoundariesGive /\ OnlyUndisputedCounts
                         /\ InitiativesAreWelcome /\ InitiativesAreSpaced)
<1>1. WelcomeInv => /\ BoundariesStay /\ BoundariesGive /\ OnlyUndisputedCounts
                  /\ InitiativesAreWelcome /\ InitiativesAreSpaced
  BY WelcomeInvGives
<1> QED BY <1>1, WelcomeInvInit, WelcomeStep, PTL DEF InitiativeSpec

-----------------------------------------------------------------------------
\* What she does by herself: whatever a model proposes, goals are warranted and the best of them is
\* pursued, what she says is spaced and no echo, where she goes was seen, and boundaries hold.
ActsWithinBounds ==
    /\ SpeechIsSpaced /\ NoEcho /\ GoesToWhatWasSeen
    /\ LoopTypeOK /\ GoalIsWarranted /\ BestIsPursued /\ OnlyLocalIsDone /\ RunsWhileWell
    /\ BoundariesStay /\ BoundariesGive /\ OnlyUndisputedCounts
    /\ InitiativesAreWelcome /\ InitiativesAreSpaced

\* The tick of preintegration_runtime, goal_intent_model_v1 with its loop and watchdog, and
\* relationship_model_v1 with proactive_trigger_v1.
THEOREM AlwaysActsWithinBounds == LifeSpec /\ LoopSpec /\ InitiativeSpec => []ActsWithinBounds
  BY SpeaksAndGoesInTime, GoalsAreWarranted, FirstWordsAreWelcome, PTL DEF ActsWithinBounds
=============================================================================
