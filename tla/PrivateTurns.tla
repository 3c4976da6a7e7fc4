----------------------------- MODULE PrivateTurns -----------------------------
(***************************************************************************)
(* What a turn of the companion chat is told, and what is kept of it       *)
(* (lumina_next/orchestrator.py: chat, _chat_serialized and what they      *)
(* call), for the providers without a resident conversation.  A turn of    *)
(* scope "default" reads and writes the memory, a "session_only" one only  *)
(* a bounded history of its partition that dies with the process.          *)
(*                                                                         *)
(* The turn lock, cancellation and the sidecar are LiteRTSession's; the    *)
(* store is MemoryStore's: here it returns some of what it holds.  A text  *)
(* of the model is "claim" when it says of herself that she is a model,    *)
(* "brand" when it names one otherwise, "named" when it says Lumina.       *)
(***************************************************************************)
EXTENDS Integers, Sequences, FiniteSets, SequencesExt, Absent

CONSTANTS
    Questions,          \* [who, conv, scope, ask, size]: the turns that may be asked
    Persons,
    RawAnswers,         \* what the model may generate, of "plain", "named", "brand", "claim"
    AnswerSize,
    MaxPrivateTurns, MaxPrivateChars, MaxPrivateSessions,  \* SESSION_ONLY_MAX_*
    MaxChats            \* bound on the turns

ASSUME PrivateAssumption ==
    /\ MaxPrivateTurns \in Nat \ {0} /\ MaxPrivateChars \in Nat \ {0, 1} /\ MaxPrivateSessions \in Nat \ {0}
    /\ \A q \in Questions : q.ask \in {"model", "maker", "name", "nature", "talk"}
    /\ None \notin {"claim", "brand"}

VARIABLES
    chats,        \* the turns, in the order of their arrival
    turnOwner,    \* who holds _turn_lock
    privates,     \* _session_only_histories, the least recently used first
    stored,       \* the turns the memory holds
    mayKeep,      \* <<person, layer>>: what may be kept
    familiar,     \* whom cognition.observe_human_interaction has been told of
    answeredOrder \* the turns that were answered, in that order

chatVars == <<chats, turnOwner, privates, stored, mayKeep, familiar, answeredOrder>>

ConsentLayers == {"episodic", "relationship"}

Private(i) == chats[i].q.scope = "session_only"

-----------------------------------------------------------------------------
(* The identity guard                                                      *)

\* _companion_identity_guard: a question for the model or the maker has one answer; a claim to
\* be a model never stands, and a name of one not before somebody who asks who she is.
Displayed(ask, raw) ==
    CASE ask = "model" -> "lumina"
      [] ask = "maker" -> "unknown"
      [] raw = "claim" \/ (raw = "brand" /\ ask \in {"name", "nature"}) -> "lumina"
      [] ask = "name" /\ raw = "plain" -> "lumina"
      [] OTHER -> raw

-----------------------------------------------------------------------------
(* The process-only histories                                              *)

\* _session_only_partition: the person is part of it.
PartitionOf(i) == <<chats[i].q.who, chats[i].q.conv>>

\* The history of a partition that is there is the latest one used.
PrivateKeys == {privates[n].key : n \in DOMAIN privates}
PlaceOf(key) == CHOOSE n \in DOMAIN privates : privates[n].key = key
HistoryOf(key) == IF key \in PrivateKeys THEN privates[PlaceOf(key)].told ELSE <<>>
WithLatest(key, told) ==
    Append(IF key \in PrivateKeys THEN RemoveAt(privates, PlaceOf(key)) ELSE privates,
           [key |-> key, told |-> told])

\* A message is cut to half of the limit, so that one turn always fits.
CutToHalf(size) == IF size > MaxPrivateChars \div 2 THEN MaxPrivateChars \div 2 ELSE size

FitsPrivate(h) ==
    /\ Len(h) =< MaxPrivateTurns
    /\ FoldLeft(LAMBDA sum, t : sum + t.size, 0, h) =< MaxPrivateChars

\* Whole turns go, the oldest first.
KeptPrivate(h) ==
    LET enough == {n \in 0..Len(h) : n = Len(h) \/ FitsPrivate(SubSeq(h, n + 1, Len(h)))}
        drop   == CHOOSE n \in enough : \A k \in enough : n =< k
    IN SubSeq(h, drop + 1, Len(h))

\* _commit_session_only_turn.
CommitPrivate(i) ==
    LET key  == PartitionOf(i)
        told == KeptPrivate(Append(HistoryOf(key), [nth |-> i, text |-> chats[i].answer,
                                size |-> CutToHalf(chats[i].q.size) + CutToHalf(AnswerSize)]))
        all  == WithLatest(key, told)
    IN privates' = IF Len(all) > MaxPrivateSessions THEN Tail(all) ELSE all

-----------------------------------------------------------------------------
(* One turn                                                                *)

ChatAsked(q) ==
    /\ Len(chats) < MaxChats
    /\ chats' = Append(chats, [q |-> q, at |-> "queued", seen |-> <<>>, answer |-> None])
    /\ UNCHANGED <<turnOwner, privates, stored, mayKeep, familiar, answeredOrder>>

\* The lock is got, and the person noted where that is allowed.
ChatBegins(i) ==
    /\ chats[i].at = "queued" /\ turnOwner = None
    /\ turnOwner' = i
    /\ chats' = [chats EXCEPT ![i].at = "thinking"]
    /\ familiar' = IF ~Private(i) /\ <<chats[i].q.who, "relationship">> \in mayKeep
                   THEN familiar \cup {chats[i].q.who} ELSE familiar
    /\ UNCHANGED <<privates, stored, mayKeep, answeredOrder>>

\* What the memory may recall: some of what it holds, in order.
Recollections ==
    UNION {{[k \in 1..n |-> stored[places[k]]] :
               places \in {p \in [1..n -> DOMAIN stored] : \A k \in 2..n : p[k - 1] < p[k]}} : n \in 0..Len(stored)}

\* The model is told the history of the partition, which is thereby used, or what the memory
\* recalls: by words, or after an embedding of the question that may fail.
ChatRecollects(i) ==
    /\ chats[i].at = "thinking"
    /\ IF Private(i)
       THEN /\ chats' = [chats EXCEPT ![i].at = "generating", ![i].seen = HistoryOf(PartitionOf(i))]
            /\ privates' = IF PartitionOf(i) \in PrivateKeys
                           THEN WithLatest(PartitionOf(i), HistoryOf(PartitionOf(i))) ELSE privates
       ELSE /\ \E seen \in Recollections :
                  chats' = [chats EXCEPT ![i].at = "generating", ![i].seen = seen]
            /\ UNCHANGED privates
    /\ UNCHANGED <<turnOwner, stored, mayKeep, familiar, answeredOrder>>

\* The answer passes the guard; a default turn is kept at once, where that is allowed by now.
ChatGenerated(i, raw) ==
    /\ chats[i].at = "generating"
    /\ LET answer == Displayed(chats[i].q.ask, raw)
       IN /\ chats' = [chats EXCEPT ![i].at = "speaking", ![i].answer = answer]
          /\ stored' = IF ~Private(i) /\ <<chats[i].q.who, "episodic">> \in mayKeep
                       THEN Append(stored, [nth |-> i, text |-> answer]) ELSE stored
    /\ UNCHANGED <<turnOwner, privates, mayKeep, familiar, answeredOrder>>

\* Spoken and dispatched: only now a private turn is kept.
ChatAnswered(i) ==
    /\ chats[i].at = "speaking"
    /\ IF Private(i) THEN CommitPrivate(i) ELSE UNCHANGED privates
    /\ chats' = [chats EXCEPT ![i].at = "answered"]
    /\ answeredOrder' = Append(answeredOrder, i)
    /\ turnOwner' = None
    /\ UNCHANGED <<stored, mayKeep, familiar>>

\* A request of the turn fails, or the turn is cancelled where it waits.
ChatFails(i) ==
    /\ chats[i].at \in {"queued", "thinking", "generating", "speaking"}
    /\ chats' = [chats EXCEPT ![i].at = "failed"]
    /\ turnOwner' = IF turnOwner = i THEN None ELSE turnOwner
    /\ UNCHANGED <<privates, stored, mayKeep, familiar, answeredOrder>>

\* Consent is given and withdrawn at any time.
ConsentSet(p, layer, given) ==
    /\ mayKeep' = IF given THEN mayKeep \cup {<<p, layer>>} ELSE mayKeep \ {<<p, layer>>}
    /\ UNCHANGED <<chats, turnOwner, privates, stored, familiar, answeredOrder>>

ChatInit ==
    /\ chats = <<>> /\ turnOwner = None /\ privates = <<>> /\ stored = <<>>
    /\ mayKeep = {} /\ familiar = {} /\ answeredOrder = <<>>

ChatNext ==
    \/ \E q \in Questions : ChatAsked(q)
    \/ \E i \in DOMAIN chats : \/ ChatBegins(i) \/ ChatRecollects(i) \/ ChatAnswered(i) \/ ChatFails(i)
                               \/ \E raw \in RawAnswers : ChatGenerated(i, raw)
    \/ \E p \in Persons, layer \in ConsentLayers, given \in BOOLEAN : ConsentSet(p, layer, given)

ChatSpec == ChatInit /\ [][ChatNext]_chatVars

-----------------------------------------------------------------------------
SameTalk(i, j) == chats[i].q.who = chats[j].q.who /\ chats[i].q.conv = chats[j].q.conv

\* "This lane is process-only": what was said in private is told to nobody but the same person
\* in the same conversation in private, is not in the memory, and makes nobody familiar.
PrivateStaysPrivate ==
    /\ \A i \in DOMAIN chats : \A t \in ToSet(chats[i].seen) :
          Private(t.nth) => Private(i) /\ SameTalk(t.nth, i)
    /\ \A t \in ToSet(stored) : ~Private(t.nth)
    /\ \A p \in familiar : \E i \in DOMAIN chats : ~Private(i) /\ chats[i].q.who = p

\* "A failed/cancelled turn must never become visible to the next request": a private turn is
\* told the last that were answered to it, none left out between, and always the last of all.
PrivateIsRemembered ==
    \A i \in DOMAIN chats : Private(i) /\ chats[i].at = "generating" =>
        LET mine == SelectSeq(answeredOrder, LAMBDA j : Private(j) /\ SameTalk(j, i))
            all  == SelectSeq(answeredOrder, LAMBDA j : Private(j))
            told == [n \in DOMAIN chats[i].seen |-> chats[i].seen[n].nth]
        IN /\ told = SubSeq(mine, Len(mine) - Len(told) + 1, Len(mine))
           /\ all # <<>> /\ SameTalk(Last(all), i) => told # <<>>

\* The last line of defence is one for the turns to come as well: what the model is told she
\* said is what was displayed, and no claim to be a model is among it.
SheIsNoModel ==
    /\ \A i \in DOMAIN chats : \A t \in ToSet(chats[i].seen) : t.text = chats[t.nth].answer
    /\ \A i \in DOMAIN chats : chats[i].answer # "claim"
    /\ \A i \in DOMAIN chats : chats[i].answer = "brand" => chats[i].q.ask = "talk"
=============================================================================
