------------------------------- MODULE MemoryStore -------------------------------
(***************************************************************************)
(* The database of memories (lumina_next/sqlite_memory.py), what a prompt  *)
(* is given of it, and the older JSON memory it may be read with           *)
(* (memory.py, speaking_style_growth.py).  Rows have two indexes, one of   *)
(* words and one of embeddings; the second is there only when its          *)
(* extension is, and it is filled by a maintenance that is external and    *)
(* runs while nothing else does.  Every operation is one transaction.      *)
(*                                                                         *)
(* A text is a sequence of words; an id is derived from what it is of, so  *)
(* that the row stands for it.  Lines have one length.  Decay of weights,  *)
(* pins, the cognitive state and the schema are left out (SleepCycle has   *)
(* the runs of a consolidation), and so are the turns of sessions.json that *)
(* import_legacy adds with the facts.                                      *)
(***************************************************************************)
EXTENDS Integers, Sequences, FiniteSets, FiniteSetsExt, SequencesExt, Absent

CONSTANTS
    Sessions,       \* the keys of conversations
    Remarks,        \* what a user may say: text and how it is taken (classify_style_reaction)
    Reply,          \* what Lumina says
    LegacyFacts,    \* the facts of long_term.json: texts, in order
    Shadowed,       \* whether the JSON memory is read as well (ShadowMemoryAdapter)
    Wanted,         \* queries: words, and whether they come with an embedding
    MaxRecent, MaxRecalled, MaxLines,  \* LUMINA_NEXT_RECENT_MESSAGES, max_results, max_chars
    MaxTopics,      \* the length of a topic stack
    MaxTold         \* turns (bound)

VARIABLES
    turns,          \* conversation_turns, per session
    rawEvents,      \* raw_events, with the session and whether it is consolidated
    rows,           \* profile_facts and episodic_memories
    wordIndex,      \* memory_fts: rows
    vectorMeta,     \* memory_vector_meta: the rowid of a row
    vectors,        \* memory_vectors: the row whose embedding a rowid holds
    hasVectors,     \* whether the sqlite-vec extension loads
    dialogue        \* dialogue_state: topics and style, per session

storeVars == <<turns, rawEvents, rows, wordIndex, vectorMeta, vectors, hasVectors, dialogue>>

-----------------------------------------------------------------------------
(* A turn: _update_state and the growth of a style, scores in twentieths    *)

EmptyStyle == [preferred |-> "natural", short |-> 0, continued |-> 0, rejected |-> 0]
EmptyDialogue == [topics |-> <<>>, style |-> EmptyStyle]

Raised(score, by) == Min({100, score + by})
Lowered(score, by) == Max({0, score - by})

Reacted(style, reaction) ==
    CASE reaction = "short" -> [style EXCEPT !.short = Raised(@, 20), !.continued = Lowered(@, 5)]
      [] reaction = "continued" -> [style EXCEPT !.continued = Raised(@, 15), !.short = Lowered(@, 3)]
      [] reaction = "rejected" -> [style EXCEPT !.rejected = Raised(@, 20), !.continued = Lowered(@, 7)]
      [] OTHER -> style

\* The first of the highest: a style that was rejected is continued less gladly.
Preferred(style) ==
    LET often == style.rejected >= 30
        natural == IF often THEN 24 ELSE 8
        continued == style.continued - (IF often THEN 8 ELSE 0)
    IN CASE style.short >= continued /\ style.short >= natural -> "short"
         [] continued >= natural -> "continued"
         [] OTHER -> "natural"

ApplyStyleReaction(style, reaction) ==
    LET now == Reacted(style, reaction) IN [now EXCEPT !.preferred = Preferred(now)]

TopicsWith(topics, text) ==
    LET others == SelectSeq(topics, LAMBDA topic : topic # text)
    IN SubSeq(<<text>> \o others, 1, Min({MaxTopics, Len(others) + 1}))

\* The turns, their events and the state of the dialogue in one transaction.
RecordMessages(s, remark) ==
    /\ Len(rawEvents) < 2 * MaxTold
    /\ turns' = [turns EXCEPT ![s] = @ \o << [role |-> "user", text |-> remark.text],
                                             [role |-> "assistant", text |-> Reply] >>]
    /\ rawEvents' = rawEvents \o << [session |-> s, text |-> remark.text, grounded |-> TRUE, done |-> FALSE],
                                    [session |-> s, text |-> Reply, grounded |-> FALSE, done |-> FALSE] >>
    /\ dialogue' = [dialogue EXCEPT ![s] =
          [topics |-> TopicsWith(@.topics, remark.text), style |-> ApplyStyleReaction(@.style, remark.reaction)]]
    /\ UNCHANGED <<rows, wordIndex, vectorMeta, vectors, hasVectors>>

-----------------------------------------------------------------------------
(* The rows and their indexes                                              *)

Fact(text) == [kind |-> "profile_fact", text |-> text, from |-> {}]

\* import_legacy: what is there is left, and its words are indexed anew.
ImportLegacy ==
    LET facts == {Fact(LegacyFacts[i]) : i \in DOMAIN LegacyFacts}
    IN /\ ~(facts \subseteq rows)
       /\ rows' = rows \cup facts /\ wordIndex' = wordIndex \cup facts
       /\ UNCHANGED <<turns, rawEvents, vectorMeta, vectors, hasVectors, dialogue>>

\* consolidate_memory: an episode of what was said by others in a session since the last time.
PendingOf(s) == {i \in DOMAIN rawEvents : rawEvents[i].session = s /\ ~rawEvents[i].done}
SaidByOthers(s) ==
    LET told == SelectSeq(SetToSortSeq(PendingOf(s), <), LAMBDA i : rawEvents[i].grounded)
    IN FlattenSeq([i \in DOMAIN told |-> rawEvents[told[i]].text])
Episode(s) == [kind |-> "episodic_memory", from |-> PendingOf(s), text |-> SaidByOthers(s)]
ConsolidateEvents ==
    /\ \E i \in DOMAIN rawEvents : ~rawEvents[i].done
    /\ LET episodes == {Episode(s) : s \in {t \in Sessions : PendingOf(t) # {}}}
       IN rows' = rows \cup episodes /\ wordIndex' = wordIndex \cup episodes
    /\ rawEvents' = [i \in DOMAIN rawEvents |-> [rawEvents[i] EXCEPT !.done = TRUE]]
    /\ UNCHANGED <<turns, vectorMeta, vectors, hasVectors, dialogue>>

Without(f, x) == [y \in DOMAIN f \ {x} |-> f[y]]

\* forget: the embedding can only be deleted when the extension is there.
Forget(row) ==
    /\ rows' = rows \ {row} /\ wordIndex' = wordIndex \ {row}
    /\ vectorMeta' = Without(vectorMeta, row)
    /\ vectors' = IF row \in DOMAIN vectorMeta /\ hasVectors THEN Without(vectors, vectorMeta[row]) ELSE vectors
    /\ UNCHANGED <<turns, rawEvents, hasVectors, dialogue>>

\* embedding_items: the rows that have no embedding.
EmbeddingItems == {row \in rows : row \notin DOMAIN vectorMeta \/ vectorMeta[row] \notin DOMAIN vectors}

\* A new rowid is one more than the last: sqlite gives the last one again when its row is gone.
NextRowid == 1 + Max({0} \cup {vectorMeta[row] : row \in DOMAIN vectorMeta})

\* upsert_embedding: it raises, and nothing is written, when the rowid holds another embedding.
UpsertEmbedding(row) ==
    /\ hasVectors /\ row \in EmbeddingItems
    /\ LET rowid == IF row \in DOMAIN vectorMeta THEN vectorMeta[row] ELSE NextRowid
       IN /\ row \in DOMAIN vectorMeta \/ rowid \notin DOMAIN vectors
          /\ vectorMeta' = [r \in DOMAIN vectorMeta \cup {row} |-> IF r = row THEN rowid ELSE vectorMeta[r]]
          /\ vectors' = [r \in DOMAIN vectors \cup {rowid} |-> IF r = rowid THEN row ELSE vectors[r]]
    /\ UNCHANGED <<turns, rawEvents, rows, wordIndex, hasVectors, dialogue>>

\* The extension loads, or it does not, at every connection.
ExtensionChanges ==
    /\ hasVectors' = ~hasVectors
    /\ UNCHANGED <<turns, rawEvents, rows, wordIndex, vectorMeta, vectors, dialogue>>

-----------------------------------------------------------------------------
(* retrieve                                                                *)

WordsIn(text) == {text[i] : i \in DOMAIN text}
Shared(text, want) == Cardinality(WordsIn(text) \cap want.words)
Line(kind, what) == [kind |-> kind, what |-> what]

\* What the indexes answer, best first; ties are broken in one way.
WordHits(want) ==
    SetToSortSeq({row \in wordIndex : Shared(row.text, want) > 0},
                 LAMBDA a, b : Shared(a.text, want) > Shared(b.text, want) \/
                    (Shared(a.text, want) = Shared(b.text, want) /\ Len(a.text) > Len(b.text)))
VectorHits(want) ==
    IF ~(want.embedded /\ hasVectors) THEN <<>>
    ELSE LET near == {row \in DOMAIN vectorMeta : vectorMeta[row] \in DOMAIN vectors}
         IN SetToSortSeq(near, LAMBDA a, b : Shared(a.text, want) > Shared(b.text, want))

\* Each index gives a candidate 1/(60 + rank).
ScoreOf(row, hits) ==
    LET at == {i \in DOMAIN hits : hits[i] = row}
    IN IF at = {} THEN 0 ELSE 1000000 \div (60 + Min(at))

Recalled(want) ==
    LET byWords == WordHits(want)
        byVector == VectorHits(want)
        score(row) == ScoreOf(row, byWords) + ScoreOf(row, byVector)
        best == SetToSortSeq(ToSet(byWords \o byVector),
                             LAMBDA a, b : score(a) > score(b) \/ (score(a) = score(b) /\ Len(a.text) < Len(b.text)))
        first == SelectSeq([i \in DOMAIN best |-> <<i, best[i]>>], LAMBDA at :
                    \A j \in 1..(at[1] - 1) : <<best[j].kind, best[j].text>> # <<at[2].kind, at[2].text>>)
    IN [i \in 1..Min({MaxRecalled, Len(first)}) |-> first[i][2]]

LastOf(s, n) == SubSeq(s, Max({1, Len(s) - n + 1}), Len(s))
Lines(kind, s) == [i \in DOMAIN s |-> Line(kind, s[i])]

\* A line that was told is not told again.
Deduped(lines) == FoldLeft(LAMBDA out, line : IF line \in ToSet(out) THEN out ELSE Append(out, line), <<>>, lines)

\* SQLiteMemoryAdapter.retrieve: the recent messages, then memories, cut at the end.
FromDatabase(s, want) ==
    LET lines == Deduped(Lines("recent", LastOf(turns[s], MaxRecent)) \o Lines("memory", Recalled(want)))
    IN SubSeq(lines, 1, Min({MaxLines, Len(lines)}))

\* JsonMemoryAdapter.retrieve: the facts that share a word, the most first.
FromLegacy(want) ==
    LET hits == {i \in DOMAIN LegacyFacts : Shared(LegacyFacts[i], want) > 0}
        best == SetToSortSeq(hits, LAMBDA i, j : Shared(LegacyFacts[i], want) > Shared(LegacyFacts[j], want) \/
                                      (Shared(LegacyFacts[i], want) = Shared(LegacyFacts[j], want) /\ i < j))
    IN [i \in 1..Min({MaxRecalled, Len(best)}) |-> Line("legacy", Fact(LegacyFacts[best[i]]))]

\* ShadowMemoryAdapter.retrieve and _trim_latest_lines: the oldest lines are dropped first.
Retrieve(s, want) ==
    IF Shadowed THEN LastOf(Deduped(FromLegacy(want) \o FromDatabase(s, want)), MaxLines)
    ELSE FromDatabase(s, want)

-----------------------------------------------------------------------------
\* initialize.
StoreInit ==
    /\ turns = [s \in Sessions |-> <<>>] /\ rawEvents = <<>>
    /\ rows = {} /\ wordIndex = {}
    /\ vectorMeta = <<>> /\ vectors = <<>> /\ hasVectors = TRUE
    /\ dialogue = [s \in Sessions |-> EmptyDialogue]

StoreNext ==
    \/ \E s \in Sessions, remark \in Remarks : RecordMessages(s, remark)
    \/ ImportLegacy
    \/ ConsolidateEvents
    \/ \E row \in rows : Forget(row) \/ UpsertEmbedding(row)
    \/ ExtensionChanges

StoreSpec == StoreInit /\ [][StoreNext]_storeVars

-----------------------------------------------------------------------------
StoreTypeOK ==
    /\ hasVectors \in BOOLEAN /\ DOMAIN turns = Sessions
    /\ \A s \in Sessions : Len(dialogue[s].topics) =< MaxTopics

\* forget, import_legacy, consolidate_memory: the words of every row and of nothing else are
\* indexed, and what has an embedding is a row, whether or not the extension was there when
\* it was forgotten.
IndexesFollowRows == wordIndex = rows /\ DOMAIN vectorMeta \subseteq rows

\* upsert_embedding: a row that is found by its embedding is found by its own, although the
\* rowids of forgotten rows are used again and their embeddings may still be there.
EmbeddingsAreTheirOwn ==
    /\ \A r1, r2 \in DOMAIN vectorMeta : vectorMeta[r1] = vectorMeta[r2] => r1 = r2
    /\ \A r1 \in DOMAIN vectorMeta : vectorMeta[r1] \in DOMAIN vectors => vectors[vectorMeta[r1]] = r1

TellsOfTheStore(s, want, told) ==
    LET recalled == SelectSeq(told, LAMBDA line : line.kind = "memory")
        recent == SelectSeq(told, LAMBDA line : line.kind = "recent")
    IN /\ \A i, j \in DOMAIN told : told[i] = told[j] => i = j
       /\ \A i \in DOMAIN recalled : recalled[i].what \in rows
       /\ \A i \in DOMAIN recent : recent[i].what \in ToSet(turns[s])
       /\ Len(recent) < MaxLines /\ (\E row \in rows : Shared(row.text, want) > 0) => recalled # <<>>

\* retrieve: what the database tells of is what it still holds, the messages are of the
\* conversation itself in their order, nothing is told twice, and when something shares a word
\* with the question or has an embedding, and there is room, something is recalled.
ToldFromTheStore ==
    \A s \in Sessions, want \in Wanted : TellsOfTheStore(s, want, FromDatabase(s, want))

\* consolidate_memory: an event is remembered in one episode.
EventsAreToldOnce ==
    \A e1, e2 \in rows : e1.from \cap e2.from # {} => e1 = e2

\* apply_style_reaction: a style is only preferred in a conversation in which it was asked for.
StyleIsAskedFor ==
    \A s \in Sessions : dialogue[s].style.preferred # "natural" =>
       \E remark \in Remarks : /\ remark.reaction = dialogue[s].style.preferred
                               /\ [role |-> "user", text |-> remark.text] \in ToSet(turns[s])
=============================================================================
