--------------------------- MODULE VisualPerception ---------------------------
(***************************************************************************)
(* lumina_next/visual_perception.py: what is in the image, without knowing *)
(* what was asked; then which of it was asked for.                         *)
(*                                                                         *)
(* A row of the inventory is what the vision model says of one object: its *)
(* kind, the color the label declares, the color beside it, and where its  *)
(* box begins and ends across the image, in tenths.  A label that is not   *)
(* one category and at most one color is not plain.  A color is its base   *)
(* and a shade.  A request names nouns, colors and sides; it is bare when  *)
(* one noun and one action are all of it.  What the language models answer *)
(* is any member of a set.                                                 *)
(***************************************************************************)
EXTENDS Integers, FiniteSets, FiniteSetsExt, Absent

CONSTANTS
    Dictionary,     \* CATEGORY_ALIASES, the kinds that have their own words
    Inventories,    \* what the vision model may see (bound)
    Wishes,         \* what may be asked (bound)
    Selections,     \* what the text model may select (bound)
    Verifications   \* what it may say of the request alone (bound)

VARIABLES
    wish,    \* the request and the mode it is served in, or None
    sight,   \* the rows the vision model answered
    picked,  \* the selection, or None
    verdict  \* the result, or None

perceptionVars == <<wish, sight, picked, verdict>>

NotServed   == [is |-> "refused", row |-> None, intent |-> "none"]
NotThere  == [is |-> "absent", row |-> None, intent |-> "none"]
Chosen(s) == [is |-> "found", row |-> s.row, intent |-> s.intent]

-----------------------------------------------------------------------------

\* _visual_label, _open_visual_label and _uncertain_category_hint: the kind by the dictionary,
\* by the shape of a word, and by the head of a label that may say anything after it.
LegacyCategory(row) == IF row.plain /\ row.kind \in Dictionary THEN row.kind ELSE None
OpenCategory(row)   == IF row.plain THEN row.kind ELSE None
CategoryHint(row)   == IF row.kind \in Dictionary THEN row.kind ELSE None

\* visual_colors_compatible: one base, and not two shades.
ColorsCompatible(c, d) == c[1] = d[1] /\ (None \in {c[2], d[2]} \/ c[2] = d[2])
Contradictory(row) ==
    row.says # None /\ (row.color = None \/ ~ColorsCompatible(row.says, row.color))
\* open_visual_descriptor does not raise.
Describable(row) == OpenCategory(row) # None /\ row.color # None /\ ~Contradictory(row)

\* _normalize_model_inventory_wire: a box without an area is dropped.
Degenerate(row) == row.box[1] >= row.box[2]
Objects == {row \in sight : ~Degenerate(row)}

\* A dropped row of a kind that is left; one that is not describable counts by its hint.
DroppedConflict(rows) ==
    LET left == {row \in rows : ~Degenerate(row)}
    IN \E row \in rows \ left :
          (IF Describable(row) THEN row.kind ELSE CategoryHint(row)) \in {r.kind : r \in left}

-----------------------------------------------------------------------------

Bases(r)         == {c[1] : c \in r.colors}
HasBase(row, r)  == r.colors = {} \/ (row.color # None /\ row.color[1] \in Bases(r))
Middle(row)      == row.box[1] + row.box[2]        \* doubled
FromCenter(row)  == IF Middle(row) >= 10 THEN Middle(row) - 10 ELSE 10 - Middle(row)

\* Of those that answer kind and color, the row is the one on the side that was named.
OnSide(row, among, sides) ==
    LET others == among \ {row}
    IN /\ Cardinality(sides) =< 1
       /\ "center" \in sides =>
             FromCenter(row) =< 3 /\ \A o \in others : FromCenter(o) - FromCenter(row) >= 1
       /\ sides \cap {"left", "right"} # {} => row.box[2] - row.box[1] < 8
       /\ "left" \in sides =>
             IF others = {} THEN Middle(row) =< 8 ELSE \A o \in others : Middle(o) - Middle(row) >= 1
       /\ "right" \in sides =>
             IF others = {} THEN Middle(row) >= 12 ELSE \A o \in others : Middle(row) - Middle(o) >= 1
       /\ sides = {} => others = {}

\* validate_semantic_match, by the dictionary: what contradicts itself or is uncertain and of
\* the kind vetoes, and never drops out.
SemanticMatch(row, rows, r) ==
    LET same == {o \in rows : LegacyCategory(o) = row.kind}
    IN /\ LegacyCategory(row) # None /\ ~Contradictory(row)
       /\ r.nouns \cap Dictionary = {row.kind}
       /\ Cardinality(Bases(r)) =< 1 /\ HasBase(row, r)
       /\ \A o \in rows : LegacyCategory(o) = None => CategoryHint(o) # row.kind
       /\ \A o \in same : ~Contradictory(o)
       /\ OnSide(row, {o \in same : HasBase(o, r)}, r.sides)

\* _validate_open_single_target_surface: the whole request is the noun and an action; the
\* intent it has, or None.  A question is only a request to go if it is put politely.
SurfaceIntent(r, noun) ==
    IF r.bare /\ r.nouns = {noun} /\ (r.act = "approach" /\ r.question => r.lang = "ja" /\ r.polite)
    THEN r.act ELSE None

\* _validate_open_ja_verification: the noun of the request alone, translated.  A noun that is
\* in no dictionary cannot be checked against its translation in Japanese.
Verifies(v, r, category) ==
    /\ v.certain /\ v.span \in r.nouns /\ v.translated = category
    /\ r.lang = "en" \/ v.span \in Dictionary => v.span = category

\* _reject_unsafe_open_request_structure: a negation, an alternative, or two kinds.
AmbiguousRequest(r, rows) == r.negated \/ Cardinality(r.nouns \cap {o.kind : o \in rows}) > 1

\* _validate_open_semantic_match.
OpenMatch(row, rows, r, category, v) ==
    /\ \A o \in rows : Describable(o)
    /\ category = row.kind
    /\ ~AmbiguousRequest(r, rows)
    /\ row.kind \notin Dictionary => ~r.vague /\ (r.lang = "en" => row.kind \in r.nouns)
    /\ v # None /\ Verifies(v, r, row.kind) /\ SurfaceIntent(r, v.span) # None
    /\ IF row.kind \in Dictionary THEN SemanticMatch(row, rows, r)
       ELSE /\ Cardinality(Bases(r)) =< 1 /\ HasBase(row, r)
            /\ OnSide(row, {o \in rows : o.kind = row.kind /\ HasBase(o, r)}, r.sides)

\* validate_selection: what the answer is worth.
Judged(s, rows, r, open, v) ==
    IF s.row = None THEN IF s.certain \/ (open /\ s.intent # "none") THEN NotServed ELSE NotThere
    ELSE IF /\ open => /\ s.certain /\ s.copied /\ OpenMatch(s.row, rows, r, s.category, v)
                       /\ s.intent = SurfaceIntent(r, v.span)
            /\ ~open => SemanticMatch(s.row, rows, r)
         THEN Chosen(s) ELSE NotServed

-----------------------------------------------------------------------------

\* The requests that no model is asked about: Japanese of one known noun, which a polite form
\* may end where any nouns are served (_FAST_REQUEST, _select_natural_known_open_inventory),
KnownJapanese(r, open) ==
    /\ r.lang = "ja" /\ \E noun \in Dictionary : SurfaceIntent(r, noun) # None
    /\ r.polite => open
\* and the two forms that the revalidation of an arrival writes.
ExactCategory(r)         == r.lang = "en" /\ r.form = "category"
ExactDescriptor(r, rows) == r.lang = "en" /\ r.form = "descriptor" /\ \E o \in rows : o.kind \in r.nouns

Certainly(row, what) ==
    [row |-> row, intent |-> what, category |-> row.kind, certain |-> TRUE, copied |-> TRUE]
NoSelection == [row |-> None, intent |-> "none", category |-> None, certain |-> FALSE, copied |-> TRUE]

\* select_inventory_deterministically and _select_known_open_inventory_deterministically: the
\* one row that answers, nothing, or None for the model to say.
ByRule(rows, r, open) ==
    LET matches == IF KnownJapanese(r, open) THEN {o \in rows : SemanticMatch(o, rows, r)}
                   ELSE {o \in rows : /\ o.kind \in r.nouns
                                      /\ ~ExactCategory(r) => \E c \in r.colors : ColorsCompatible(c, o.color)}
    IN IF ~KnownJapanese(r, open) /\ ~(open /\ (ExactCategory(r) \/ ExactDescriptor(r, rows))) THEN None
       ELSE IF Cardinality(matches) = 1 THEN Certainly(CHOOSE o \in matches : TRUE, r.act)
       ELSE NoSelection

\* _deterministic_known_semantic_verification.
Grammatical(row) == [certain |-> TRUE, span |-> row.kind, translated |-> row.kind]

-----------------------------------------------------------------------------

PerceptionInit == wish = None /\ sight = {} /\ picked = None /\ verdict = None

\* infer: the vision model is asked what is there, and is not told what for.
Perceive ==
    /\ wish = None
    /\ \E r \in Wishes, open \in BOOLEAN, rows \in Inventories :
          /\ wish' = [asked |-> r, open |-> open]
          /\ sight' = rows
          /\ verdict' = IF DroppedConflict(rows) \/ (open /\ \E o \in rows : ~Degenerate(o) /\ ~Describable(o))
                        THEN NotServed ELSE None
    /\ UNCHANGED picked

\* A request of the closed grammar is decided by rule, and its rule is checked like a model's.
SelectByRule ==
    /\ wish # None /\ picked = None /\ verdict = None
    /\ ByRule(Objects, wish.asked, wish.open) # None
    /\ picked' = ByRule(Objects, wish.asked, wish.open)
    /\ verdict' = Judged(picked', Objects, wish.asked, wish.open,
                         IF picked'.row = None THEN None ELSE Grammatical(picked'.row))
    /\ UNCHANGED <<wish, sight>>

\* The text model selects; of an open selection it is asked again, of the request alone.
SelectByModel ==
    /\ wish # None /\ picked = None /\ verdict = None
    /\ ByRule(Objects, wish.asked, wish.open) = None
    /\ \E s \in Selections :
          /\ s.row # None => s.row \in {o.id : o \in Objects}
          /\ picked' = [s EXCEPT !.row = IF @ = None THEN None ELSE CHOOSE o \in Objects : o.id = s.row]
          /\ verdict' = IF wish.open /\ s.row # None THEN None
                        ELSE Judged(picked', Objects, wish.asked, wish.open, None)
    /\ UNCHANGED <<wish, sight>>

CrossCheck ==
    /\ picked # None /\ verdict = None
    /\ \E v \in Verifications : verdict' = Judged(picked, Objects, wish.asked, TRUE, v)
    /\ UNCHANGED <<wish, sight, picked>>

\* The model does not answer, or what it answers has not the form or names no row.
ModelFails ==
    /\ wish # None /\ verdict = None /\ verdict' = NotServed
    /\ UNCHANGED <<wish, sight, picked>>

PerceptionNext == Perceive \/ SelectByRule \/ SelectByModel \/ CrossCheck \/ ModelFails

-----------------------------------------------------------------------------

SeesOne == verdict # None /\ verdict.is = "found"

\* What is selected is what was asked for, and nothing else in the image could be: every other
\* row of its kind, with the dropped ones and those whose label or color contradicts itself, is
\* of another color, or on another side than the one that was named.
NoOtherCouldBeMeant ==
    SeesOne =>
        LET t == verdict.row
            r == wish.asked
            rivals == {o \in sight \ {t} : o.kind = t.kind /\ (t.kind \in Dictionary \/ Describable(o))
                                           /\ (HasBase(o, r) \/ Contradictory(o) \/ Degenerate(o))}
        IN /\ t \in Objects /\ HasBase(t, r)
           /\ t.kind \in Dictionary \/ r.lang = "en" => t.kind \in r.nouns
           /\ \A o \in rivals :
                 /\ ~Degenerate(o) /\ ~Contradictory(o) /\ o.plain
                 /\ \/ "left" \in r.sides /\ Middle(t) < Middle(o)
                    \/ "right" \in r.sides /\ Middle(t) > Middle(o)
                    \/ "center" \in r.sides /\ FromCenter(t) < FromCenter(o)

\* Whatever the models answer, she only goes where she was told to go: a question, a negation,
\* an alternative or a second clause is no order, where any nouns are served.
GoesWhenTold ==
    (SeesOne /\ wish.open) =>
        LET r == wish.asked
        IN /\ verdict.intent = r.act /\ r.bare /\ ~r.negated /\ Cardinality(r.nouns) = 1
           /\ verdict.intent = "approach" => ~r.question \/ r.polite
=============================================================================
