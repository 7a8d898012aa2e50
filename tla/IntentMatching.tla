---------------------------- MODULE IntentMatching ---------------------------
(***************************************************************************)
(* How an utterance finds its intent: the walk of a phrase with slots over *)
(* what was said, one segment a step, and the choice among the candidates  *)
(* of all rules, one candidate a step.  Text is a sequence of words; the   *)
(* similarity of two texts is data, a percentage.                          *)
(***************************************************************************)
EXTENDS Integers, Sequences, SequencesExt

CONSTANTS
    Words,      \* what may be said or stand in a phrase
    Numbers,    \* the words that parse as numbers
    Phrases,    \* sequences of segments: literals and slots
    MaxWords,   \* bound: length of an utterance
    Scores,     \* confidences that occur, in percent
    MaxWeight,  \* bound: specificity of a candidate
    MaxCandidates \* bound: candidates of one utterance

\* split_phrase never makes two literals of what is one.
ASSUME MatchingAssumption ==
    /\ MaxWords \in Nat /\ MaxCandidates \in Nat /\ MaxWeight \in Nat
    /\ Scores \subseteq 0..100
    /\ \A p \in Phrases :
          /\ p \in Seq([slot : {"no", "any", "number"}, words : Seq(Words)])
          /\ \A n \in 1 .. Len(p) - 1 : p[n].slot # "no" \/ p[n + 1].slot # "no"

VARIABLES
    text, phrase,   \* what is walked over, and what is walked
    at,             \* the next segment, or Len(phrase) + 1; 0: no match
    cursor,         \* words of the text consumed
    slots,          \* the slots reached, by segment: their values, <<>> for null
    filled,         \* the phrase with its slots filled, so far
    seen,           \* history: the candidates considered
    best            \* the best of them, or None

walkVars == <<text, phrase, at, cursor, slots, filled>>
chooseVars == <<seen, best>>

Literal(words) == [slot |-> "no", words |-> words]
Slot(kind) == [slot |-> kind, words |-> <<>>]
None == [score |-> 0, weight |-> 0]

(***************************************************************************)
(* The walk (try_match_phrase)                                             *)
(***************************************************************************)
Hits(words, from) ==
    {i \in from .. Len(text) - Len(words) : SubSeq(text, i + 1, i + Len(words)) = words}
IsLeast(i, s) == i \in s /\ \A j \in s : i <= j

\* The next place of a literal; none ends the walk without a match.
StepLiteral ==
    /\ at \in DOMAIN phrase /\ phrase[at].slot = "no"
    /\ LET words == phrase[at].words
           hits == Hits(words, cursor)
       IN IF hits = {}
          THEN at' = 0 /\ UNCHANGED <<cursor, filled>>
          ELSE /\ \E i \in hits : IsLeast(i, hits) /\ cursor' = i + Len(words)
               /\ filled' = filled \o words
               /\ at' = at + 1
    /\ UNCHANGED <<text, phrase, slots>>

\* A slot ends where the next literal begins, and is empty without one.
SlotEnd(end, next) ==
    LET hits == Hits(next, cursor)
    IN IF hits = {} THEN end = cursor ELSE IsLeast(end, hits)

\* The last segment, or a slot before another, takes the rest.
EndsAt(end) ==
    IF at < Len(phrase) /\ phrase[at + 1].slot = "no"
    THEN SlotEnd(end, phrase[at + 1].words) ELSE end = Len(text)

\* slot_matches_kind
Fits(value, kind) == kind = "any" \/ \E n \in Numbers : value = <<n>>

\* slots.insert: a name stands for its place in the phrase.
Keep(value) ==
    slots' = [n \in DOMAIN slots \cup {at} |-> IF n = at THEN value ELSE slots[n]]

\* A slot takes the words up to the next literal, or all that are left; an
\* empty value, or one of the wrong kind, is null and consumes nothing.
StepSlot ==
    /\ at \in DOMAIN phrase /\ phrase[at].slot # "no"
    /\ \E end \in 0 .. Len(text) :
          LET value == SubSeq(text, cursor + 1, end)
          IN /\ EndsAt(end)
             /\ IF value # <<>> /\ Fits(value, phrase[at].slot)
                THEN Keep(value) /\ filled' = filled \o value /\ cursor' = end
                ELSE Keep(<<>>) /\ UNCHANGED <<filled, cursor>>
    /\ at' = at + 1
    /\ UNCHANGED <<text, phrase>>

(***************************************************************************)
(* The choice (find_match), in the order of the index.                     *)
(***************************************************************************)
Threshold == 80
Epsilon == 5
Near(c, d) == c.score - d.score \in -Epsilon .. Epsilon

\* Faulty variant: within the band the score decides too.
BetterByEither(c, d) == d = None \/ c.score > d.score \/ (Near(c, d) /\ c.weight > d.weight)

\* Within the band the more specific phrase, outside it the higher score.
Better(c, d) ==
    \/ d = None
    \/ Near(c, d) /\ c.weight > d.weight
    \/ ~Near(c, d) /\ c.score > d.score

Consider(c) ==
    /\ Len(seen) < MaxCandidates
    /\ seen' = Append(seen, c)
    /\ best' = IF c.score >= Threshold /\ Better(c, best) THEN c ELSE best

Candidates == [score : Scores, weight : 1..MaxWeight]

MatchingInit ==
    /\ text \in BoundedSeq(Words, MaxWords) /\ phrase \in Phrases
    /\ at = 1 /\ cursor = 0 /\ slots = <<>> /\ filled = <<>>
    /\ seen = <<>> /\ best = None

WalkStep == (StepLiteral \/ StepSlot) /\ UNCHANGED chooseVars
ChoiceStep == (\E c \in Candidates : Consider(c)) /\ UNCHANGED walkVars
-----------------------------------------------------------------------------
\* The words a match accounts for stand in the text in this order, and when no
\* slot is null they are one contiguous piece of it, each slot value ending
\* before the first occurrence of the literal that follows (try_match_phrase).
FilledWasSaid ==
    (at = Len(phrase) + 1 /\ <<>> \notin Range(slots)) =>
        /\ filled = SubSeq(text, cursor - Len(filled) + 1, cursor)
        /\ \A n \in DOMAIN slots : n < Len(phrase) /\ phrase[n + 1].slot = "no" =>
              \A i \in DOMAIN slots[n] :
                 ~IsPrefix(phrase[n + 1].words, SubSeq(slots[n], i, Len(slots[n])))

Accepted == {c \in Range(seen) : c.score >= Threshold}
Beats(c, d) ==
    \/ c.score > d.score + Epsilon
    \/ c.score >= d.score - Epsilon /\ c.score <= d.score + Epsilon /\ c.weight > d.weight

\* A candidate that beats every other accepted one is chosen, whatever the
\* order in which the index lists the rules, which is that of a hash map; and
\* something is chosen as soon as something is accepted (find_match).
ClearWinnerWins ==
    /\ \A c \in Accepted : (\A d \in Accepted \ {c} : Beats(c, d)) => best = c
    /\ (best = None) <=> (Accepted = {})

MatchingIsSound == FilledWasSaid /\ ClearWinnerWins
=============================================================================
