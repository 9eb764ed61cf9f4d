---------------------------- MODULE UiSequences ----------------------------
(***************************************************************************)
(* The few operators on sequences that the pages use, those of the         *)
(* community module SequencesExt.  Not that module itself: UiOperations    *)
(* instantiates nine pages, and every proof obligation about them would    *)
(* carry all it defines once for each page that extends it.                *)
(***************************************************************************)
EXTENDS Naturals, Sequences, FiniteSets, Functions

Contains(s, e) == \E i \in 1..Len(s) : s[i] = e
InsertAt(s, i, e) == SubSeq(s, 1, i - 1) \o <<e>> \o SubSeq(s, i, Len(s))
RemoveAt(s, i) == SubSeq(s, 1, i - 1) \o SubSeq(s, i + 1, Len(s))
Reverse(s) == [i \in 1..Len(s) |-> s[(Len(s) - i) + 1]]

(* The sequences of members of S that are no longer than n. *)
BoundedSeq(S, n) == UNION {[1..m -> S] : m \in 0..n}
(* The members of a set, each once, in some order. *)
SetToSeq(S) == CHOOSE s \in [1..Cardinality(S) -> S] : IsInjective(s)
=============================================================================
