------------------------------ MODULE UiOrder ------------------------------
(***************************************************************************)
(* The order in which a page shows its cards, as the pages of alerts,      *)
(* integrations and Grafana keep it: a sequence of ids that outlives the   *)
(* list it was made for, is put right when another list comes, and is      *)
(* changed when the user drags a card onto another.                        *)
(***************************************************************************)
EXTENDS UiSequences

(* The ids of the order that are listed, each where it comes first.        *)
Kept(order, listed) ==
  LET firsts == {n \in DOMAIN order :
                   /\ order[n] \in listed
                   /\ \A m \in DOMAIN order : order[m] = order[n] => n <= m}
      nth(i) == CHOOSE n \in firsts :
                  Cardinality({m \in firsts : m <= n}) = i
  IN [i \in 1..Cardinality(firsts) |-> order[nth(i)]]
OrderWithoutNew(order, listed) == Kept(order, listed)
(* What is listed and was not kept comes last, in the order of the list.   *)
NormalizedOrder(order, listed) ==
  LET kept == Kept(order, listed)
  IN kept \o SetToSeq(listed \ Range(kept))

(* The source is taken out and put where the target was counted from the   *)
(* front.                                                                  *)
Moved(order, source, target) ==
  LET indexOf(id) == CHOOSE n \in DOMAIN order : order[n] = id
  IN InsertAt(RemoveAt(order, indexOf(source)), indexOf(target), source)

(* The order fits a list that has each of its items once.                  *)
Fits(order, listed) == Range(order) = listed /\ IsInjective(order)
=============================================================================
