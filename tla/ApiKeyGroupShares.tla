------------------------- MODULE ApiKeyGroupShares -------------------------
(***************************************************************************)
(* ApiKeys with a history variable: which shares were made by naming a     *)
(* group and not the user.  api_key_shares has no such column.             *)
(***************************************************************************)
EXTENDS ApiKeys, TLC

VARIABLE viaGroup   \* triples of a key, a user and the group named for it

InitG == Init /\ viaGroup = {}

\* What stays of the history when share rows only go away.
Surviving == {t \in viaGroup : <<t[1], t[2]>> \in shares'}

NextG ==
    \/ /\ \/ \E u \in Users : UserStep(u)
          \/ \E g \in Groups, M \in SUBSET Users : SetMembers(g, M)
          \/ \E u \in Users, k \in Keys : KeyStep(u, k)
       /\ viaGroup' = Surviving
    \/ \E u \in Users, k \in Keys, S \in SUBSET Users, G \in SUBSET Groups :
          /\ ReplaceShares(u, k, S, G)
          /\ viaGroup' = {t \in viaGroup : t[1] # k} \cup
                {t \in {k} \X (Sharees(u, {}, G) \ S) \X G : t[2] \in members[t[3]]}

SpecG == InitG /\ [][NextG]_<<vars, viaGroup>>

\* The keys list_api_keys returns to u, hidden ones asked for.
Listed(u) == KeysOf(u) \cup {k \in Keys : <<k, u>> \in shares}

(***************************************************************************)
(* A user who got a key by a group alone stops seeing it when the group is *)
(* deleted, or the user leaves it: what the workflow tests                 *)
(* test_group_deletion_revokes_group_shared_api_key_access_workflow and    *)
(* test_api_key_group_share_membership_revocation_workflow assert.         *)
(***************************************************************************)
GroupShareFollowsGroup ==
    \A t \in viaGroup :
        t[1] \in Listed(t[2]) => \E g \in Groups : <<t[1], t[2], g>> \in viaGroup /\ t[2] \in members[g]

Symmetry == Permutations(Users) \cup Permutations(Keys) \cup Permutations(Scopes \ {DefaultScope})
=============================================================================
