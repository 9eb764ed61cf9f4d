--------------------------- MODULE ApiKeysProofs ---------------------------
(***************************************************************************)
(* Safety of the API keys for any number of users, groups, keys and scopes.*)
(***************************************************************************)
EXTENDS ApiKeys, TLAPS

LEMMA InitType == Init => TypeOK
  BY ScopeAssumption DEF Init, TypeOK, Rows

(***************************************************************************)
(* Every request keeps the state well typed: rows of keys, shares and      *)
(* hidden keys refer to rows that exist, whatever a deletion takes along.  *)
(***************************************************************************)
LEMMA NextType ==
  ASSUME TypeOK, [Next]_vars
  PROVE  TypeOK'
<1> USE DEF TypeOK, Rows
<1>1. ASSUME NEW u \in Users, NEW s \in Scopes, NEW G \in SUBSET Groups, NEW k \in Keys,
             CreateUser(u, s, G, k)
      PROVE  TypeOK'
  BY <1>1, NoUserAssumption DEF CreateUser
<1>2. ASSUME NEW u \in Users, NEW s \in Scopes, AssignOrg(u, s)
      PROVE  TypeOK'
  BY <1>2, NoUserAssumption DEF AssignOrg, OthersOff, KeysOf
<1>3. ASSUME NEW u \in Users, NEW a \in BOOLEAN, SetActive(u, a)
      PROVE  TypeOK'
  BY <1>3 DEF SetActive, keyVars
<1>4. ASSUME NEW u \in Users, DeleteUser(u)
      PROVE  TypeOK'
  BY <1>4, NoUserAssumption, ScopeAssumption DEF DeleteUser, KeysOf, CascadeFrom
<1>5. ASSUME NEW g \in Groups, NEW M \in SUBSET Users, SetMembers(g, M)
      PROVE  TypeOK'
  BY <1>5 DEF SetMembers, keyVars
<1>6. ASSUME NEW u \in Users, NEW k \in Keys, NEW s \in Scopes, CreateKey(u, k, s)
      PROVE  TypeOK'
  BY <1>6, NoUserAssumption DEF CreateKey, OthersOff, KeysOf
<1>7. ASSUME NEW u \in Users, NEW k \in Keys, SetDefault(u, k)
      PROVE  TypeOK'
  BY <1>7, NoUserAssumption DEF SetDefault, OthersOff, KeysOf
<1>8. ASSUME NEW u \in Users, NEW k \in Keys, EnableKey(u, k)
      PROVE  TypeOK'
  BY <1>8, NoUserAssumption DEF EnableKey, OthersOff, KeysOf
<1>9. ASSUME NEW u \in Users, NEW k \in Keys, DisableKey(u, k)
      PROVE  TypeOK'
  BY <1>9, NoUserAssumption DEF DisableKey, Replacements, KeysOf
<1>10. ASSUME NEW u \in Users, NEW k \in Keys, UseShared(u, k)
       PROVE  TypeOK'
  BY <1>10 DEF UseShared, KeysOf
<1>11. ASSUME NEW u \in Users, NEW k \in Keys, DeleteKey(u, k)
       PROVE  TypeOK'
  BY <1>11, NoUserAssumption, ScopeAssumption DEF DeleteKey, Deletable, FallbackAfter, KeysOf
<1>12. ASSUME NEW u \in Users, NEW k \in Keys, NEW S \in SUBSET Users, NEW G \in SUBSET Groups,
              ReplaceShares(u, k, S, G)
       PROVE  TypeOK'
  BY <1>12, NoUserAssumption DEF ReplaceShares, keyVars
<1>13. ASSUME NEW u \in Users, NEW k \in Keys, NEW v \in Users, DeleteShare(u, k, v)
       PROVE  TypeOK'
  BY <1>13 DEF DeleteShare, keyVars
<1>14. ASSUME NEW u \in Users, NEW k \in Keys, NEW h \in BOOLEAN, SetHidden(u, k, h)
       PROVE  TypeOK'
  BY <1>14 DEF SetHidden, IsShared, keyVars
<1>15. ASSUME UNCHANGED vars
       PROVE  TypeOK'
  BY <1>15 DEF vars, keyVars
<1> QED
  BY <1>1, <1>2, <1>3, <1>4, <1>5, <1>6, <1>7, <1>8, <1>9, <1>10, <1>11, <1>12, <1>13,
     <1>14, <1>15 DEF Next, UserStep, KeyStep, ShareStep

(***************************************************************************)
(* Type correctness, with it the referential integrity of the rows.        *)
(***************************************************************************)
THEOREM TypeCorrect == Spec => []TypeOK
  BY InitType, NextType, PTL DEF Spec
(***************************************************************************)
(* Only five requests touch the default flags or the owner of a row. A new *)
(* account brings its default key; SetDefault moves the flag; and DeleteKey *)
(* refuses the default key.                                                *)
(***************************************************************************)
LEMMA NextOneDefault ==
  ASSUME TypeOK, OneDefault, [Next]_vars
  PROVE  OneDefault'
<1> USE DEF OneDefault, KeysOf
<1>1. ASSUME NEW u \in Users, NEW s \in Scopes, NEW G \in SUBSET Groups, NEW k \in Keys,
             CreateUser(u, s, G, k)
      PROVE  OneDefault'
  BY <1>1, NoUserAssumption DEF CreateUser, TypeOK, Rows
<1>2. ASSUME NEW u \in Users, NEW s \in Scopes, AssignOrg(u, s)
      PROVE  OneDefault'
  BY <1>2 DEF AssignOrg, keyVars
<1>3. ASSUME NEW u \in Users, NEW a \in BOOLEAN, SetActive(u, a)
      PROVE  OneDefault'
  BY <1>3 DEF SetActive, keyVars
<1>4. ASSUME NEW u \in Users, DeleteUser(u)
      PROVE  OneDefault'
  BY <1>4, NoUserAssumption DEF DeleteUser
<1>5. ASSUME NEW g \in Groups, NEW M \in SUBSET Users, SetMembers(g, M)
      PROVE  OneDefault'
  BY <1>5 DEF SetMembers, keyVars
<1>6. ASSUME NEW u \in Users, NEW k \in Keys, NEW s \in Scopes, CreateKey(u, k, s)
      PROVE  OneDefault'
  BY <1>6, NoUserAssumption DEF CreateKey, TypeOK, Rows
<1>7. ASSUME NEW u \in Users, NEW k \in Keys, SetDefault(u, k)
      PROVE  OneDefault'
  BY <1>7, NoUserAssumption DEF SetDefault, TypeOK, Rows
<1>8. ASSUME NEW u \in Users, NEW k \in Keys, EnableKey(u, k)
      PROVE  OneDefault'
  BY <1>8 DEF EnableKey, keyVars
<1>9. ASSUME NEW u \in Users, NEW k \in Keys, DisableKey(u, k)
      PROVE  OneDefault'
  BY <1>9 DEF DisableKey, keyVars
<1>10. ASSUME NEW u \in Users, NEW k \in Keys, UseShared(u, k)
       PROVE  OneDefault'
  BY <1>10 DEF UseShared, keyVars
<1>11. ASSUME NEW u \in Users, NEW k \in Keys, DeleteKey(u, k)
       PROVE  OneDefault'
  BY <1>11, NoUserAssumption DEF DeleteKey, Deletable, TypeOK, Rows
<1>12. ASSUME NEW u \in Users, NEW k \in Keys, NEW S \in SUBSET Users, NEW G \in SUBSET Groups,
              ReplaceShares(u, k, S, G)
       PROVE  OneDefault'
  BY <1>12 DEF ReplaceShares, keyVars
<1>13. ASSUME NEW u \in Users, NEW k \in Keys, NEW v \in Users, DeleteShare(u, k, v)
       PROVE  OneDefault'
  BY <1>13 DEF DeleteShare, keyVars
<1>14. ASSUME NEW u \in Users, NEW k \in Keys, NEW h \in BOOLEAN, SetHidden(u, k, h)
       PROVE  OneDefault'
  BY <1>14 DEF SetHidden, keyVars
<1>15. ASSUME UNCHANGED vars
       PROVE  OneDefault'
  BY <1>15 DEF vars, keyVars
<1> QED
  BY <1>1, <1>2, <1>3, <1>4, <1>5, <1>6, <1>7, <1>8,
     <1>9, <1>10, <1>11, <1>12, <1>13, <1>14, <1>15 DEF Next, UserStep, KeyStep, ShareStep

(***************************************************************************)
(* Whatever enables a key switches the user's others off first; the key a  *)
(* deletion falls back to is one, by OneDefault, and is enabled only when  *)
(* no other is; in DisableKey the index refuses what would leave two.      *)
(***************************************************************************)
LEMMA NextOneEnabled ==
  ASSUME TypeOK, OneDefault, OneEnabled, [Next]_vars
  PROVE  OneEnabled'
<1> USE DEF OneEnabled, KeysOf, OthersOff
<1>1. ASSUME NEW u \in Users, NEW s \in Scopes, NEW G \in SUBSET Groups, NEW k \in Keys,
             CreateUser(u, s, G, k)
      PROVE  OneEnabled'
  BY <1>1, NoUserAssumption DEF CreateUser, TypeOK, Rows
<1>2. ASSUME NEW u \in Users, NEW s \in Scopes, AssignOrg(u, s)
      PROVE  OneEnabled'
  BY <1>2 DEF AssignOrg, TypeOK, Rows
<1>3. ASSUME NEW u \in Users, NEW a \in BOOLEAN, SetActive(u, a)
      PROVE  OneEnabled'
  BY <1>3 DEF SetActive, keyVars
<1>4. ASSUME NEW u \in Users, DeleteUser(u)
      PROVE  OneEnabled'
  BY <1>4, NoUserAssumption DEF DeleteUser, TypeOK, Rows
<1>5. ASSUME NEW g \in Groups, NEW M \in SUBSET Users, SetMembers(g, M)
      PROVE  OneEnabled'
  BY <1>5 DEF SetMembers, keyVars
<1>6. ASSUME NEW u \in Users, NEW k \in Keys, NEW s \in Scopes, CreateKey(u, k, s)
      PROVE  OneEnabled'
  BY <1>6, NoUserAssumption DEF CreateKey, TypeOK, Rows
<1>7. ASSUME NEW u \in Users, NEW k \in Keys, SetDefault(u, k)
      PROVE  OneEnabled'
  BY <1>7 DEF SetDefault, TypeOK, Rows
<1>8. ASSUME NEW u \in Users, NEW k \in Keys, EnableKey(u, k)
      PROVE  OneEnabled'
  BY <1>8 DEF EnableKey, TypeOK, Rows
<1>9. ASSUME NEW u \in Users, NEW k \in Keys, DisableKey(u, k)
      PROVE  OneEnabled'
  BY <1>9 DEF DisableKey, EnabledIndexAllows, Replacements, TypeOK, Rows
<1>10. ASSUME NEW u \in Users, NEW k \in Keys, UseShared(u, k)
       PROVE  OneEnabled'
  BY <1>10 DEF UseShared, keyVars
<1>11. ASSUME NEW u \in Users, NEW k \in Keys, DeleteKey(u, k)
       PROVE  OneEnabled'
  BY <1>11, NoUserAssumption DEF DeleteKey, Deletable, FallbackAfter, OneDefault, TypeOK, Rows
<1>12. ASSUME NEW u \in Users, NEW k \in Keys, NEW S \in SUBSET Users, NEW G \in SUBSET Groups,
              ReplaceShares(u, k, S, G)
       PROVE  OneEnabled'
  BY <1>12 DEF ReplaceShares, keyVars
<1>13. ASSUME NEW u \in Users, NEW k \in Keys, NEW v \in Users, DeleteShare(u, k, v)
       PROVE  OneEnabled'
  BY <1>13 DEF DeleteShare, keyVars
<1>14. ASSUME NEW u \in Users, NEW k \in Keys, NEW h \in BOOLEAN, SetHidden(u, k, h)
       PROVE  OneEnabled'
  BY <1>14 DEF SetHidden, keyVars
<1>15. ASSUME UNCHANGED vars
       PROVE  OneEnabled'
  BY <1>15 DEF vars, keyVars
<1> QED
  BY <1>1, <1>2, <1>3, <1>4, <1>5, <1>6, <1>7, <1>8,
     <1>9, <1>10, <1>11, <1>12, <1>13, <1>14, <1>15 DEF Next, UserStep, KeyStep, ShareStep

(***************************************************************************)
(* The flag is set only on a key without shares, shares are made only of   *)
(* keys without the flag, and a new default key is a new row, to which no  *)
(* share can refer.                                                        *)
(***************************************************************************)
LEMMA NextDefaultNotShared ==
  ASSUME TypeOK, DefaultNotShared, [Next]_vars
  PROVE  DefaultNotShared'
<1> USE DEF DefaultNotShared
<1>1. ASSUME NEW u \in Users, NEW s \in Scopes, NEW G \in SUBSET Groups, NEW k \in Keys,
             CreateUser(u, s, G, k)
      PROVE  DefaultNotShared'
  BY <1>1 DEF CreateUser, TypeOK, Rows
<1>2. ASSUME NEW u \in Users, NEW s \in Scopes, AssignOrg(u, s)
      PROVE  DefaultNotShared'
  BY <1>2 DEF AssignOrg, keyVars
<1>3. ASSUME NEW u \in Users, NEW a \in BOOLEAN, SetActive(u, a)
      PROVE  DefaultNotShared'
  BY <1>3 DEF SetActive, keyVars
<1>4. ASSUME NEW u \in Users, DeleteUser(u)
      PROVE  DefaultNotShared'
  BY <1>4 DEF DeleteUser, CascadeFrom
<1>5. ASSUME NEW g \in Groups, NEW M \in SUBSET Users, SetMembers(g, M)
      PROVE  DefaultNotShared'
  BY <1>5 DEF SetMembers, keyVars
<1>6. ASSUME NEW u \in Users, NEW k \in Keys, NEW s \in Scopes, CreateKey(u, k, s)
      PROVE  DefaultNotShared'
  BY <1>6 DEF CreateKey, keyVars
<1>7. ASSUME NEW u \in Users, NEW k \in Keys, SetDefault(u, k)
      PROVE  DefaultNotShared'
  BY <1>7 DEF SetDefault, MayBeDefault
<1>8. ASSUME NEW u \in Users, NEW k \in Keys, EnableKey(u, k)
      PROVE  DefaultNotShared'
  BY <1>8 DEF EnableKey, keyVars
<1>9. ASSUME NEW u \in Users, NEW k \in Keys, DisableKey(u, k)
      PROVE  DefaultNotShared'
  BY <1>9 DEF DisableKey, keyVars
<1>10. ASSUME NEW u \in Users, NEW k \in Keys, UseShared(u, k)
       PROVE  DefaultNotShared'
  BY <1>10 DEF UseShared, keyVars
<1>11. ASSUME NEW u \in Users, NEW k \in Keys, DeleteKey(u, k)
       PROVE  DefaultNotShared'
  BY <1>11 DEF DeleteKey
<1>12. ASSUME NEW u \in Users, NEW k \in Keys, NEW S \in SUBSET Users, NEW G \in SUBSET Groups,
              ReplaceShares(u, k, S, G)
       PROVE  DefaultNotShared'
  BY <1>12 DEF ReplaceShares, keyVars
<1>13. ASSUME NEW u \in Users, NEW k \in Keys, NEW v \in Users, DeleteShare(u, k, v)
       PROVE  DefaultNotShared'
  BY <1>13 DEF DeleteShare, keyVars
<1>14. ASSUME NEW u \in Users, NEW k \in Keys, NEW h \in BOOLEAN, SetHidden(u, k, h)
       PROVE  DefaultNotShared'
  BY <1>14 DEF SetHidden, keyVars
<1>15. ASSUME UNCHANGED vars
       PROVE  DefaultNotShared'
  BY <1>15 DEF vars, keyVars
<1> QED
  BY <1>1, <1>2, <1>3, <1>4, <1>5, <1>6, <1>7, <1>8,
     <1>9, <1>10, <1>11, <1>12, <1>13, <1>14, <1>15 DEF Next, UserStep, KeyStep, ShareStep

(***************************************************************************)
(* Shares leave the owner out, hiding needs a share, and the owner of a row *)
(* never changes while the row exists.                                     *)
(***************************************************************************)
LEMMA NextNeverAgainstOwner ==
  ASSUME TypeOK, NeverAgainstOwner, [Next]_vars
  PROVE  NeverAgainstOwner'
<1> USE DEF NeverAgainstOwner
<1>1. ASSUME NEW u \in Users, NEW s \in Scopes, NEW G \in SUBSET Groups, NEW k \in Keys,
             CreateUser(u, s, G, k)
      PROVE  NeverAgainstOwner'
  BY <1>1 DEF CreateUser, TypeOK, Rows
<1>2. ASSUME NEW u \in Users, NEW s \in Scopes, AssignOrg(u, s)
      PROVE  NeverAgainstOwner'
  BY <1>2 DEF AssignOrg, keyVars
<1>3. ASSUME NEW u \in Users, NEW a \in BOOLEAN, SetActive(u, a)
      PROVE  NeverAgainstOwner'
  BY <1>3 DEF SetActive, keyVars
<1>4. ASSUME NEW u \in Users, DeleteUser(u)
      PROVE  NeverAgainstOwner'
  BY <1>4 DEF DeleteUser, CascadeFrom, KeysOf, TypeOK, Rows
<1>5. ASSUME NEW g \in Groups, NEW M \in SUBSET Users, SetMembers(g, M)
      PROVE  NeverAgainstOwner'
  BY <1>5 DEF SetMembers, keyVars
<1>6. ASSUME NEW u \in Users, NEW k \in Keys, NEW s \in Scopes, CreateKey(u, k, s)
      PROVE  NeverAgainstOwner'
  BY <1>6 DEF CreateKey, TypeOK, Rows
<1>7. ASSUME NEW u \in Users, NEW k \in Keys, SetDefault(u, k)
      PROVE  NeverAgainstOwner'
  BY <1>7 DEF SetDefault, keyVars
<1>8. ASSUME NEW u \in Users, NEW k \in Keys, EnableKey(u, k)
      PROVE  NeverAgainstOwner'
  BY <1>8 DEF EnableKey, keyVars
<1>9. ASSUME NEW u \in Users, NEW k \in Keys, DisableKey(u, k)
      PROVE  NeverAgainstOwner'
  BY <1>9 DEF DisableKey, keyVars
<1>10. ASSUME NEW u \in Users, NEW k \in Keys, UseShared(u, k)
       PROVE  NeverAgainstOwner'
  BY <1>10 DEF UseShared, keyVars
<1>11. ASSUME NEW u \in Users, NEW k \in Keys, DeleteKey(u, k)
       PROVE  NeverAgainstOwner'
  BY <1>11 DEF DeleteKey, TypeOK, Rows
<1>12. ASSUME NEW u \in Users, NEW k \in Keys, NEW S \in SUBSET Users, NEW G \in SUBSET Groups,
              ReplaceShares(u, k, S, G)
       PROVE  NeverAgainstOwner'
  BY <1>12 DEF ReplaceShares, Sharees, keyVars
<1>13. ASSUME NEW u \in Users, NEW k \in Keys, NEW v \in Users, DeleteShare(u, k, v)
       PROVE  NeverAgainstOwner'
  BY <1>13 DEF DeleteShare, keyVars
<1>14. ASSUME NEW u \in Users, NEW k \in Keys, NEW h \in BOOLEAN, SetHidden(u, k, h)
       PROVE  NeverAgainstOwner'
  BY <1>14 DEF SetHidden, IsShared, keyVars
<1>15. ASSUME UNCHANGED vars
       PROVE  NeverAgainstOwner'
  BY <1>15 DEF vars, keyVars
<1> QED
  BY <1>1, <1>2, <1>3, <1>4, <1>5, <1>6, <1>7, <1>8,
     <1>9, <1>10, <1>11, <1>12, <1>13, <1>14, <1>15 DEF Next, UserStep, KeyStep, ShareStep

(***************************************************************************)
(* The inductive invariant: each conjunct but TypeOK leans on TypeOK, which *)
(* keeps shares and hidden rows off rows that do not exist, and OneEnabled *)
(* leans on OneDefault as well.                                            *)
(***************************************************************************)
IInv == TypeOK /\ OneDefault /\ OneEnabled /\ DefaultNotShared /\ NeverAgainstOwner

LEMMA IInvHolds == Spec => []IInv
<1>1. Init => IInv
  BY InitType DEF Init, IInv, OneDefault, OneEnabled, DefaultNotShared, NeverAgainstOwner
<1>2. IInv /\ [Next]_vars => IInv'
  BY NextType, NextOneDefault, NextOneEnabled, NextDefaultNotShared, NextNeverAgainstOwner
     DEF IInv
<1> QED
  BY <1>1, <1>2, PTL DEF Spec

(***************************************************************************)
(* Every account owns exactly one default key, always: the fallback of     *)
(* delete_api_key and of disabling a key exists and is unique.             *)
(***************************************************************************)
THEOREM OneDefaultHolds == Spec => []OneDefault
<1>1. IInv => OneDefault
  BY DEF IInv
<1> QED
  BY <1>1, IInvHolds, PTL

(***************************************************************************)
(* No account ever owns two enabled keys.                                  *)
(***************************************************************************)
THEOREM OneEnabledHolds == Spec => []OneEnabled
<1>1. IInv => OneEnabled
  BY DEF IInv
<1> QED
  BY <1>1, IInvHolds, PTL

(***************************************************************************)
(* A default key is never shared, in whatever order sharing, changing the  *)
(* default and recreating accounts come.                                   *)
(***************************************************************************)
THEOREM DefaultNotSharedHolds == Spec => []DefaultNotShared
<1>1. IInv => DefaultNotShared
  BY DEF IInv
<1> QED
  BY <1>1, IInvHolds, PTL

(***************************************************************************)
(* No share and no hidden row is ever about the key's own owner.           *)
(***************************************************************************)
THEOREM NeverAgainstOwnerHolds == Spec => []NeverAgainstOwner
<1>1. IInv => NeverAgainstOwner
  BY DEF IInv
<1> QED
  BY <1>1, IInvHolds, PTL

(***************************************************************************)
(* Only UseShared takes a user's last enabled key away; it leaves org on the *)
(* scope of the key used, which is shared with that user. A deletion falls *)
(* back to the default key, which OneDefault says is there.                *)
(***************************************************************************)
LEMMA StepKeepsEnabled ==
  ASSUME TypeOK, OneDefault, [Next]_vars
  PROVE  \A v \in accounts \cap accounts' : LosesEnabledOnlyToShare(v)
<1> USE DEF LosesEnabledOnlyToShare, KeysOf, OthersOff
<1>1. ASSUME NEW u \in Users, NEW s \in Scopes, NEW G \in SUBSET Groups, NEW k \in Keys,
             CreateUser(u, s, G, k)
      PROVE  \A v \in accounts \cap accounts' : LosesEnabledOnlyToShare(v)
  BY <1>1, NoUserAssumption DEF CreateUser, TypeOK, Rows
<1>2. ASSUME NEW u \in Users, NEW s \in Scopes, AssignOrg(u, s)
      PROVE  \A v \in accounts \cap accounts' : LosesEnabledOnlyToShare(v)
  BY <1>2, NoUserAssumption DEF AssignOrg, TypeOK, Rows
<1>3. ASSUME NEW u \in Users, NEW a \in BOOLEAN, SetActive(u, a)
      PROVE  \A v \in accounts \cap accounts' : LosesEnabledOnlyToShare(v)
  BY <1>3 DEF SetActive, keyVars
<1>4. ASSUME NEW u \in Users, DeleteUser(u)
      PROVE  \A v \in accounts \cap accounts' : LosesEnabledOnlyToShare(v)
  BY <1>4, NoUserAssumption DEF DeleteUser, TypeOK, Rows
<1>5. ASSUME NEW g \in Groups, NEW M \in SUBSET Users, SetMembers(g, M)
      PROVE  \A v \in accounts \cap accounts' : LosesEnabledOnlyToShare(v)
  BY <1>5 DEF SetMembers, keyVars
<1>6. ASSUME NEW u \in Users, NEW k \in Keys, NEW s \in Scopes, CreateKey(u, k, s)
      PROVE  \A v \in accounts \cap accounts' : LosesEnabledOnlyToShare(v)
  BY <1>6, NoUserAssumption DEF CreateKey, TypeOK, Rows
<1>7. ASSUME NEW u \in Users, NEW k \in Keys, SetDefault(u, k)
      PROVE  \A v \in accounts \cap accounts' : LosesEnabledOnlyToShare(v)
  BY <1>7 DEF SetDefault, TypeOK, Rows
<1>8. ASSUME NEW u \in Users, NEW k \in Keys, EnableKey(u, k)
      PROVE  \A v \in accounts \cap accounts' : LosesEnabledOnlyToShare(v)
  BY <1>8 DEF EnableKey, TypeOK, Rows
<1>9. ASSUME NEW u \in Users, NEW k \in Keys, DisableKey(u, k)
      PROVE  \A v \in accounts \cap accounts' : LosesEnabledOnlyToShare(v)
  BY <1>9 DEF DisableKey, Replacements, TypeOK, Rows
<1>10. ASSUME NEW u \in Users, NEW k \in Keys, UseShared(u, k)
       PROVE  \A v \in accounts \cap accounts' : LosesEnabledOnlyToShare(v)
  BY <1>10 DEF UseShared, IsShared, TypeOK, Rows
<1>11. ASSUME NEW u \in Users, NEW k \in Keys, DeleteKey(u, k)
       PROVE  \A v \in accounts \cap accounts' : LosesEnabledOnlyToShare(v)
  BY <1>11, NoUserAssumption DEF DeleteKey, Deletable, FallbackAfter, OneDefault, TypeOK, Rows
<1>12. ASSUME NEW u \in Users, NEW k \in Keys, NEW S \in SUBSET Users, NEW G \in SUBSET Groups,
              ReplaceShares(u, k, S, G)
       PROVE  \A v \in accounts \cap accounts' : LosesEnabledOnlyToShare(v)
  BY <1>12 DEF ReplaceShares, keyVars
<1>13. ASSUME NEW u \in Users, NEW k \in Keys, NEW v \in Users, DeleteShare(u, k, v)
       PROVE  \A x \in accounts \cap accounts' : LosesEnabledOnlyToShare(x)
  BY <1>13 DEF DeleteShare, keyVars
<1>14. ASSUME NEW u \in Users, NEW k \in Keys, NEW h \in BOOLEAN, SetHidden(u, k, h)
       PROVE  \A v \in accounts \cap accounts' : LosesEnabledOnlyToShare(v)
  BY <1>14 DEF SetHidden, keyVars
<1>15. ASSUME UNCHANGED vars
       PROVE  \A v \in accounts \cap accounts' : LosesEnabledOnlyToShare(v)
  BY <1>15 DEF vars, keyVars
<1> QED
  BY <1>1, <1>2, <1>3, <1>4, <1>5, <1>6, <1>7, <1>8,
     <1>9, <1>10, <1>11, <1>12, <1>13, <1>14, <1>15 DEF Next, UserStep, KeyStep, ShareStep

(***************************************************************************)
(* A user's last enabled key goes only when the user selects a shared one. *)
(***************************************************************************)
THEOREM EnabledLostOnlyToShareHolds == Spec => EnabledLostOnlyToShare
<1>1. IInv /\ [Next]_vars => [\A u \in accounts \cap accounts' : LosesEnabledOnlyToShare(u)]_vars
  BY StepKeepsEnabled DEF IInv
<1> QED
  BY <1>1, IInvHolds, PTL DEF Spec, EnabledLostOnlyToShare

(***************************************************************************)
(* Every write of org names the scope of a key the same step leaves enabled *)
(* for its owner, or shared with the user, but for the administrator's.    *)
(***************************************************************************)
LEMMA StepScopeProvenance ==
  ASSUME TypeOK, [Next]_vars
  PROVE  \A v \in accounts \cap accounts' : ScopeComesFromKeyOrAdmin(v)
<1> USE DEF ScopeComesFromKeyOrAdmin, KeysOf
<1>1. ASSUME NEW u \in Users, NEW s \in Scopes, NEW G \in SUBSET Groups, NEW k \in Keys,
             CreateUser(u, s, G, k)
      PROVE  \A v \in accounts \cap accounts' : ScopeComesFromKeyOrAdmin(v)
  BY <1>1 DEF CreateUser, TypeOK, Rows
<1>2. ASSUME NEW u \in Users, NEW s \in Scopes, AssignOrg(u, s)
      PROVE  \A v \in accounts \cap accounts' : ScopeComesFromKeyOrAdmin(v)
  <2>1. org' = [org EXCEPT ![u] = s] /\ org \in [Users -> Scopes]
    BY <1>2 DEF AssignOrg, TypeOK
  <2>2. org'[u] = s
    BY <2>1
  <2>3. AssignOrg(u, org'[u])
    BY <1>2, <2>2
  <2>4. \A v \in accounts : v # u => org'[v] = org[v]
    BY <2>1 DEF TypeOK
  <2> QED
    BY <2>3, <2>4
<1>3. ASSUME NEW u \in Users, NEW a \in BOOLEAN, SetActive(u, a)
      PROVE  \A v \in accounts \cap accounts' : ScopeComesFromKeyOrAdmin(v)
  BY <1>3 DEF SetActive, keyVars
<1>4. ASSUME NEW u \in Users, DeleteUser(u)
      PROVE  \A v \in accounts \cap accounts' : ScopeComesFromKeyOrAdmin(v)
  BY <1>4 DEF DeleteUser, TypeOK, Rows
<1>5. ASSUME NEW g \in Groups, NEW M \in SUBSET Users, SetMembers(g, M)
      PROVE  \A v \in accounts \cap accounts' : ScopeComesFromKeyOrAdmin(v)
  BY <1>5 DEF SetMembers, keyVars
<1>6. ASSUME NEW u \in Users, NEW k \in Keys, NEW s \in Scopes, CreateKey(u, k, s)
      PROVE  \A v \in accounts \cap accounts' : ScopeComesFromKeyOrAdmin(v)
  BY <1>6 DEF CreateKey, TypeOK, Rows
<1>7. ASSUME NEW u \in Users, NEW k \in Keys, SetDefault(u, k)
      PROVE  \A v \in accounts \cap accounts' : ScopeComesFromKeyOrAdmin(v)
  BY <1>7 DEF SetDefault, TypeOK, Rows
<1>8. ASSUME NEW u \in Users, NEW k \in Keys, EnableKey(u, k)
      PROVE  \A v \in accounts \cap accounts' : ScopeComesFromKeyOrAdmin(v)
  BY <1>8 DEF EnableKey, TypeOK, Rows
<1>9. ASSUME NEW u \in Users, NEW k \in Keys, DisableKey(u, k)
      PROVE  \A v \in accounts \cap accounts' : ScopeComesFromKeyOrAdmin(v)
  BY <1>9 DEF DisableKey, Replacements, TypeOK, Rows
<1>10. ASSUME NEW u \in Users, NEW k \in Keys, UseShared(u, k)
       PROVE  \A v \in accounts \cap accounts' : ScopeComesFromKeyOrAdmin(v)
  BY <1>10 DEF UseShared, IsShared, TypeOK, Rows
<1>11. ASSUME NEW u \in Users, NEW k \in Keys, DeleteKey(u, k)
       PROVE  \A v \in accounts \cap accounts' : ScopeComesFromKeyOrAdmin(v)
  BY <1>11 DEF DeleteKey, Deletable, FallbackAfter, TypeOK, Rows
<1>12. ASSUME NEW u \in Users, NEW k \in Keys, NEW S \in SUBSET Users, NEW G \in SUBSET Groups,
              ReplaceShares(u, k, S, G)
       PROVE  \A v \in accounts \cap accounts' : ScopeComesFromKeyOrAdmin(v)
  BY <1>12 DEF ReplaceShares, keyVars
<1>13. ASSUME NEW u \in Users, NEW k \in Keys, NEW v \in Users, DeleteShare(u, k, v)
       PROVE  \A x \in accounts \cap accounts' : ScopeComesFromKeyOrAdmin(x)
  BY <1>13 DEF DeleteShare, keyVars
<1>14. ASSUME NEW u \in Users, NEW k \in Keys, NEW h \in BOOLEAN, SetHidden(u, k, h)
       PROVE  \A v \in accounts \cap accounts' : ScopeComesFromKeyOrAdmin(v)
  BY <1>14 DEF SetHidden, keyVars
<1>15. ASSUME UNCHANGED vars
       PROVE  \A v \in accounts \cap accounts' : ScopeComesFromKeyOrAdmin(v)
  BY <1>15 DEF vars, keyVars
<1> QED
  BY <1>1, <1>2, <1>3, <1>4, <1>5, <1>6, <1>7, <1>8,
     <1>9, <1>10, <1>11, <1>12, <1>13, <1>14, <1>15 DEF Next, UserStep, KeyStep, ShareStep

(***************************************************************************)
(* A user moves only to a scope of a key they own or are given a share     *)
(* of, or that an administrator assigns.                                   *)
(***************************************************************************)
THEOREM ScopeProvenanceHolds == Spec => ScopeProvenance
<1>1. IInv /\ [Next]_vars => [\A u \in accounts \cap accounts' : ScopeComesFromKeyOrAdmin(u)]_vars
  BY StepScopeProvenance DEF IInv
<1> QED
  BY <1>1, IInvHolds, PTL DEF Spec, ScopeProvenance

=============================================================================
