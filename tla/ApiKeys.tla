------------------------------ MODULE ApiKeys ------------------------------
(***************************************************************************)
(* API keys of one tenant: the rows of user_api_keys, api_key_shares and   *)
(* hidden_api_keys, and users.org_id, the scope a user's queries run in.   *)
(* A request is one database transaction; this module takes requests one   *)
(* at a time (ApiKeyRace interleaves their statements).  A transaction     *)
(* that raises is rolled back, so a refused request is no step at all.     *)
(*                                                                         *)
(* Left out: names, timestamps, the audit log, OTLP tokens (OtlpGateway)   *)
(* and groups.is_active, which can only refuse a share made here.          *)
(* A row id is a UUID; here the id of a deleted row may be used again.     *)
(* org and scope are DefaultScope (DEFAULT_ORG_ID) where there is no row.  *)
(***************************************************************************)
EXTENDS Naturals, FiniteSets

CONSTANTS Users, Groups, Keys, Scopes, DefaultScope, NoUser, MaxKeysPerUser

ASSUME NoUserAssumption == NoUser \notin Users
ASSUME ScopeAssumption == DefaultScope \in Scopes
ASSUME LimitAssumption == MaxKeysPerUser \in Nat

VARIABLES
    accounts,   \* rows of users
    active,     \* those with is_active
    members,    \* group -> users, the rows of user_groups
    org,        \* user -> org_id
    owner,      \* key -> user_id, NoUser where there is no row
    scope,      \* key -> column "key", the scope the key names
    isDefault,  \* keys with is_default
    isEnabled,  \* keys with is_enabled
    shares,     \* pairs of a key and a user it is shared with
    hidden      \* pairs of a key and a user who hid it

keyVars == <<owner, scope, isDefault, isEnabled>>
vars == <<accounts, active, members, org, keyVars, shares, hidden>>

KeysOf(u) == {k \in Keys : owner[k] = u}
Rows == {k \in Keys : owner[k] # NoUser}

\* _disable_other_enabled_keys: switch off what u owns, k excepted.
OthersOff(u, k) == isEnabled \ (KeysOf(u) \ {k})

(***************************************************************************)
(* The partial unique index on user_id where is_enabled: a transaction     *)
(* that would leave a user two enabled keys fails with IntegrityError.     *)
(***************************************************************************)
IndexDropped(u, enabled) == TRUE
EnabledIndexAllows(u, enabled) ==
    \A k1, k2 \in KeysOf(u) \cap enabled : k1 = k2

Init ==
    /\ accounts = {}
    /\ active = {}
    /\ members = [g \in Groups |-> {}]
    /\ org = [u \in Users |-> DefaultScope]
    /\ owner = [k \in Keys |-> NoUser]
    /\ scope = [k \in Keys |-> DefaultScope]
    /\ isDefault = {}
    /\ isEnabled = {}
    /\ shares = {}
    /\ hidden = {}
-----------------------------------------------------------------------------
(* Users and groups, as far as they reach the keys. *)

\* create_user, and the default key ensure_default_api_key adds for it.
CreateUser(u, s, G, k) ==
    /\ u \notin accounts
    /\ k \notin Rows
    /\ accounts' = accounts \cup {u}
    /\ active' \in {active, active \cup {u}}
    /\ members' = [g \in Groups |-> IF g \in G THEN members[g] \cup {u} ELSE members[g]]
    /\ org' = [org EXCEPT ![u] = s]
    /\ owner' = [owner EXCEPT ![k] = u]
    /\ scope' = [scope EXCEPT ![k] = s]
    /\ isDefault' = isDefault \cup {k}
    /\ isEnabled' = isEnabled \cup {k}
    /\ UNCHANGED <<shares, hidden>>

(***************************************************************************)
(* update_user with an org_id, which then runs ensure_default_api_key: the *)
(* default key is found, so it is enabled and the others are switched off; *)
(* its scope is left as it is, whatever the new org_id.                    *)
(***************************************************************************)
AssignOrg(u, s) ==
    /\ u \in accounts
    /\ org' = [org EXCEPT ![u] = s]
    /\ \E d \in KeysOf(u) \cap isDefault :
          isEnabled' = OthersOff(u, d) \cup {d}
    /\ UNCHANGED <<accounts, active, members, owner, scope, isDefault, shares, hidden>>

SetActive(u, a) ==
    /\ u \in accounts
    /\ active' = IF a THEN active \cup {u} ELSE active \ {u}
    /\ UNCHANGED <<accounts, members, org, keyVars, shares, hidden>>

\* What a deleted user leaves of a set of <<key, user>> rows.
KeyCascadeOnly(pairs, u) == {p \in pairs : p[1] \notin KeysOf(u)}
CascadeFrom(pairs, u) == {p \in pairs : p[1] \notin KeysOf(u) /\ p[2] # u}

\* delete_user, with the rows the foreign keys cascade to.
DeleteUser(u) ==
    /\ u \in accounts
    /\ accounts' = accounts \ {u}
    /\ active' = active \ {u}
    /\ members' = [g \in Groups |-> members[g] \ {u}]
    /\ org' = [org EXCEPT ![u] = DefaultScope]
    /\ owner' = [k \in Keys |-> IF k \in KeysOf(u) THEN NoUser ELSE owner[k]]
    /\ scope' = [k \in Keys |-> IF k \in KeysOf(u) THEN DefaultScope ELSE scope[k]]
    /\ isDefault' = isDefault \ KeysOf(u)
    /\ isEnabled' = isEnabled \ KeysOf(u)
    /\ shares' = CascadeFrom(shares, u)
    /\ hidden' = CascadeFrom(hidden, u)

\* update_group_members; with M empty also delete_group. No share row changes.
SetMembers(g, M) ==
    /\ M \subseteq accounts
    /\ members' = [members EXCEPT ![g] = M]
    /\ UNCHANGED <<accounts, active, org, keyVars, shares, hidden>>
-----------------------------------------------------------------------------
(* Requests of an authenticated, hence active, user about keys. *)

\* create_api_key: a scope nobody's key names, given or a fresh UUID.
CreateKey(u, k, s) ==
    /\ u \in active
    /\ Cardinality(KeysOf(u)) < MaxKeysPerUser
    /\ \A x \in Rows : scope[x] # s
    /\ k \notin Rows
    /\ owner' = [owner EXCEPT ![k] = u]
    /\ scope' = [scope EXCEPT ![k] = s]
    /\ isEnabled' = OthersOff(u, k) \cup {k}
    /\ org' = [org EXCEPT ![u] = s]
    /\ UNCHANGED <<accounts, active, members, isDefault, shares, hidden>>

\* A key becomes the default only while nobody has a share of it.
SharesIgnored(k) == TRUE
MayBeDefault(k) == \A v \in Users : <<k, v>> \notin shares

\* update_api_key by the owner with is_default=true.
SetDefault(u, k) ==
    /\ u \in active
    /\ owner[k] = u
    /\ MayBeDefault(k)
    /\ isDefault' = (isDefault \ KeysOf(u)) \cup {k}
    /\ isEnabled' = OthersOff(u, k) \cup {k}
    /\ org' = [org EXCEPT ![u] = scope[k]]
    /\ UNCHANGED <<accounts, active, members, owner, scope, shares, hidden>>

\* update_api_key by the owner with is_enabled=true.
EnableKey(u, k) ==
    /\ u \in active
    /\ owner[k] = u
    /\ isEnabled' = OthersOff(u, k) \cup {k}
    /\ org' = [org EXCEPT ![u] = scope[k]]
    /\ UNCHANGED <<accounts, active, members, owner, scope, isDefault, shares, hidden>>

\* The key that replaces k: the default key first, then an enabled one.
Replacements(u, k) ==
    LET others == KeysOf(u) \ {k}
        defaults == others \cap isDefault
        enabled == others \cap isEnabled
    IN  IF defaults # {} THEN defaults
        ELSE IF enabled # {} THEN enabled
        ELSE others

\* update_api_key by the owner with is_enabled=false.
DisableKey(u, k) ==
    /\ u \in active
    /\ owner[k] = u
    /\ k \notin isDefault
    /\ \E r \in Replacements(u, k) :
          /\ isEnabled' = (isEnabled \ {k}) \cup {r}
          /\ EnabledIndexAllows(u, isEnabled')
          /\ org' = [org EXCEPT ![u] = scope[r]]
    /\ UNCHANGED <<accounts, active, members, owner, scope, isDefault, shares, hidden>>

\* The share a user needs to select, or to hide, another's key.
ShareNotNeeded(u, k) == owner[k] \notin {u, NoUser}
IsShared(u, k) == owner[k] \notin {u, NoUser} /\ <<k, u>> \in shares

\* update_api_key by a user the key is shared with: select it.
UseShared(u, k) ==
    /\ u \in active
    /\ IsShared(u, k)
    /\ isEnabled' = isEnabled \ KeysOf(u)
    /\ org' = [org EXCEPT ![u] = scope[k]]
    /\ UNCHANGED <<accounts, active, members, owner, scope, isDefault, shares, hidden>>

\* The key delete_api_key enables: the default one, when none is left enabled.
NoFallback(u, k) == {}
FallbackAfter(u, k) ==
    IF (KeysOf(u) \ {k}) \cap isEnabled = {} THEN KeysOf(u) \cap isDefault ELSE {}

AnyOwnKey(u, k) == owner[k] = u
Deletable(u, k) == owner[k] = u /\ k \notin isDefault

\* delete_api_key. org_id follows the fallback only if it named k's own scope.
DeleteKey(u, k) ==
    /\ u \in active
    /\ Deletable(u, k)
    /\ owner' = [owner EXCEPT ![k] = NoUser]
    /\ scope' = [scope EXCEPT ![k] = DefaultScope]
    /\ isDefault' = isDefault \ {k}
    /\ isEnabled' = (isEnabled \ {k}) \cup FallbackAfter(u, k)
    /\ IF org[u] = scope[k] /\ FallbackAfter(u, k) # {}
         THEN \E d \in FallbackAfter(u, k) : org' = [org EXCEPT ![u] = scope[d]]
         ELSE UNCHANGED org
    /\ shares' = {p \in shares : p[1] # k}
    /\ hidden' = {p \in hidden : p[1] # k}
    /\ UNCHANGED <<accounts, active, members>>

\* Whom a share of u's key reaches: users named, and active members of groups.
ShareesAndSelf(u, S, G) == S \cup (UNION {members[g] : g \in G} \cap active)
Sharees(u, S, G) ==
    (S \cup (UNION {members[g] : g \in G} \cap active)) \ {u}

\* replace_api_key_shares.
ReplaceShares(u, k, S, G) ==
    /\ u \in active
    /\ owner[k] = u
    /\ \A g \in G : u \in members[g]
    /\ k \in isDefault => Sharees(u, S, G) = {}
    /\ Sharees(u, S, G) \subseteq active
    /\ shares' = {p \in shares : p[1] # k} \cup ({k} \X Sharees(u, S, G))
    /\ UNCHANGED <<accounts, active, members, org, keyVars, hidden>>

\* delete_api_key_share.
DeleteShare(u, k, v) ==
    /\ u \in active
    /\ owner[k] = u
    /\ <<k, v>> \in shares
    /\ shares' = shares \ {<<k, v>>}
    /\ UNCHANGED <<accounts, active, members, org, keyVars, hidden>>

\* set_api_key_hidden, for a user the key is shared with.
SetHidden(u, k, h) ==
    /\ u \in active
    /\ IsShared(u, k)
    /\ hidden' = IF h THEN hidden \cup {<<k, u>>} ELSE hidden \ {<<k, u>>}
    /\ UNCHANGED <<accounts, active, members, org, keyVars, shares>>
-----------------------------------------------------------------------------
UserStep(u) ==
    \/ \E s \in Scopes, G \in SUBSET Groups, k \in Keys : CreateUser(u, s, G, k)
    \/ \E s \in Scopes : AssignOrg(u, s)
    \/ \E a \in BOOLEAN : SetActive(u, a)
    \/ DeleteUser(u)

KeyStep(u, k) ==
    \/ \E s \in Scopes : CreateKey(u, k, s)
    \/ SetDefault(u, k)
    \/ EnableKey(u, k)
    \/ DisableKey(u, k)
    \/ UseShared(u, k)
    \/ DeleteKey(u, k)
    \/ \E v \in Users : DeleteShare(u, k, v)
    \/ \E h \in BOOLEAN : SetHidden(u, k, h)

ShareStep(u, k) == \E S \in SUBSET Users, G \in SUBSET Groups : ReplaceShares(u, k, S, G)

Next ==
    \/ \E u \in Users : UserStep(u)
    \/ \E g \in Groups, M \in SUBSET Users : SetMembers(g, M)
    \/ \E u \in Users, k \in Keys : KeyStep(u, k) \/ ShareStep(u, k)

Spec == Init /\ [][Next]_vars
-----------------------------------------------------------------------------
TypeOK ==
    /\ accounts \subseteq Users
    /\ active \subseteq accounts
    /\ members \in [Groups -> SUBSET accounts]
    /\ org \in [Users -> Scopes]
    /\ owner \in [Keys -> accounts \cup {NoUser}]
    /\ scope \in [Keys -> Scopes]
    /\ isDefault \subseteq Rows
    /\ isEnabled \subseteq Rows
    /\ shares \subseteq Rows \X accounts
    /\ hidden \subseteq Rows \X accounts

(***************************************************************************)
(* Every account owns exactly one default key, through every change of the *)
(* default, every deletion and every org assignment: it is what            *)
(* delete_api_key and the disabling of a key fall back to.                 *)
(***************************************************************************)
OneDefault ==
    \A u \in accounts : \E k \in Keys : KeysOf(u) \cap isDefault = {k}

(***************************************************************************)
(* No account owns two enabled keys.  All requests but one switch the      *)
(* others off themselves; DisableKey needs the index.                      *)
(***************************************************************************)
OneEnabled ==
    \A k1, k2 \in isEnabled : owner[k1] = owner[k2] => k1 = k2

(***************************************************************************)
(* A default key is never shared with anyone: sharing looks at the flag,   *)
(* setting the flag looks at the shares.                                   *)
(***************************************************************************)
DefaultNotShared ==
    \A k \in isDefault, u \in Users : <<k, u>> \notin shares

(***************************************************************************)
(* Nobody shares a key with, or hides it from, its owner: list_api_keys    *)
(* hides an owned key too when it finds such a row, and set_api_key_hidden *)
(* would refuse to show it again.                                          *)
(***************************************************************************)
NeverAgainstOwner ==
    \A p \in shares \cup hidden : owner[p[1]] # p[2]

(***************************************************************************)
(* A step that leaves an account without an enabled key of its own leaves  *)
(* it on the scope of a key that is shared with it: no deletion, disabling *)
(* or change of default strands the account.                               *)
(***************************************************************************)
LosesEnabledOnlyToShare(u) ==
    KeysOf(u) \cap isEnabled # {} /\ KeysOf(u)' \cap isEnabled' = {}
    => \E k \in Keys : <<k, u>> \in shares' /\ scope'[k] = org'[u]

EnabledLostOnlyToShare ==
    [][\A u \in accounts \cap accounts' : LosesEnabledOnlyToShare(u)]_vars

(***************************************************************************)
(* A user's scope only ever moves to the scope of a key that user owns, or *)
(* of one another user shares with them; the administrator's assignment is *)
(* the one other way (a step of AssignOrg is named for what it is).        *)
(***************************************************************************)
ScopeComesFromKeyOrAdmin(u) ==
    \/ org'[u] = org[u]
    \/ \E k \in Keys : owner'[k] = u /\ k \in isEnabled' /\ scope'[k] = org'[u]
    \/ \E k \in Keys : <<k, u>> \in shares' /\ scope'[k] = org'[u]
    \/ AssignOrg(u, org'[u])

ScopeProvenance ==
    [][\A u \in accounts \cap accounts' : ScopeComesFromKeyOrAdmin(u)]_vars
=============================================================================
