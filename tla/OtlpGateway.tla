---------------------------- MODULE OtlpGateway ----------------------------
(***************************************************************************)
(* Gatekeeper: every OTLP request is admitted by the org its token stands  *)
(* for, asked of Watchdog's internal API and cached for TTL, refusals too. *)
(* Nothing tells a gateway that a token was rotated, its key deleted or    *)
(* its owner deactivated.                                                  *)
(*                                                                         *)
(* The handler blocks its event loop, so a gateway serves one request at a *)
(* time; several gateways run, each with its own cache or all with one in  *)
(* Redis.  Time is counted in ticks, and ages instead of times are kept:   *)
(* they stop at the bound that matters, which makes time unbounded here.   *)
(* Latency bounds the age of a request to the API (httpx timeouts).        *)
(*                                                                         *)
(* The rows are those of ApiKeys, reduced to the token and whether owner   *)
(* and tenant are active; the hash of a token stands for the token.        *)
(***************************************************************************)
EXTENDS Naturals, FiniteSets

CONSTANTS
    Gateways, Keys, Tokens, Orgs,
    ScopeOf,       \* the scope of each key, fixed when it is created
    DefaultToken,  \* DEFAULT_OTLP_TOKEN, if there is one
    DefaultOrg,    \* DEFAULT_ORG_ID
    NoToken, NoOrg, Redis,
    TTL, Latency, MaxSize

ASSUME NothingAssumption == NoOrg \notin Orgs /\ NoToken \notin Tokens /\ Redis \notin Gateways
ASSUME ScopeAssumption == ScopeOf \in [Keys -> Orgs] /\ DefaultOrg \in Orgs
ASSUME DefaultTokenAssumption == DefaultToken \in Tokens \cup {NoToken}
ASSUME TimeAssumption == TTL \in Nat \ {0} /\ Latency \in Nat
ASSUME SizeAssumption == MaxSize \in Nat \ {0}

VARIABLES
    token,    \* key -> its current token, NoToken where there is no row
    live,     \* keys whose owner and tenant are active
    used,     \* tokens handed out so far; generate_otlp_token never repeats one
    shared,   \* gateways whose cache is in Redis; one that found no Redis keeps its own
    cache,    \* store -> token -> entry
    request,  \* gateway -> the request it is serving
    said      \* history: token -> org -> ticks since the API would last have said so

rows == <<token, live, used>>
vars == <<rows, shared, cache, request, said>>

Stores == Gateways \cup {Redis}
Answers == Orgs \cup {NoOrg}

(***************************************************************************)
(* An entry whose age has reached TTL is no hit any more; whether it still *)
(* takes up room in the store does not matter to any answer, so here it is *)
(* gone at once.                                                           *)
(***************************************************************************)
Missing == [org |-> NoOrg, age |-> TTL + 1]
Entries == [org : Answers, age : 0 .. TTL] \cup {Missing}

LateExpiry(e) == e.age > TTL
Expired(e) == e.age >= TTL

Idle == [at |-> "idle", token |-> NoToken, org |-> NoOrg, age |-> 0]
Requests == [at : {"idle", "arrived", "asking", "replied"},
             token : Tokens \cup {NoToken}, org : Answers, age : 0 .. Latency]

LongAgo == TTL + Latency

\* validate_otlp_token: the configured token first, then the row with its hash.
ResolvedBy(tokens, alive, t) ==
    LET K == {k \in alive : tokens[k] = t}
    IN  IF t = DefaultToken THEN DefaultOrg
        ELSE IF K = {} THEN NoOrg
        ELSE ScopeOf[CHOOSE k \in K : TRUE]

Resolve(t) == ResolvedBy(token, live, t)

Init ==
    /\ token = [k \in Keys |-> NoToken]
    /\ live = {}
    /\ used = {DefaultToken} \ {NoToken}
    /\ shared \in SUBSET Gateways
    /\ cache = [s \in Stores |-> [t \in Tokens |-> Missing]]
    /\ request = [g \in Gateways |-> Idle]
    /\ said = [t \in Tokens |-> [o \in Answers |-> IF o = Resolve(t) THEN 0 ELSE LongAgo]]
-----------------------------------------------------------------------------
(* Watchdog: what changes the answer of the API. *)

Note == said' = [t \in Tokens |->
                    [o \in Answers |->
                        IF o = ResolvedBy(token', live', t) THEN 0 ELSE said[t][o]]]

\* create_api_key, or the default key of create_user.
IssueKey(k, t) ==
    /\ token[k] = NoToken
    /\ t \notin used
    /\ token' = [token EXCEPT ![k] = t]
    /\ live' = live \cup {k}
    /\ used' = used \cup {t}
    /\ Note
    /\ UNCHANGED <<shared, cache, request>>

\* regenerate_api_key_otlp_token.
RotateToken(k, t) ==
    /\ token[k] # NoToken
    /\ t \notin used
    /\ token' = [token EXCEPT ![k] = t]
    /\ used' = used \cup {t}
    /\ UNCHANGED live
    /\ Note
    /\ UNCHANGED <<shared, cache, request>>

\* delete_api_key, delete_user.
RowLeftBehind(k) == live
RowRemoved(k) == live \ {k}

DropKey(k) ==
    /\ token[k] # NoToken
    /\ token' = [token EXCEPT ![k] = NoToken]
    /\ live' = RowRemoved(k)
    /\ Note
    /\ UNCHANGED <<used, shared, cache, request>>

\* update_user with is_active.
SetOwnerActive(k, a) ==
    /\ token[k] # NoToken
    /\ live' = IF a THEN live \cup {k} ELSE live \ {k}
    /\ UNCHANGED token
    /\ Note
    /\ UNCHANGED <<used, shared, cache, request>>
-----------------------------------------------------------------------------
(* Gatekeeper. *)

StoreOf(g) == IF g \in shared THEN Redis ELSE g

\* A request that has passed the allowlist and the rate limit, with a token.
Arrive(g, t) ==
    /\ request[g].at = "idle"
    /\ request' = [request EXCEPT ![g] = [Idle EXCEPT !.at = "arrived", !.token = t]]
    /\ UNCHANGED <<rows, shared, cache, said>>

\* The org a gateway that is about to answer puts in its answer.
OrgToAnswer(g) ==
    IF request[g].at = "arrived" THEN cache[StoreOf(g)][request[g].token].org
                                 ELSE request[g].org

Respond(g) == request' = [request EXCEPT ![g] = Idle]

\* _token_cache.get: a hit is the answer, and leaves the entry as it is.
Renewed(e) == [e EXCEPT !.age = 0]
AfterHit(e) == e

Lookup(g) ==
    /\ request[g].at = "arrived"
    /\ LET t == request[g].token
           e == cache[StoreOf(g)][t]
       IN  IF e # Missing
             THEN /\ Respond(g)
                  /\ cache' = [cache EXCEPT ![StoreOf(g)][t] = AfterHit(e)]
             ELSE /\ request' = [request EXCEPT ![g].at = "asking"]
                  /\ UNCHANGED cache
    /\ UNCHANGED <<rows, shared, said>>

\* The API reads the rows; its reply is on the way.
ApiResolves(g) ==
    /\ request[g].at = "asking"
    /\ request' = [request EXCEPT ![g].at = "replied",
                                  ![g].org = Resolve(request[g].token)]
    /\ UNCHANGED <<rows, shared, cache, said>>

\* validate_token_or_404 answers 404 to an exception it does not expect.
ApiConfused(g) ==
    /\ request[g].at = "asking"
    /\ request' = [request EXCEPT ![g].at = "replied", ![g].org = NoOrg]
    /\ said' = [said EXCEPT ![request[g].token][NoOrg] = 0]
    /\ UNCHANGED <<rows, shared, cache>>

(***************************************************************************)
(* What set may leave of a store: all of it, or, in memory and with more   *)
(* than MaxSize entries, all but an oldest one (not so if that one had     *)
(* expired, or if it is the 512th set, which collects the expired ones).   *)
(***************************************************************************)
Held(m) == {t \in Tokens : m[t] # Missing}
Oldest(m) == {t \in Held(m) : \A x \in Held(m) : m[x].age <= m[t].age}
Left(s, m) ==
    {m} \cup {[m EXCEPT ![t] = Missing] :
                 t \in {x \in Oldest(m) : s # Redis /\ Cardinality(Held(m)) > MaxSize}}

\* _token_cache.set, timed when the reply is there.
CacheAnswer(g, o) ==
    LET s == StoreOf(g)
        m == [cache[s] EXCEPT ![request[g].token] = [org |-> o, age |-> 0]]
    IN  \E n \in Left(s, m) : cache' = [cache EXCEPT ![s] = n]

ApiReplies(g) ==
    /\ request[g].at = "replied"
    /\ CacheAnswer(g, request[g].org)
    /\ Respond(g)
    /\ UNCHANGED <<rows, shared, said>>

\* No answer of the API, or Redis does not take it: 503 or 500, nothing cached.
CachedAsRefusal(g) == CacheAnswer(g, NoOrg)
NothingCached(g) == UNCHANGED cache
ApiFails(g) ==
    /\ request[g].at = "asking" \/ (request[g].at = "replied" /\ g \in shared)
    /\ request' = [request EXCEPT ![g] = Idle]
    /\ NothingCached(g)
    /\ UNCHANGED <<rows, shared, said>>
-----------------------------------------------------------------------------
\* A tick, unless a request to the API would outlive its timeouts.
Older(n, most) == IF n < most THEN n + 1 ELSE n
Aged(e) == LET f == [e EXCEPT !.age = @ + 1] IN IF Expired(f) THEN Missing ELSE f
Waits(g) == request[g].at \in {"asking", "replied"}

Tick ==
    /\ \A g \in Gateways : Waits(g) => request[g].age < Latency
    /\ request' = [g \in Gateways |->
                      IF Waits(g) THEN [request[g] EXCEPT !.age = @ + 1] ELSE request[g]]
    /\ cache' = [s \in Stores |-> [t \in Tokens |->
                    IF cache[s][t] = Missing THEN Missing ELSE Aged(cache[s][t])]]
    /\ said' = [t \in Tokens |-> [o \in Answers |->
                    IF o = Resolve(t) THEN 0 ELSE Older(said[t][o], LongAgo)]]
    /\ UNCHANGED <<rows, shared>>

RowStep(k) ==
    \/ \E t \in Tokens : IssueKey(k, t) \/ RotateToken(k, t)
    \/ DropKey(k)
    \/ \E a \in BOOLEAN : SetOwnerActive(k, a)

Fetching(g) == ApiResolves(g) \/ ApiConfused(g) \/ ApiFails(g)

GatewayStep(g) ==
    \/ \E t \in Tokens : Arrive(g, t)
    \/ Lookup(g)
    \/ Fetching(g)
    \/ ApiReplies(g)

Next ==
    \/ \E k \in Keys : RowStep(k)
    \/ \E g \in Gateways : GatewayStep(g)
    \/ Tick

(***************************************************************************)
(* Time passes, and a request that is being served is served to its end;   *)
(* nothing makes a request arrive or a row change.                         *)
(***************************************************************************)
Fairness ==
    /\ WF_vars(Tick)
    /\ \A g \in Gateways : WF_vars(Lookup(g)) /\ WF_vars(Fetching(g)) /\ WF_vars(ApiReplies(g))

Spec == Init /\ [][Next]_vars /\ Fairness
-----------------------------------------------------------------------------
TypeOK ==
    /\ token \in [Keys -> Tokens \cup {NoToken}]
    /\ live \subseteq {k \in Keys : token[k] # NoToken}
    /\ used \subseteq Tokens
    /\ \A k \in Keys : token[k] \in used \cup {NoToken}
    /\ shared \subseteq Gateways
    /\ cache \in [Stores -> [Tokens -> Entries]]
    /\ request \in [Gateways -> Requests]
    /\ said \in [Tokens -> [Answers -> 0 .. LongAgo]]

(***************************************************************************)
(* What a gateway answers, an org or a refusal, is what the API would have *)
(* said less than TTL + Latency ago: a token that was rotated, deleted or  *)
(* deactivated is let in no longer than that, also when a late reply of    *)
(* one gateway replaces what another has cached in Redis since.            *)
(***************************************************************************)
AnswersAreRecent ==
    [][\A g \in Gateways :
          request[g].at \in {"arrived", "replied"} /\ Respond(g)
          => said[request[g].token][OrgToAnswer(g)] < LongAgo]_vars

(***************************************************************************)
(* What is cached is never older, as news, than its age and one request:   *)
(* no hit prolongs an entry and no failure of the API becomes one.         *)
(***************************************************************************)
EntriesAreNews ==
    \A s \in Stores, t \in Tokens :
        cache[s][t] # Missing => said[t][cache[s][t].org] <= cache[s][t].age + Latency

(***************************************************************************)
(* A token that stays without its org is at last forgotten by every cache, *)
(* though nothing invalidates them and gateways keep asking.               *)
(***************************************************************************)
Believed(t, o) == \E s \in Stores : cache[s][t].org = o

RevocationReachesAll ==
    \A t \in Tokens, o \in Orgs :
        <>[](Resolve(t) # o) => <>[]~Believed(t, o)
=============================================================================
