------------------------- MODULE OtlpGatewayProofs -------------------------
(***************************************************************************)
(* How long a gateway can be wrong about a token, for any number of        *)
(* gateways, keys, tokens and orgs and any TTL, latency and cache size.    *)
(***************************************************************************)
EXTENDS OtlpGateway, TLAPS

\* What the API would say now is never old news.
Fresh == \A t \in Tokens : said[t][Resolve(t)] = 0

\* A reply on its way is no older, as news, than its request.
RepliesAreNews ==
    \A g \in Gateways :
        request[g].at = "replied"
        => said[request[g].token][request[g].org] <= request[g].age

\* Only a request that is being served names a token, and none is left out.
Named == \A g \in Gateways : request[g].at # "idle" => request[g].token \in Tokens

\* A missing entry stands for every entry that has reached its TTL.
Unexpired ==
    \A s \in Stores, t \in Tokens : cache[s][t] # Missing => cache[s][t].age < TTL

IInv == TypeOK /\ Fresh /\ RepliesAreNews /\ Named /\ Unexpired /\ EntriesAreNews

(***************************************************************************)
(* The API answers with an org, or with none.                              *)
(***************************************************************************)
LEMMA ResolvedType ==
  ASSUME NEW tokens, NEW alive \in SUBSET Keys, NEW t
  PROVE  ResolvedBy(tokens, alive, t) \in Answers
<1> DEFINE K == {k \in alive : tokens[k] = t}
<1>1. K # {} => (CHOOSE k \in K : TRUE) \in Keys
  OBVIOUS
<1> QED BY <1>1, ScopeAssumption DEF ResolvedBy, Answers

(***************************************************************************)
(* Arithmetic of the bounds.                                               *)
(***************************************************************************)
LEMMA Bounds ==
  /\ TTL \in Nat /\ Latency \in Nat /\ TTL > 0
  /\ LongAgo = TTL + Latency
  /\ LongAgo \in Nat
  /\ Missing.org = NoOrg /\ Missing.age = TTL + 1 /\ Missing \in Entries
  /\ Idle.at = "idle" /\ Idle \in Requests
  BY TimeAssumption DEF LongAgo, Missing, Entries, Idle, Requests, Answers

LEMMA InitIInv == Init => IInv
<1> SUFFICES ASSUME Init PROVE IInv
  OBVIOUS
<1>1. \A t \in Tokens : Resolve(t) \in Answers
  BY ResolvedType DEF Resolve, Init
<1>2. TypeOK
  BY Bounds, <1>1, DefaultTokenAssumption DEF Init, TypeOK
<1>3. Fresh
  BY <1>1 DEF Init, Fresh
<1>4. RepliesAreNews /\ Named
  BY Bounds DEF Init, RepliesAreNews, Named
<1>5. Unexpired /\ EntriesAreNews
  BY DEF Init, Unexpired, EntriesAreNews
<1> QED BY <1>2, <1>3, <1>4, <1>5 DEF IInv

(***************************************************************************)
(* News only gets fresher when the rows change.                            *)
(***************************************************************************)
LEMMA NoteStep ==
  ASSUME IInv, Note,
         token' \in [Keys -> Tokens \cup {NoToken}],
         live' \subseteq {k \in Keys : token'[k] # NoToken},
         used' \subseteq Tokens,
         \A k \in Keys : token'[k] \in used' \cup {NoToken},
         UNCHANGED <<shared, cache, request>>
  PROVE  IInv'
<1> USE DEF IInv
<1>1. \A t \in Tokens : Resolve(t)' \in Answers /\ Resolve(t)' = ResolvedBy(token', live', t)
  BY ResolvedType DEF Resolve
<1>2. /\ said' \in [Tokens -> [Answers -> 0 .. LongAgo]]
      /\ \A t \in Tokens, o \in Answers : said'[t][o] <= said[t][o]
      /\ \A t \in Tokens : said'[t][Resolve(t)'] = 0
  BY <1>1, Bounds DEF Note, TypeOK
<1>3. TypeOK'
  BY <1>2 DEF TypeOK
<1>4. Fresh'
  BY <1>2 DEF Fresh
<1>5. Named' /\ Unexpired'
  BY DEF Named, Unexpired
<1>6. RepliesAreNews'
  <2> SUFFICES ASSUME NEW g \in Gateways, request[g].at = "replied"
               PROVE  said'[request[g].token][request[g].org] <= request[g].age
    BY DEF RepliesAreNews
  <2>1. request[g].token \in Tokens /\ request[g].org \in Answers /\ request[g].age \in Nat
    BY Bounds DEF Named, TypeOK, Requests
  <2>2. said[request[g].token][request[g].org] <= request[g].age
    BY DEF RepliesAreNews
  <2>3. said[request[g].token][request[g].org] \in Nat /\ said'[request[g].token][request[g].org] \in Nat
    BY <2>1, <1>2, Bounds DEF TypeOK
  <2> QED BY <2>1, <2>2, <2>3, <1>2
<1>7. EntriesAreNews'
  <2> SUFFICES ASSUME NEW s \in Stores, NEW t \in Tokens, cache[s][t] # Missing
               PROVE  said'[t][cache[s][t].org] <= cache[s][t].age + Latency
    BY DEF EntriesAreNews
  <2>1. cache[s][t].org \in Answers /\ cache[s][t].age \in Nat
    BY Bounds DEF TypeOK, Entries
  <2>2. said[t][cache[s][t].org] <= cache[s][t].age + Latency
    BY DEF EntriesAreNews
  <2>3. said[t][cache[s][t].org] \in Nat /\ said'[t][cache[s][t].org] \in Nat
    BY <2>1, <1>2, Bounds DEF TypeOK
  <2> QED BY <2>1, <2>2, <2>3, <1>2, Bounds
<1> QED BY <1>3, <1>4, <1>5, <1>6, <1>7

(***************************************************************************)
(* A gateway's step that leaves rows, news and caches alone needs only a   *)
(* look at the request.                                                    *)
(***************************************************************************)
LEMMA RequestStep ==
  ASSUME IInv, NEW g \in Gateways, NEW r \in Requests,
         request' = [request EXCEPT ![g] = r],
         r.at # "idle" => r.token \in Tokens,
         r.at = "replied" => said[r.token][r.org] <= r.age,
         UNCHANGED <<rows, shared, cache, said>>
  PROVE  IInv'
<1> USE DEF IInv, rows
<1>1. TypeOK'
  BY DEF TypeOK
<1>2. Fresh'
  BY DEF Fresh, Resolve
<1>3. RepliesAreNews' /\ Named'
  BY DEF RepliesAreNews, Named, TypeOK
<1>4. Unexpired' /\ EntriesAreNews'
  BY DEF Unexpired, EntriesAreNews
<1> QED BY <1>1, <1>2, <1>3, <1>4

(***************************************************************************)
(* Whatever is put in a cache is an entry of age 0, and other entries only *)
(* disappear.                                                              *)
(***************************************************************************)
LEMMA CachedEntries ==
  ASSUME IInv, NEW g \in Gateways, NEW o \in Answers, CacheAnswer(g, o),
         request[g].token \in Tokens
  PROVE  /\ cache' \in [Stores -> [Tokens -> Entries]]
         /\ \A s \in Stores, t \in Tokens :
               \/ cache'[s][t] = cache[s][t]
               \/ cache'[s][t] = Missing
               \/ t = request[g].token /\ cache'[s][t] = [org |-> o, age |-> 0]
<1> DEFINE s == StoreOf(g)
           e == [org |-> o, age |-> 0]
           m == [cache[s] EXCEPT ![request[g].token] = e]
<1>1. s \in Stores
  BY DEF StoreOf, Stores
<1>2. cache \in [Stores -> [Tokens -> Entries]]
  BY DEF IInv, TypeOK
<1>3. e \in Entries
  BY Bounds DEF Entries
<1>4. m \in [Tokens -> Entries]
  BY <1>1, <1>2, <1>3
<1>5. PICK n \in Left(s, m) : cache' = [cache EXCEPT ![s] = n]
  BY DEF CacheAnswer
<1>6. n = m \/ \E t \in Tokens : n = [m EXCEPT ![t] = Missing]
  BY <1>5 DEF Left, Oldest, Held
<1>7. /\ n \in [Tokens -> Entries]
      /\ \A t \in Tokens : n[t] = m[t] \/ n[t] = Missing
  BY <1>4, <1>6, Bounds
<1>8. \A t \in Tokens : m[t] = cache[s][t] \/ (t = request[g].token /\ m[t] = e)
  BY <1>1, <1>2
<1>9. cache' \in [Stores -> [Tokens -> Entries]]
  BY <1>1, <1>2, <1>5, <1>7
<1>10. ASSUME NEW s2 \in Stores, NEW t \in Tokens
       PROVE  \/ cache'[s2][t] = cache[s2][t]
              \/ cache'[s2][t] = Missing
              \/ t = request[g].token /\ cache'[s2][t] = e
  <2>1. CASE s2 = s
    BY <2>1, <1>1, <1>2, <1>5, <1>7, <1>8
  <2>2. CASE s2 # s
    BY <2>2, <1>1, <1>2, <1>5
  <2> QED BY <2>1, <2>2
<1> QED BY <1>9, <1>10

\* The requests a gateway can hold, a part of its type at a time.
LEMMA RequestParts ==
  ASSUME IInv, NEW g \in Gateways
  PROVE  /\ request[g] \in Requests
         /\ request[g].age \in 0 .. Latency
         /\ request[g].org \in Answers
         /\ request[g].at # "idle" => request[g].token \in Tokens
  BY DEF IInv, TypeOK, Requests, Named

LEMMA EntryParts ==
  ASSUME IInv, NEW s \in Stores, NEW t \in Tokens
  PROVE  cache[s][t] \in Entries /\ cache[s][t].org \in Answers /\ cache[s][t].age \in Nat
<1>1. cache[s][t] \in Entries
  BY DEF IInv, TypeOK
<1>2. CASE cache[s][t] = Missing
  BY <1>1, <1>2, Bounds DEF Answers
<1>3. CASE cache[s][t] # Missing
  BY <1>1, <1>3, Bounds DEF Entries
<1> QED BY <1>1, <1>2, <1>3

LEMMA RowStepIInv ==
  ASSUME IInv, NEW k \in Keys, RowStep(k)
  PROVE  IInv'
<1> USE DEF IInv
<1>1. ASSUME NEW t \in Tokens, IssueKey(k, t)
      PROVE  IInv'
  BY <1>1, NoteStep, NothingAssumption DEF IssueKey, TypeOK
<1>2. ASSUME NEW t \in Tokens, RotateToken(k, t)
      PROVE  IInv'
  BY <1>2, NoteStep, NothingAssumption DEF RotateToken, TypeOK
<1>3. CASE DropKey(k)
  BY <1>3, NoteStep DEF DropKey, RowRemoved, TypeOK
<1>4. ASSUME NEW a \in BOOLEAN, SetOwnerActive(k, a)
      PROVE  IInv'
  BY <1>4, NoteStep DEF SetOwnerActive, TypeOK
<1> QED BY <1>1, <1>2, <1>3, <1>4 DEF RowStep

LEMMA GatewayStepIInv ==
  ASSUME IInv, NEW g \in Gateways, GatewayStep(g)
  PROVE  IInv'
<1>1. /\ request[g] \in Requests
      /\ request[g].age \in 0 .. Latency
      /\ request[g].org \in Answers
      /\ request[g].at # "idle" => request[g].token \in Tokens
  BY RequestParts
<1>2. ASSUME NEW t \in Tokens, Arrive(g, t)
      PROVE  IInv'
  <2> DEFINE r == [Idle EXCEPT !.at = "arrived", !.token = t]
  <2>1. r \in Requests /\ r.at = "arrived" /\ r.token = t
    BY Bounds DEF Requests, Idle, Answers
  <2> QED BY <1>2, <2>1, RequestStep DEF Arrive
<1>3. CASE Lookup(g)
  <2>1. cache' = cache
    BY <1>3 DEF Lookup, AfterHit, StoreOf, Stores, IInv, TypeOK
  <2>2. CASE Respond(g)
    BY <1>3, <2>1, <2>2, RequestStep, Bounds DEF Lookup, Respond
  <2>3. CASE request' = [request EXCEPT ![g].at = "asking"]
    <3> DEFINE r == [request[g] EXCEPT !.at = "asking"]
    <3>1. r \in Requests /\ r.at = "asking" /\ r.token \in Tokens
      BY <1>1, <1>3 DEF Requests, Lookup
    <3> QED BY <1>3, <2>1, <2>3, <3>1, RequestStep DEF Lookup
  <2> QED BY <1>3, <2>2, <2>3 DEF Lookup
<1>4. CASE ApiResolves(g)
  <2> DEFINE o == Resolve(request[g].token)
             r == [request[g] EXCEPT !.at = "replied", !.org = o]
  <2>1. o \in Answers
    BY ResolvedType DEF Resolve, IInv, TypeOK
  <2>2. r \in Requests /\ r.at = "replied" /\ r.token = request[g].token /\ r.org = o
        /\ r.age = request[g].age
    BY <1>1, <2>1 DEF Requests
  <2>3. said[r.token][r.org] = 0
    BY <1>1, <1>4, <2>2 DEF ApiResolves, IInv, Fresh
  <2>4. request' = [request EXCEPT ![g] = r]
    BY <1>4 DEF ApiResolves
  <2>5. r.at = "replied" => said[r.token][r.org] <= r.age
    BY <1>1, <2>2, <2>3
  <2>6. r.at # "idle" => r.token \in Tokens
    BY <1>1, <1>4, <2>2 DEF ApiResolves
  <2>7. UNCHANGED <<rows, shared, cache, said>>
    BY <1>4 DEF ApiResolves
  <2> HIDE DEF r
  <2> QED BY <2>2, <2>4, <2>5, <2>6, <2>7, RequestStep
<1>5. CASE ApiConfused(g)
  <2> DEFINE r == [request[g] EXCEPT !.at = "replied", !.org = NoOrg]
             t == request[g].token
  <2>1. r \in Requests /\ r.at = "replied" /\ r.token = t /\ r.org = NoOrg /\ r.age = request[g].age
    BY <1>1 DEF Requests, Answers
  <2>2. /\ t \in Tokens
        /\ request' = [request EXCEPT ![g] = r]
        /\ said' = [said EXCEPT ![t][NoOrg] = 0]
        /\ UNCHANGED <<rows, shared, cache>>
    BY <1>1, <1>5 DEF ApiConfused
  <2>3. /\ said' \in [Tokens -> [Answers -> 0 .. LongAgo]]
        /\ said'[t][NoOrg] = 0
        /\ \A x \in Tokens, o \in Answers : said'[x][o] \in {0, said[x][o]}
    <3>1. said \in [Tokens -> [Answers -> 0 .. LongAgo]] /\ NoOrg \in Answers /\ 0 \in 0 .. LongAgo
      <4>1. 0 \in 0 .. LongAgo
        BY Bounds
      <4> QED BY <4>1 DEF IInv, TypeOK, Answers
    <3>2. said' = [said EXCEPT ![t] = [said[t] EXCEPT ![NoOrg] = 0]]
      BY <2>2
    <3>3. [said[t] EXCEPT ![NoOrg] = 0] \in [Answers -> 0 .. LongAgo]
      BY <2>2, <3>1
    <3> QED BY <2>2, <3>1, <3>2, <3>3
  <2>4. TypeOK'
    BY <2>1, <2>2, <2>3 DEF IInv, TypeOK, rows
  <2>5. Fresh'
    <3>1. \A x \in Tokens : Resolve(x) \in Answers /\ Resolve(x)' = Resolve(x)
      BY <2>2, ResolvedType DEF Resolve, IInv, TypeOK, rows
    <3> QED BY <2>3, <3>1 DEF IInv, Fresh
  <2>6. RepliesAreNews' /\ Named'
    <3>1. ASSUME NEW h \in Gateways, request'[h].at = "replied"
          PROVE  said'[request'[h].token][request'[h].org] <= request'[h].age
      <4>1. CASE h = g
        BY <4>1, <1>1, <2>1, <2>2, <2>3, Bounds DEF IInv, TypeOK
      <4>2. CASE h # g
        <5>1. request'[h] = request[h]
          BY <4>2, <2>2 DEF IInv, TypeOK
        <5>2. /\ request[h].token \in Tokens /\ request[h].org \in Answers
              /\ request[h].age \in 0 .. Latency
          BY <3>1, <5>1, RequestParts
        <5>3. said[request[h].token][request[h].org] <= request[h].age
          BY <3>1, <5>1 DEF IInv, RepliesAreNews
        <5> QED BY <2>3, <5>1, <5>2, <5>3, Bounds
      <4> QED BY <4>1, <4>2
    <3>2. Named'
      BY <2>1, <2>2 DEF IInv, Named, TypeOK
    <3> QED BY <3>1, <3>2 DEF RepliesAreNews
  <2>7. Unexpired' /\ EntriesAreNews'
    <3>1. ASSUME NEW s \in Stores, NEW x \in Tokens, cache[s][x] # Missing
          PROVE  said'[x][cache[s][x].org] <= cache[s][x].age + Latency
      <4>1. cache[s][x].org \in Answers /\ cache[s][x].age \in Nat
        BY EntryParts
      <4>2. said[x][cache[s][x].org] <= cache[s][x].age + Latency
        BY <3>1 DEF IInv, EntriesAreNews
      <4> QED BY <4>1, <4>2, <2>3, Bounds
    <3> QED BY <2>2, <3>1 DEF IInv, Unexpired, EntriesAreNews
  <2> QED BY <2>4, <2>5, <2>6, <2>7 DEF IInv
<1>6. CASE ApiFails(g)
  BY <1>6, RequestStep, Bounds DEF ApiFails, NothingCached
<1>7. CASE ApiReplies(g)
  <2> DEFINE t == request[g].token
             o == request[g].org
  <2>1. /\ request[g].at = "replied" /\ t \in Tokens
        /\ request' = [request EXCEPT ![g] = Idle]
        /\ UNCHANGED <<rows, shared, said>>
    BY <1>1, <1>7 DEF ApiReplies, Respond
  <2>2. /\ cache' \in [Stores -> [Tokens -> Entries]]
        /\ \A s \in Stores, x \in Tokens :
              \/ cache'[s][x] = cache[s][x]
              \/ cache'[s][x] = Missing
              \/ x = t /\ cache'[s][x] = [org |-> o, age |-> 0]
    BY <1>1, <1>7, <2>1, CachedEntries DEF ApiReplies
  <2>3. said[t][o] <= Latency
    BY <1>1, <2>1, Bounds DEF IInv, RepliesAreNews, TypeOK
  <2>4. TypeOK'
    BY <2>1, <2>2, Bounds DEF IInv, TypeOK, rows
  <2>5. Fresh' /\ RepliesAreNews' /\ Named'
    BY <2>1, Bounds DEF IInv, TypeOK, Fresh, Resolve, RepliesAreNews, Named, rows
  <2>6. Unexpired' /\ EntriesAreNews'
    BY <2>1, <2>2, <2>3, Bounds DEF IInv, Unexpired, EntriesAreNews
  <2> QED BY <2>4, <2>5, <2>6 DEF IInv
<1> QED BY <1>2, <1>3, <1>4, <1>5, <1>6, <1>7, GatewayStep(g) DEF GatewayStep, Fetching

(***************************************************************************)
(* A tick ages entries, requests and news alike.                           *)
(***************************************************************************)
LEMMA TickIInv ==
  ASSUME IInv, Tick
  PROVE  IInv'
<1>1. \A t \in Tokens : Resolve(t) \in Answers /\ Resolve(t)' = Resolve(t)
  BY ResolvedType DEF Tick, Resolve, rows, IInv, TypeOK
<1>2. /\ said' \in [Tokens -> [Answers -> 0 .. LongAgo]]
      /\ \A t \in Tokens, o \in Answers : said'[t][o] <= said[t][o] + 1
      /\ \A t \in Tokens : said'[t][Resolve(t)] = 0
  BY <1>1, Bounds DEF Tick, Older, IInv, TypeOK
<1>3. ASSUME NEW g \in Gateways
      PROVE  /\ request'[g] \in Requests
             /\ request'[g].at = request[g].at /\ request'[g].token = request[g].token
             /\ request'[g].org = request[g].org
             /\ request[g].at = "replied" => request'[g].age = request[g].age + 1
  <2>1. CASE Waits(g)
    <3>1. request'[g] = [request[g] EXCEPT !.age = @ + 1] /\ request[g].age < Latency
      BY <2>1 DEF Tick
    <3> QED BY <3>1, RequestParts, Bounds DEF Requests
  <2>2. CASE ~Waits(g)
    <3>1. request'[g] = request[g]
      BY <2>2 DEF Tick
    <3> QED BY <2>2, <3>1, RequestParts DEF Waits
  <2> QED BY <2>1, <2>2
<1>4. ASSUME NEW s \in Stores, NEW t \in Tokens
      PROVE  /\ cache'[s][t] \in Entries
             /\ cache'[s][t] # Missing =>
                   /\ cache[s][t] # Missing
                   /\ cache'[s][t].org = cache[s][t].org
                   /\ cache'[s][t].age = cache[s][t].age + 1
                   /\ cache'[s][t].age < TTL
  <2>1. cache[s][t] \in Entries
    BY DEF IInv, TypeOK
  <2>2. CASE cache[s][t] = Missing
    BY <2>2, Bounds DEF Tick
  <2>3. CASE cache[s][t] # Missing
    <3> DEFINE f == [cache[s][t] EXCEPT !.age = @ + 1]
    <3>1. cache[s][t].age < TTL /\ cache[s][t] \in [org : Answers, age : 0 .. TTL]
      BY <2>1, <2>3 DEF IInv, Unexpired, Entries
    <3>2. f \in Entries /\ f.org = cache[s][t].org /\ f.age = cache[s][t].age + 1
      BY <3>1, Bounds DEF Entries
    <3>3. cache'[s][t] = IF Expired(f) THEN Missing ELSE f
      BY <2>3 DEF Tick, Aged
    <3> QED BY <2>3, <3>1, <3>2, <3>3, Bounds DEF Expired, Entries
  <2> QED BY <2>2, <2>3
<1>5. TypeOK'
  <2>1. request' \in [Gateways -> Requests]
    BY <1>3 DEF Tick
  <2>2. cache' \in [Stores -> [Tokens -> Entries]]
    BY <1>4 DEF Tick
  <2> QED BY <1>2, <2>1, <2>2 DEF Tick, IInv, TypeOK, rows
<1>6. Fresh'
  BY <1>1, <1>2 DEF Fresh
<1>7. Named'
  BY <1>3 DEF IInv, Named
<1>8. RepliesAreNews'
  <2> SUFFICES ASSUME NEW g \in Gateways, request'[g].at = "replied"
               PROVE  said'[request'[g].token][request'[g].org] <= request'[g].age
    BY DEF RepliesAreNews
  <2>1. request[g].at = "replied" /\ request'[g].age = request[g].age + 1
    BY <1>3
  <2>2. request[g].token \in Tokens /\ request[g].org \in Answers /\ request[g].age \in 0 .. Latency
    BY <2>1, RequestParts
  <2>3. said[request[g].token][request[g].org] <= request[g].age
    BY <2>1 DEF IInv, RepliesAreNews
  <2>4. /\ said[request[g].token][request[g].org] \in Nat
        /\ said'[request[g].token][request[g].org] \in Nat
        /\ said'[request[g].token][request[g].org] <= said[request[g].token][request[g].org] + 1
    BY <1>2, <2>2, Bounds DEF IInv, TypeOK
  <2> QED BY <1>3, <2>1, <2>2, <2>3, <2>4, Bounds
<1>9. Unexpired'
  BY <1>4 DEF Unexpired
<1>10. EntriesAreNews'
  <2> SUFFICES ASSUME NEW s \in Stores, NEW t \in Tokens, cache'[s][t] # Missing
               PROVE  said'[t][cache'[s][t].org] <= cache'[s][t].age + Latency
    BY DEF EntriesAreNews
  <2>1. /\ cache[s][t] # Missing
        /\ cache'[s][t].org = cache[s][t].org
        /\ cache'[s][t].age = cache[s][t].age + 1
    BY <1>4
  <2>2. cache[s][t].org \in Answers /\ cache[s][t].age \in Nat
    BY EntryParts
  <2>3. said[t][cache[s][t].org] <= cache[s][t].age + Latency
    BY <2>1 DEF IInv, EntriesAreNews
  <2>4. /\ said[t][cache[s][t].org] \in Nat /\ said'[t][cache[s][t].org] \in Nat
        /\ said'[t][cache[s][t].org] <= said[t][cache[s][t].org] + 1
    BY <1>2, <2>2, Bounds DEF IInv, TypeOK
  <2> QED BY <2>1, <2>2, <2>3, <2>4, Bounds
<1> QED BY <1>5, <1>6, <1>7, <1>8, <1>9, <1>10 DEF IInv

LEMMA NextIInv ==
  ASSUME IInv, [Next]_vars
  PROVE  IInv'
<1>1. CASE UNCHANGED vars
  BY <1>1 DEF vars, rows, IInv, TypeOK, Fresh, Resolve, RepliesAreNews, Named, Unexpired,
              EntriesAreNews
<1> QED BY <1>1, RowStepIInv, GatewayStepIInv, TickIInv DEF Next

THEOREM IInvHolds == Spec => []IInv
<1>1. IInv /\ [Next]_vars => IInv'
  BY NextIInv
<1> QED BY InitIInv, <1>1, PTL DEF Spec

(***************************************************************************)
(* Every variable keeps its type: a key without a row is never live, and   *)
(* no token is in use that was not handed out.                             *)
(***************************************************************************)
THEOREM TypeCorrect == Spec => []TypeOK
<1>1. IInv => TypeOK
  BY DEF IInv
<1> QED BY IInvHolds, <1>1, PTL

(***************************************************************************)
(* A cached entry is never older, as news, than its age and one request.   *)
(***************************************************************************)
THEOREM EntriesAreNewsHolds == Spec => []EntriesAreNews
<1>1. IInv => EntriesAreNews
  BY DEF IInv
<1> QED BY IInvHolds, <1>1, PTL

(***************************************************************************)
(* A request that has only arrived is answered by a hit and nothing else.  *)
(***************************************************************************)
LEMMA ArrivedIsAnsweredByHit ==
  ASSUME IInv, [Next]_vars, NEW g \in Gateways, request[g].at = "arrived", Respond(g)
  PROVE  cache[StoreOf(g)][request[g].token] # Missing
<1>1. request[g] # Idle /\ request'[g] = Idle /\ \A h \in Gateways \ {g} : request'[h] = request[h]
  BY Bounds DEF Respond, IInv, TypeOK
<1>2. CASE Lookup(g)
  <2>1. request[g].at = "arrived" /\ [request[g] EXCEPT !.at = "asking"] # Idle
    BY <1>2, RequestParts DEF Lookup, Idle, Requests
  <2> QED BY <1>1, <1>2, <2>1 DEF Lookup, IInv, TypeOK
<1>3. ~\E k \in Keys : RowStep(k)
  BY <1>1 DEF RowStep, IssueKey, RotateToken, DropKey, SetOwnerActive
<1>4. ~Tick
  <2>1. ~Waits(g)
    BY DEF Waits
  <2> QED BY <1>1, <2>1 DEF Tick
<1>5. ~UNCHANGED vars
  BY <1>1 DEF vars
<1>6. PICK h \in Gateways : GatewayStep(h)
  BY <1>3, <1>4, <1>5 DEF Next
<1>7. request' = [request EXCEPT ![h] = request'[h]]
  BY <1>6 DEF GatewayStep, Arrive, Lookup, Fetching, ApiResolves, ApiConfused, ApiFails,
              ApiReplies, Respond, IInv, TypeOK
<1>8. h = g
  BY <1>1, <1>7 DEF IInv, TypeOK
<1>9. Lookup(g)
  BY <1>6, <1>8 DEF GatewayStep, Arrive, Fetching, ApiResolves, ApiConfused, ApiFails, ApiReplies
<1> QED BY <1>2, <1>9

(***************************************************************************)
(* Whatever a gateway answers, the API would have said so less than TTL +  *)
(* Latency ago.                                                            *)
(***************************************************************************)
THEOREM AnswersAreRecentHolds == Spec => AnswersAreRecent
<1> DEFINE Recent(g) == request[g].at \in {"arrived", "replied"} /\ Respond(g)
                        => said[request[g].token][OrgToAnswer(g)] < LongAgo
<1>1. ASSUME IInv, [Next]_vars
      PROVE  \A g \in Gateways : Recent(g)
  <2> SUFFICES ASSUME NEW g \in Gateways, request[g].at \in {"arrived", "replied"}, Respond(g)
               PROVE  said[request[g].token][OrgToAnswer(g)] < LongAgo
    OBVIOUS
  <2>1. /\ request[g].token \in Tokens
        /\ request[g].org \in Answers /\ request[g].age \in 0 .. Latency
    BY RequestParts, <1>1
  <2>2. CASE request[g].at = "replied"
    <3>1. said[request[g].token][request[g].org] <= request[g].age
      BY <1>1, <2>2 DEF IInv, RepliesAreNews
    <3>2. said[request[g].token][request[g].org] \in Nat
      BY <1>1, <2>1, Bounds DEF IInv, TypeOK
    <3> QED BY <2>1, <2>2, <3>1, <3>2, Bounds DEF OrgToAnswer
  <2>3. CASE request[g].at = "arrived"
    <3> DEFINE e == cache[StoreOf(g)][request[g].token]
    <3>1. e # Missing
      BY <1>1, <2>3, ArrivedIsAnsweredByHit
    <3>2. StoreOf(g) \in Stores
      BY DEF StoreOf, Stores
    <3>3. e.org \in Answers /\ e.age \in Nat /\ e.age < TTL
      BY <1>1, <2>1, <3>1, <3>2, Bounds DEF IInv, TypeOK, Entries, Unexpired
    <3>4. said[request[g].token][e.org] <= e.age + Latency
      BY <1>1, <2>1, <3>1, <3>2 DEF IInv, EntriesAreNews
    <3>5. said[request[g].token][e.org] \in Nat
      BY <1>1, <2>1, <3>3, Bounds DEF IInv, TypeOK
    <3> QED BY <2>3, <3>3, <3>4, <3>5, Bounds DEF OrgToAnswer
  <2> QED BY <2>2, <2>3
<1> QED BY IInvHolds, <1>1, PTL DEF Spec, AnswersAreRecent
=============================================================================
