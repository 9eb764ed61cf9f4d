----------------------- MODULE DashboardStoresProofs -----------------------
(***************************************************************************)
(* Safety of the dashboard requests for any number of requests, dashboards *)
(* and retries.  That requests end and stale rows go is left to TLC.       *)
(***************************************************************************)
EXTENDS DashboardStores, TLAPS

\* A listing that may purge has everything Grafana held since the search began.
ListingsComplete ==
    \A r \in Requests : req[r].at = "listed" /\ Purges(req[r]) => held[r] \subseteq req[r].listed

IInv == TypeOK /\ ListingsComplete

LEMMA IdleIsRequest == Idle \in Request /\ Idle.at = "idle" /\ Idle.user = None /\ Idle.uid = None
  BY RetriesAssumption DEF Idle, Request, Awaiting, Answered

LEMMA InitIInv == Init => IInv
  BY IdleIsRequest DEF Init, IInv, TypeOK, ListingsComplete

(***************************************************************************)
(* What a request may become.                                              *)
(***************************************************************************)
Proper(q) ==
    /\ q \in Request
    /\ q.at \in {"creating", "created"} <=> q.user # None
    /\ q.at \in {"idle", "searching", "listed", "creating"} <=> q.uid = None

(***************************************************************************)
(* The three shapes of steps.  A request begins.                           *)
(***************************************************************************)
LEMMA BeginStep ==
  ASSUME IInv, NEW r \in Requests, NEW q, Proper(q), q.at # "listed", Begin(r, q)
  PROVE  IInv'
<1>1. /\ req' = [req EXCEPT ![r] = q]
      /\ held' = [held EXCEPT ![r] = grafana]
      /\ UNCHANGED <<grafana, row>>
  BY DEF Begin
<1>2. TypeOK'
  BY <1>1, Zenon DEF IInv, TypeOK, Proper
<1>3. ListingsComplete'
  BY <1>1 DEF IInv, TypeOK, ListingsComplete, Purges
<1> QED BY <1>2, <1>3 DEF IInv

\* Grafana answers, and what it holds may have changed.
LEMMA AnswerStep ==
  ASSUME IInv, NEW r \in Requests, NEW q, Proper(q), Goes(r, q),
         q.at # "listed" \/ ~Purges(q) \/ held[r] \subseteq q.listed,
         NEW G \in SUBSET Uids,
         Holds(G), UNCHANGED row
  PROVE  IInv'
<1>1. /\ req' = [req EXCEPT ![r] = q]
      /\ grafana' = G
      /\ held' = [p \in Requests |-> held[p] \cap G]
      /\ row' = row
  BY DEF Goes, Holds
<1>2. TypeOK'
  <2>1. req' \in [Requests -> Request]
    BY <1>1 DEF IInv, TypeOK, Proper
  <2>2. held' \in [Requests -> SUBSET Uids]
    BY <1>1
  <2>3. ASSUME NEW p \in Requests
        PROVE  /\ req'[p].at \in {"creating", "created"} <=> req'[p].user # None
               /\ req'[p].at \in {"idle", "searching", "listed", "creating"} <=> req'[p].uid = None
               /\ held'[p] \subseteq grafana'
    BY <1>1 DEF IInv, TypeOK, Proper
  <2> QED BY <1>1, <2>1, <2>2, <2>3 DEF IInv, TypeOK
<1>3. ListingsComplete'
  BY <1>1 DEF IInv, TypeOK, ListingsComplete, Purges
<1> QED BY <1>2, <1>3 DEF IInv

\* Nothing changed in Grafana is the case of what it holds already.
LEMMA SameHolds ==
  ASSUME TypeOK, UNCHANGED <<grafana, held>>
  PROVE  grafana \in SUBSET Uids /\ Holds(grafana)
<1>1. held = [p \in Requests |-> held[p] \cap grafana]
  <2>1. \A p \in Requests : held[p] = held[p] \cap grafana
    BY DEF TypeOK
  <2> QED BY <2>1 DEF TypeOK
<1> QED BY <1>1 DEF Holds, TypeOK

\* A continuation removes rows and ends.
LEMMA RemovesStep ==
  ASSUME IInv, NEW r \in Requests, NEW gone \in SUBSET Uids, Removes(r, gone)
  PROVE  IInv'
<1>1. /\ row' = [x \in Uids |-> IF x \in gone THEN None ELSE row[x]]
      /\ req' = [q \in Requests |-> IF q = r THEN Idle ELSE Without(req[q], gone)]
      /\ UNCHANGED <<grafana, held>>
  BY DEF Removes
<1>2. ASSUME NEW p \in Requests, p # r
      PROVE  /\ req'[p] \in Request
             /\ req'[p].at = req[p].at
             /\ req'[p].user = req[p].user
             /\ req'[p].uid = req[p].uid
             /\ req'[p].sync = req[p].sync
             /\ req'[p].listed = req[p].listed
  <2>1. req'[p] = Without(req[p], gone)
    BY <1>1, <1>2
  <2>2. req[p] \in Request
    BY DEF IInv, TypeOK
  <2> QED BY <2>1, <2>2 DEF Request, Without
<1>3. req'[r] = Idle
  BY <1>1
<1>4. TypeOK'
  <2>1. row' \in [Uids -> Users \cup {None}]
    BY <1>1 DEF IInv, TypeOK
  <2>2. req' \in [Requests -> Request]
    <3>1. \A p \in Requests : req'[p] \in Request
      BY <1>2, <1>3, IdleIsRequest
    <3>2. req' = [p \in Requests |-> req'[p]]
      BY <1>1
    <3> QED BY <3>1, <3>2
  <2>3. ASSUME NEW p \in Requests
        PROVE  /\ req'[p].at \in {"creating", "created"} <=> req'[p].user # None
               /\ req'[p].at \in {"idle", "searching", "listed", "creating"} <=> req'[p].uid = None
               /\ held'[p] \subseteq grafana'
    BY <1>1, <1>2, <1>3, IdleIsRequest DEF IInv, TypeOK
  <2> QED BY <1>1, <2>1, <2>2, <2>3 DEF IInv, TypeOK
<1>5. ListingsComplete'
  BY <1>1, <1>2, <1>3, IdleIsRequest DEF IInv, ListingsComplete, Purges
<1> QED BY <1>4, <1>5 DEF IInv

----------------------------------------------------------------------------
LEMMA StartsStep ==
  ASSUME IInv, NEW r \in Requests, Starts(r)
  PROVE  IInv'
<1> USE NoneAssumption, IdleIsRequest
<1>1. CASE StartSearch(r)
  <2>1. PICK s \in BOOLEAN : Begin(r, [Idle EXCEPT !.at = "searching", !.sync = s])
    BY <1>1 DEF StartSearch
  <2>2. Proper([Idle EXCEPT !.at = "searching", !.sync = s])
    BY RetriesAssumption DEF Proper, Idle, Request, Awaiting
  <2> QED BY <2>1, <2>2, BeginStep DEF Idle
<1>2. CASE StartCreate(r)
  <2>1. PICK u \in Users : Begin(r, [Idle EXCEPT !.at = "creating", !.user = u])
    BY <1>2 DEF StartCreate
  <2>2. Proper([Idle EXCEPT !.at = "creating", !.user = u])
    BY RetriesAssumption DEF Proper, Idle, Request, Awaiting
  <2> QED BY <2>1, <2>2, BeginStep DEF Idle
<1>3. ASSUME NEW x \in Uids, NEW s \in {"getting", "checking", "deleting"}, StartOn(r, x, s)
      PROVE  IInv'
  <2>1. Begin(r, [Idle EXCEPT !.at = s, !.uid = x, !.loaded = TRUE])
    BY <1>3 DEF StartOn
  <2>2. Proper([Idle EXCEPT !.at = s, !.uid = x, !.loaded = TRUE])
    BY RetriesAssumption DEF Proper, Idle, Request, Awaiting
  <2> QED BY <2>1, <2>2, BeginStep DEF Idle
<1> QED BY <1>1, <1>2, <1>3 DEF Starts, StartGet, StartUpdate, StartDelete

\* A request in flight that waits anew, without what it had listed.
LEMMA RetriesAre ==
  ASSUME TypeOK, NEW r \in Requests,
         NEW s \in {"creating", "checking"}, req[r].at \in {"creating", "posting"},
         s = "creating" <=> req[r].at = "creating",
         Retries(r, s)
  PROVE  \E q : Proper(q) /\ q.at # "listed" /\ Goes(r, q)
<1> USE NoneAssumption, RetriesAssumption, IdleIsRequest
<1>1. CASE TriesLeft(req[r]) /\ Goes(r, [req[r] EXCEPT !.at = s, !.tries = OneMoreTry(req[r])])
  <2>1. req[r] \in Request /\ OneMoreTry(req[r]) \in 0..MaxRetries
    BY <1>1 DEF TypeOK, Request, TriesLeft, OneMoreTry
  <2>2. [req[r] EXCEPT !.at = s, !.tries = OneMoreTry(req[r])] \in Request
    BY <2>1 DEF Request, Awaiting
  <2>3. /\ [req[r] EXCEPT !.at = s, !.tries = OneMoreTry(req[r])].at = s
        /\ [req[r] EXCEPT !.at = s, !.tries = OneMoreTry(req[r])].user = req[r].user
        /\ [req[r] EXCEPT !.at = s, !.tries = OneMoreTry(req[r])].uid = req[r].uid
    BY <2>1 DEF Request
  <2>4. Proper([req[r] EXCEPT !.at = s, !.tries = OneMoreTry(req[r])])
    BY <2>2, <2>3 DEF Proper, TypeOK
  <2> QED BY <1>1, <2>3, <2>4
<1>2. CASE Goes(r, Idle)
  BY <1>2 DEF Proper
<1> QED BY <1>1, <1>2 DEF Retries

LEMMA CreateRetries ==
  ASSUME TypeOK, NEW r \in Requests, req[r].at = "creating", Retries(r, "creating")
  PROVE  \E q : Proper(q) /\ q.at # "listed" /\ Goes(r, q)
  BY RetriesAre

LEMMA PostRetries ==
  ASSUME TypeOK, NEW r \in Requests, req[r].at = "posting", Retries(r, "checking")
  PROVE  \E q : Proper(q) /\ q.at # "listed" /\ Goes(r, q)
  BY RetriesAre

\* Ending, and going on to another state with the uid one has.
LEMMA IdleIsProper == Proper(Idle) /\ Idle.at # "listed"
  BY IdleIsRequest DEF Proper

LEMMA GoesOn ==
  ASSUME TypeOK, NEW r \in Requests, req[r].at \in {"getting", "checking", "deleting"},
         NEW s \in {"missing", "posting", "deleted"}
  PROVE  Proper([req[r] EXCEPT !.at = s]) /\ [req[r] EXCEPT !.at = s].at # "listed"
<1>1. req[r] \in Request
  BY DEF TypeOK
<1>2. /\ [req[r] EXCEPT !.at = s] \in Request
      /\ [req[r] EXCEPT !.at = s].at = s
      /\ [req[r] EXCEPT !.at = s].user = req[r].user
      /\ [req[r] EXCEPT !.at = s].uid = req[r].uid
  BY <1>1 DEF Request, Awaiting, Answered
<1> QED BY <1>1, <1>2 DEF Proper, TypeOK

LEMMA AnswersStep ==
  ASSUME IInv, NEW r \in Requests, GrafanaAnswers(r)
  PROVE  IInv'
<1> USE NoneAssumption, IdleIsProper DEF IInv
<1>1. CASE Lists(r)
  <2>1. PICK L \in {grafana, {}} \cup (IF req[r].sync THEN {} ELSE SUBSET grafana) :
            Goes(r, [req[r] EXCEPT !.at = "listed", !.listed = L])
    BY <1>1 DEF Lists
  <2> DEFINE q == [req[r] EXCEPT !.at = "listed", !.listed = L]
  <2>2. req[r] \in Request /\ req[r].at = "searching" /\ L \in SUBSET Uids
    BY <1>1, <2>1 DEF Lists, TypeOK
  <2>3. /\ q \in Request
        /\ q.at = "listed" /\ q.user = req[r].user /\ q.uid = req[r].uid
        /\ q.sync = req[r].sync /\ q.listed = L
    BY <2>2 DEF Request, Answered
  <2>4. Proper(q)
    BY <2>2, <2>3 DEF Proper, TypeOK
  <2>5. ~Purges(q) \/ held[r] \subseteq q.listed
    BY <2>1, <2>3 DEF Purges, TypeOK
  <2>6. grafana \in SUBSET Uids /\ Holds(grafana) /\ UNCHANGED row
    BY <1>1, SameHolds DEF Lists
  <2> HIDE DEF q
  <2>7. Goes(r, q)
    BY <2>1 DEF q
  <2> QED BY <2>4, <2>5, <2>6, <2>7, AnswerStep
<1>2. CASE Finds(r)
  BY <1>2, SameHolds, AnswerStep DEF Finds
<1>3. CASE FindsNothing(r)
  <2>1. Proper([req[r] EXCEPT !.at = "missing"]) /\ [req[r] EXCEPT !.at = "missing"].at # "listed"
    BY <1>3, GoesOn DEF FindsNothing
  <2> QED BY <1>3, <2>1, SameHolds, AnswerStep DEF FindsNothing
<1>4. CASE Creates(r)
  <2>1. PICK x \in Uids :
            /\ Holds(grafana \cup {x})
            /\ \/ Goes(r, [req[r] EXCEPT !.at = "created", !.uid = x])
               \/ Retries(r, "creating")
    BY <1>4 DEF Creates
  <2>2. grafana \cup {x} \in SUBSET Uids /\ UNCHANGED row /\ req[r].at = "creating"
    BY <1>4 DEF Creates, TypeOK
  <2>3. CASE Goes(r, [req[r] EXCEPT !.at = "created", !.uid = x])
    <3> DEFINE q == [req[r] EXCEPT !.at = "created", !.uid = x]
    <3>1. req[r] \in Request /\ req[r].user # None
      BY <2>2 DEF TypeOK
    <3>2. q \in Request /\ q.at = "created" /\ q.user = req[r].user /\ q.uid = x
      BY <3>1 DEF Request, Answered
    <3>3. Proper(q) /\ q.at # "listed"
      BY <3>1, <3>2 DEF Proper
    <3> QED BY <2>1, <2>2, <2>3, <3>3, AnswerStep
  <2>4. CASE Retries(r, "creating")
    <3>1. PICK q : Proper(q) /\ q.at # "listed" /\ Goes(r, q)
      BY <2>2, <2>4, CreateRetries
    <3> QED BY <2>1, <2>2, <3>1, AnswerStep
  <2> QED BY <2>1, <2>3, <2>4
<1>5. CASE Checks(r)
  <2>1. Proper([req[r] EXCEPT !.at = "posting"]) /\ [req[r] EXCEPT !.at = "posting"].at # "listed"
    BY <1>5, GoesOn DEF Checks
  <2> QED BY <1>5, <2>1, SameHolds, AnswerStep DEF Checks
<1>6. CASE Posts(r)
  <2>1. /\ req[r].at = "posting" /\ Holds(grafana \cup {req[r].uid}) /\ UNCHANGED row
        /\ Goes(r, Idle) \/ Retries(r, "checking")
    BY <1>6 DEF Posts
  <2>2. grafana \cup {req[r].uid} \in SUBSET Uids
    BY <2>1 DEF TypeOK, Request
  <2>3. PICK q : Proper(q) /\ q.at # "listed" /\ Goes(r, q)
    BY <2>1, PostRetries, IdleIsProper
  <2> QED BY <2>1, <2>2, <2>3, AnswerStep
<1>7. CASE PostLost(r)
  <2>1. PICK q : Proper(q) /\ q.at # "listed" /\ Goes(r, q)
    BY <1>7, CreateRetries, PostRetries DEF PostLost
  <2> QED BY <1>7, <2>1, SameHolds, AnswerStep DEF PostLost
<1>8. CASE Deletes(r)
  <2>1. /\ req[r].at = "deleting" /\ Holds(grafana \ {req[r].uid}) /\ UNCHANGED row
        /\ Goes(r, [req[r] EXCEPT !.at = "deleted"]) \/ Goes(r, Idle)
    BY <1>8 DEF Deletes
  <2>2. grafana \ {req[r].uid} \in SUBSET Uids
    BY DEF TypeOK
  <2>3. Proper([req[r] EXCEPT !.at = "deleted"]) /\ [req[r] EXCEPT !.at = "deleted"].at # "listed"
    BY <2>1, GoesOn
  <2> QED BY <2>1, <2>2, <2>3, AnswerStep
<1>9. CASE GivesUp(r)
  BY <1>9, SameHolds, AnswerStep DEF GivesUp
<1> QED BY <1>1, <1>2, <1>3, <1>4, <1>5, <1>6, <1>7, <1>8, <1>9 DEF GrafanaAnswers

LEMMA FinishesStep ==
  ASSUME IInv, NEW r \in Requests, Finishes(r)
  PROVE  IInv'
<1>1. CASE FinishSearch(r)
  BY <1>1, RemovesStep DEF FinishSearch, Stale
<1>2. CASE FinishGet(r) \/ FinishDelete(r)
  <2>1. Own(req[r]) \in SUBSET Uids
    BY <1>2 DEF IInv, TypeOK, Request, Own, FinishGet, FinishDelete
  <2> QED BY <1>2, <2>1, RemovesStep DEF FinishGet, FinishDelete
<1>3. CASE FinishCreate(r)
  <2>1. row' \in [Uids -> Users \cup {None}]
    BY <1>3 DEF FinishCreate, IInv, TypeOK, Request
  <2>2. req' = [req EXCEPT ![r] = Idle] /\ UNCHANGED <<grafana, held>>
    BY <1>3 DEF FinishCreate, Goes
  <2>3. TypeOK'
    BY <2>1, <2>2, IdleIsRequest, NoneAssumption, Zenon DEF IInv, TypeOK
  <2>4. ListingsComplete'
    BY <2>2, IdleIsRequest DEF IInv, TypeOK, ListingsComplete, Purges
  <2> QED BY <2>3, <2>4 DEF IInv
<1> QED BY <1>1, <1>2, <1>3 DEF Finishes

LEMMA NextIInv == IInv /\ [Next]_vars => IInv'
<1> SUFFICES ASSUME IInv, [Next]_vars PROVE IInv'
  OBVIOUS
<1>1. ASSUME NEW r \in Requests, Starts(r) \/ GrafanaAnswers(r) \/ Finishes(r)
      PROVE  IInv'
  BY <1>1, StartsStep, AnswersStep, FinishesStep
<1>2. ASSUME NEW x \in Uids, GrafanaLoses(x)
      PROVE  IInv'
  <2>1. /\ grafana' = grafana \ {x}
        /\ held' = [p \in Requests |-> held[p] \cap (grafana \ {x})]
        /\ UNCHANGED <<row, req>>
    BY <1>2 DEF GrafanaLoses, Holds
  <2>2. TypeOK'
    BY <2>1 DEF IInv, TypeOK
  <2>3. ListingsComplete'
    BY <2>1 DEF IInv, ListingsComplete, Purges
  <2> QED BY <2>2, <2>3 DEF IInv
<1>3. CASE Crash
  BY <1>3, IdleIsRequest DEF Crash, IInv, TypeOK, ListingsComplete
<1>4. CASE UNCHANGED vars
  BY <1>4 DEF vars, IInv, TypeOK, ListingsComplete, Purges
<1> QED BY <1>1, <1>2, <1>3, <1>4 DEF Next

(***************************************************************************)
(* The inductive invariant holds, and with it the types.                   *)
(***************************************************************************)
THEOREM Invariance == Spec => []IInv
  BY InitIInv, NextIInv, PTL DEF Spec

\* What a request remembers fits where it is, for any number of requests and retries.
THEOREM TypeCorrect == Spec => []TypeOK
<1>1. IInv => TypeOK
  BY DEF IInv
<1> QED BY <1>1, Invariance, PTL

----------------------------------------------------------------------------
(***************************************************************************)
(* A search takes no row of a dashboard Grafana held all through it: what  *)
(* may purge lists all that was held, however many requests go on.         *)
(***************************************************************************)
LEMMA SearchSpares ==
  ASSUME IInv, NEW r \in Requests, FinishSearch(r), NEW x \in held[r], HasRow(x)
  PROVE  row'[x] = row[x]
<1>1. x \in Uids
  BY DEF IInv, TypeOK
<1>2. x \notin Stale(r)
  BY <1>1 DEF Stale, FinishSearch, IInv, ListingsComplete
<1> QED BY <1>1, <1>2 DEF FinishSearch, Removes

THEOREM PurgeSpares == Spec => PurgeSparesHeld
<1>1. IInv /\ [Next]_vars =>
        [\A r \in Requests : FinishSearch(r) =>
             \A x \in held[r] : HasRow(x) => row'[x] = row[x]]_vars
  BY SearchSpares
<1> QED BY <1>1, Invariance, PTL DEF Spec, PurgeSparesHeld

(***************************************************************************)
(* No step gives a row another owner.                                      *)
(***************************************************************************)
LEMMA RemovesKeepsOwner ==
  ASSUME NEW r, NEW gone, Removes(r, gone), NEW x \in Uids, row'[x] # None
  PROVE  row'[x] = row[x]
  BY DEF Removes

LEMMA KeepsOwner ==
  ASSUME IInv, [Next]_vars, NEW x \in Uids, HasRow(x), row'[x] # None
  PROVE  row'[x] = row[x]
<1>1. CASE row' = row
  BY <1>1
<1>2. ASSUME NEW r \in Requests, FinishSearch(r) \/ FinishGet(r) \/ FinishDelete(r)
      PROVE  row'[x] = row[x]
  BY <1>2, RemovesKeepsOwner DEF FinishSearch, FinishGet, FinishDelete
<1>3. ASSUME NEW r \in Requests, FinishCreate(r)
      PROVE  row'[x] = row[x]
  BY <1>3 DEF FinishCreate, UniqueUid, HasRow, IInv, TypeOK
<1>4. ASSUME NEW r \in Requests, Starts(r) \/ GrafanaAnswers(r)
      PROVE  row' = row
  BY <1>4 DEF Starts, StartSearch, StartGet, StartCreate, StartUpdate, StartDelete, StartOn, Begin,
     GrafanaAnswers, Lists, Finds, FindsNothing, Creates, Checks, Posts, PostLost, Deletes, GivesUp
<1>5. CASE Crash \/ (\E y \in Uids : GrafanaLoses(y)) \/ UNCHANGED vars
  BY <1>1, <1>5 DEF Crash, GrafanaLoses, vars
<1> QED BY <1>1, <1>2, <1>3, <1>4, <1>5 DEF Next, Finishes

THEOREM OwnersStay == Spec => RowsChangeNoHands
<1>1. IInv /\ [Next]_vars =>
        [\A x \in Uids : HasRow(x) /\ row'[x] # None => row'[x] = row[x]]_vars
  BY KeepsOwner
<1> QED BY <1>1, Invariance, PTL DEF Spec, RowsChangeNoHands
============================================================================
