-------------------------- MODULE DashboardStores --------------------------
(***************************************************************************)
(* A dashboard lives twice: in Grafana, and as a row of grafana_dashboards *)
(* that says whose it is.  No transaction spans the two.  A request awaits *)
(* Grafana and goes on with what it read before and what Grafana answered, *)
(* so a step is either Grafana's (the answer, with or without its effect)  *)
(* or the continuation's (one transaction on the rows).                    *)
(*                                                                         *)
(* The requests are those of dashboard_ops.  Left out: what is shown and   *)
(* to whom, titles, folders, hiding and sharing, which live in the rows    *)
(* only; deletion of the creator.  A listing is complete, which holds      *)
(* while Grafana has no more dashboards than one answer of /api/search.    *)
(***************************************************************************)
EXTENDS Naturals

CONSTANTS
    Users, Uids, Requests,
    None,        \* no user, no uid
    MaxRetries   \* of with_retry

ASSUME NoneAssumption == None \notin Users /\ None \notin Uids
ASSUME RetriesAssumption == MaxRetries \in Nat

VARIABLES
    grafana,  \* the uids of the dashboards Grafana holds
    row,      \* uid -> created_by of its row, None without a row
    req,      \* request -> what it is doing
    held      \* history: request -> what Grafana held since the request began

vars == <<grafana, row, req, held>>

\* Awaiting Grafana, and with its answer.
Awaiting == {"searching", "getting", "creating", "checking", "posting", "deleting"}
Answered == {"listed", "missing", "created", "deleted"}

(***************************************************************************)
(* user: who creates.  uid: of the dashboard.  sync: is the search         *)
(* unfiltered.  listed: what it found.  loaded: is the row the request     *)
(* loaded still there (a later row of the same uid is another one).        *)
(***************************************************************************)
Request == [at : Awaiting \cup Answered \cup {"idle"}, user : Users \cup {None},
            uid : Uids \cup {None}, sync : BOOLEAN, listed : SUBSET Uids,
            loaded : BOOLEAN, tries : 0..MaxRetries]

Idle == [at |-> "idle", user |-> None, uid |-> None, sync |-> FALSE,
         listed |-> {}, loaded |-> FALSE, tries |-> 0]

Init ==
    /\ grafana = {}
    /\ row = [x \in Uids |-> None]
    /\ req = [r \in Requests |-> Idle]
    /\ held = [r \in Requests |-> {}]

HasRow(x) == row[x] # None

(***************************************************************************)
(* What starts a request: it reads its row, if it needs one, and calls     *)
(* Grafana.  Only the owner deletes; an update is the owner's or goes      *)
(* through a folder.                                                       *)
(***************************************************************************)
Begin(r, q) ==
    /\ req[r].at = "idle"
    /\ req' = [req EXCEPT ![r] = q]
    /\ held' = [held EXCEPT ![r] = grafana]
    /\ UNCHANGED <<grafana, row>>

StartSearch(r) ==
    \E s \in BOOLEAN : Begin(r, [Idle EXCEPT !.at = "searching", !.sync = s])

StartCreate(r) ==
    \E u \in Users : Begin(r, [Idle EXCEPT !.at = "creating", !.user = u])

StartOn(r, x, s) ==
    /\ HasRow(x)
    /\ Begin(r, [Idle EXCEPT !.at = s, !.uid = x, !.loaded = TRUE])

StartGet(r) == \E x \in Uids : StartOn(r, x, "getting")
StartUpdate(r) == \E x \in Uids : StartOn(r, x, "checking")
StartDelete(r) == \E x \in Uids : StartOn(r, x, "deleting")

\* The states of the two stores after a step.
Holds(G) ==
    /\ grafana' = G
    /\ held' = [r \in Requests |-> held[r] \cap G]

Goes(r, q) == req' = [req EXCEPT ![r] = q]

(***************************************************************************)
(* Grafana's side.  _safe_request answers its default, here "missing" and  *)
(* the empty listing, whatever went wrong; _mutating_request lets a lost   *)
(* reply escape to with_retry, which posts again.  A timeout of            *)
(* with_timeout, a refusal and a failed delete end the request.            *)
(***************************************************************************)
Lists(r) ==
    /\ req[r].at = "searching"
    /\ \E L \in {grafana, {}} \cup (IF req[r].sync THEN {} ELSE SUBSET grafana) :
           Goes(r, [req[r] EXCEPT !.at = "listed", !.listed = L])
    /\ UNCHANGED <<grafana, row, held>>

Finds(r) ==
    /\ req[r].at = "getting"
    /\ req[r].uid \in grafana
    /\ Goes(r, Idle)
    /\ UNCHANGED <<grafana, row, held>>

FindsNothing(r) ==
    /\ req[r].at = "getting"
    /\ Goes(r, [req[r] EXCEPT !.at = "missing"])
    /\ UNCHANGED <<grafana, row, held>>

SameTry(q) == q.tries
OneMoreTry(q) == q.tries + 1

LastToo(q) == q.tries <= MaxRetries
TriesLeft(q) == q.tries < MaxRetries

\* with_retry, when no reply came: try again from s, or give up.
Retries(r, s) ==
    \/ /\ TriesLeft(req[r])
       /\ Goes(r, [req[r] EXCEPT !.at = s, !.tries = OneMoreTry(req[r])])
    \/ /\ ~TriesLeft(req[r])
       /\ Goes(r, Idle)

\* A new dashboard, or an old one when the caller asked to overwrite it.
Creates(r) ==
    /\ req[r].at = "creating"
    /\ \E x \in Uids :
           /\ Holds(grafana \cup {x})
           /\ \/ Goes(r, [req[r] EXCEPT !.at = "created", !.uid = x])
              \/ Retries(r, "creating")
    /\ UNCHANGED row

\* update_dashboard looks first, and posts under the uid.
Checks(r) ==
    /\ req[r].at = "checking"
    /\ req[r].uid \in grafana
    /\ Goes(r, [req[r] EXCEPT !.at = "posting"])
    /\ UNCHANGED <<grafana, row, held>>

Posts(r) ==
    /\ req[r].at = "posting"
    /\ Holds(grafana \cup {req[r].uid})
    /\ \/ Goes(r, Idle)
       \/ Retries(r, "checking")
    /\ UNCHANGED row

PostLost(r) ==
    /\ \/ req[r].at = "creating" /\ Retries(r, "creating")
       \/ req[r].at = "posting" /\ Retries(r, "checking")
    /\ UNCHANGED <<grafana, row, held>>

Deletes(r) ==
    /\ req[r].at = "deleting"
    /\ req[r].uid \in grafana
    /\ Holds(grafana \ {req[r].uid})
    /\ \/ Goes(r, [req[r] EXCEPT !.at = "deleted"])
       \/ Goes(r, Idle)
    /\ UNCHANGED row

GivesUp(r) ==
    /\ req[r].at \in Awaiting
    /\ Goes(r, Idle)
    /\ UNCHANGED <<grafana, row, held>>

(***************************************************************************)
(* The continuations.  Rows are deleted by their key, so a request whose   *)
(* row is gone deletes nothing; an update of it fails.                     *)
(***************************************************************************)
Without(q, gone) == IF q.uid \in gone THEN [q EXCEPT !.loaded = FALSE] ELSE q

Removes(r, gone) ==
    /\ row' = [x \in Uids |-> IF x \in gone THEN None ELSE row[x]]
    /\ req' = [q \in Requests |-> IF q = r THEN Idle ELSE Without(req[q], gone)]
    /\ UNCHANGED <<grafana, held>>

PurgesOnError(q) == q.sync
NeverPurges(q) == FALSE
Purges(q) == q.sync /\ q.listed # {}

Stale(r) == IF Purges(req[r]) THEN Uids \ req[r].listed ELSE {}

FinishSearch(r) ==
    /\ req[r].at = "listed"
    /\ Removes(r, Stale(r))

Own(q) == IF q.loaded THEN {q.uid} ELSE {}

FinishGet(r) ==
    /\ req[r].at = "missing"
    /\ Removes(r, Own(req[r]))

FinishDelete(r) ==
    /\ req[r].at = "deleted"
    /\ Removes(r, Own(req[r]))

\* grafana_uid is unique: a second row of the uid is refused.
AnyUid(x) == TRUE
UniqueUid(x) == ~HasRow(x)

FinishCreate(r) ==
    /\ req[r].at = "created"
    /\ row' = IF UniqueUid(req[r].uid) THEN [row EXCEPT ![req[r].uid] = req[r].user] ELSE row
    /\ Goes(r, Idle)
    /\ UNCHANGED <<grafana, held>>

\* Somebody deletes a dashboard in Grafana itself.
GrafanaLoses(x) ==
    /\ x \in grafana
    /\ Holds(grafana \ {x})
    /\ UNCHANGED <<row, req>>

\* The process ends, and its requests with it.
Crash ==
    /\ \E r \in Requests : req[r].at # "idle"
    /\ req' = [r \in Requests |-> Idle]
    /\ UNCHANGED <<grafana, row, held>>

Starts(r) == StartSearch(r) \/ StartGet(r) \/ StartCreate(r) \/ StartUpdate(r) \/ StartDelete(r)

GrafanaAnswers(r) ==
    \/ Lists(r) \/ Finds(r) \/ FindsNothing(r) \/ Creates(r) \/ Checks(r) \/ Posts(r)
    \/ PostLost(r) \/ Deletes(r) \/ GivesUp(r)

Finishes(r) == FinishSearch(r) \/ FinishGet(r) \/ FinishCreate(r) \/ FinishDelete(r)

Next ==
    \/ \E r \in Requests : Starts(r) \/ GrafanaAnswers(r) \/ Finishes(r)
    \/ \E x \in Uids : GrafanaLoses(x)
    \/ Crash

(***************************************************************************)
(* with_timeout ends every wait for Grafana and the loop resumes whoever   *)
(* has an answer.  Nobody need start a request, and Grafana need not hold  *)
(* or lose anything.                                                       *)
(***************************************************************************)
Fairness == \A r \in Requests : WF_vars(GrafanaAnswers(r) \/ Finishes(r))

Spec == Init /\ [][Next]_vars /\ Fairness

----------------------------------------------------------------------------
(***************************************************************************)
(* Types, and what a request remembers at each of its awaits: no uid       *)
(* before Grafana gave one, no row unless it loaded one.                   *)
(***************************************************************************)
TypeOK ==
    /\ grafana \subseteq Uids
    /\ row \in [Uids -> Users \cup {None}]
    /\ req \in [Requests -> Request]
    /\ held \in [Requests -> SUBSET Uids]
    /\ \A r \in Requests :
           /\ req[r].at \in {"creating", "created"} <=> req[r].user # None
           /\ req[r].at \in {"idle", "searching", "listed", "creating"} <=> req[r].uid = None
           /\ held[r] \subseteq grafana

(***************************************************************************)
(* _purge_stale_dashboards takes no row of a dashboard that Grafana held   *)
(* all through the search, whatever else happens meanwhile: an error       *)
(* answered as an empty listing and a filtered listing purge nothing.      *)
(***************************************************************************)
PurgeSparesHeld ==
    [][\A r \in Requests : FinishSearch(r) =>
           \A x \in held[r] : HasRow(x) => row'[x] = row[x]]_vars

(***************************************************************************)
(* A dashboard keeps the owner its row names as long as it has a row, even *)
(* when somebody else creates over it in Grafana or reuses a uid whose row *)
(* outlived its dashboard.                                                 *)
(***************************************************************************)
RowsChangeNoHands ==
    [][\A x \in Uids : HasRow(x) /\ row'[x] # None => row'[x] = row[x]]_vars

\* Every request ends: timeouts end the awaits and with_retry counts its attempts.
RequestsEnd == \A r \in Requests : req[r].at # "idle" ~> req[r].at = "idle"

(***************************************************************************)
(* search_dashboards converges: when Grafana has lost a dashboard for      *)
(* good and unfiltered searches that find something keep coming, the row   *)
(* goes and stays away, whatever was in flight when it was lost.           *)
(***************************************************************************)
Syncs ==
    \E r \in Requests : req[r].sync /\ req[r].listed # {} /\ FinishSearch(r)

StaleRowsGo ==
    \A x \in Uids :
        (<>[](x \notin grafana) /\ []<><<Syncs>>_vars)
            => <>[](~HasRow(x))

(***************************************************************************)
(* get_dashboard drops the record of a dashboard that was deleted in       *)
(* Grafana, as its test says: never that of one Grafana held all along.    *)
(***************************************************************************)
PrunesDeleted ==
    [][\A r \in Requests : FinishGet(r) /\ row' # row => req[r].uid \notin held[r]]_vars
============================================================================
