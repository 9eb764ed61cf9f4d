# TLA+ models of BeObservant

BeObservant puts one web application in front of Grafana, Loki, Tempo, Mimir, a
notifier and a resolver. These modules model the parts of it that keep state
several requests or handlers share. In the services: who owns which API key and what a
user's queries run as, how an OTLP token is admitted, how concurrent reads share one
fetch, and how the dashboards in Grafana and the rows about them stay together. In the
browser: requests and their retries, the session, and the pages whose handlers overlap.

Paths below are relative to `src/`.

## The system

| part | state it keeps | operations | what is hard |
| --- | --- | --- | --- |
| API keys (`watchdog/services/auth/api_key_ops.py`) | rows of `user_api_keys`, `api_key_shares`, `hidden_api_keys`; `users.org_id` | create, rename, make default, enable, disable, select a shared key, delete, rotate token, share, unshare, hide | flags of several rows kept consistent by every handler separately; concurrent transactions |
| Users, groups (`auth/user_ops.py`, `auth/group_ops.py`, `auth/delegation.py`) | `users`, `groups`, `user_groups`, permissions | create, update, delete, set members, set permissions | pruning of shares in two other systems, half in the transaction, half after it |
| Login, sessions, MFA, OIDC (`database_auth/*`, `auth/auth_ops.py`, `auth/oidc_service.py`, `middleware/dependencies.py`) | passwords, `session_invalid_before`, TOTP secret, recovery codes, OIDC transactions and challenges | login, change and reset password, enrol, verify, disable, OIDC callback | several transactions per login; times in two precisions; process-local memories |
| Gatekeeper (`gatekeeper/`) | token cache (memory or Redis), rate limit windows | validate a token | nothing invalidates the cache; slow replies; Redis coming and going |
| TTL cache (`services/common/ttl_cache.py`) | values, `_pending` futures | get, set, get_or_set, clear | cancellation, failures, interleaved awaits |
| Resolver proxy (`services/resolver_proxy_service.py`) | read cache, `_read_inflight` | request_json | the same, with a second look under a lock |
| Loki, Tempo, quotas, agents (`services/loki_service.py`, ...) | caches (TTLCache), an in-flight map of volumes, agent registry | queries | the Loki volume cache has a third single-flight |
| Grafana (`services/grafana/*`, `grafana_proxy_service.py`) | local rows of dashboards, datasources and folders next to Grafana's own; a per-process authorization cache | create, update, delete, share, hide, proxy | two stores and no transaction over both; stale authorizations |
| Limits (`middleware/rate_limit/*`, `middleware/concurrency_limit.py`, `gatekeeper/services/rate_limits/*`) | counters of windows, a semaphore | hit, acquire, release | switching backends; a permit granted as its timeout fires |
| UI: requests (`ui/src/api.js`) | token, second-factor token and scope of the tab, in module variables | one exported function for each endpoint | timeout and retry of what may have been executed; a 401 that ends the session of everybody |
| UI: session (`ui/src/contexts/AuthContext.jsx`, login and callback pages, `App.jsx`) | user, scope, OIDC transaction, setup token, forced password change | sign-in by password, second factor, OIDC; refresh, logout, reload | late answers of one session arriving in the next; user and scope brought by two requests |
| UI: working pages (API keys and sharing, incidents, alerts and rules, integrations, Grafana) | lists, filters, orders, dialogs, drafts, busy flags | loads, edits, saves, drags, confirmations | handlers that overlap at every await; state of an old render used after it |
| UI: the other pages (users, groups, quotas, audit, logs, traces, analysis, agents, documentation, layout) | lists and forms | | polling of analysis jobs; else as above |
| Everything else: configuration, Vault clients, mail, host metrics, charts, scripts | none that others rely on | | pure I/O |

How they meet: Watchdog's handlers share one database and, within a process, one
asyncio loop. Gatekeeper asks Watchdog's internal API about tokens and keeps the
answers. A change of users or groups calls the Notifier after its commit and
clears the Grafana authorization cache of its own process. Notifier and Resolver
are services of other repositories. Every page of the browser calls the services through
`api.js`, with the scope `AuthContext` and the API keys page set, and nothing tells a page
that another handler, tab or user changed what it shows.

Correctness, per part: an account always has the keys its fallbacks rely on and
runs in a scope somebody gave it; a token's admission is never older news than
the cache admits; a shared fetch runs once, releases everybody and leaves nothing
behind; a group's members have what is shared with it and nobody else has; what
Grafana holds and what the rows say converge; limits neither leak nor lose
permits; the browser executes a write once, queries as the account it shows, lists what
is there once it has settled, and stops waiting. `PROJECT.json` lists the hazards line by line.

## Modules

| module | models | run |
| --- | --- | --- |
| `ApiKeys` | the key tables of one tenant, one action per handler | `ApiKeys` (through `MCApiKeys`) |
| `ApiKeyGroupShares` | `ApiKeys` and a history of which shares came from a group | `ApiKeyGroupShares` |
| `ApiKeysProofs` | theorems about `ApiKeys` | |
| `SharedFetch` | abstract: what callers may rely on when calls for one key share a fetch | |
| `TtlCache` | `TTLCache.get_or_set`, from await to await | `TtlCache` |
| `TtlCacheProofs` | theorems about `TtlCache`, and that it implements `SharedFetch` | |
| `ResolverReads` | cached reads of `ResolverProxyService.request_json` | `ResolverReads`, `ResolverLeftover` |
| `ResolverReadsProofs` | theorems about `ResolverReads` | |
| `OtlpGateway` | gateways, their caches, the internal API and the rows behind it | `OtlpGateway` (through `MCOtlpGateway`) |
| `OtlpGatewayProofs` | theorems about `OtlpGateway` | |
| `DashboardStores` | dashboards in Grafana and their rows, with the requests on both | `DashboardStores`, `DashboardPruned` |
| `DashboardStoresProofs` | theorems about `DashboardStores` | |
| `UiApi` | the request function of the browser | `UiAccess` |
| `UiSession` | sign-in, session, OIDC callback, forced password change | `UiAccess` |
| `UiSessionProofs` | theorems about `UiSession`, which `UiAccess` instantiates with it, once for one account and once for several | |
| `UiPage` | what the page modules share: a handler at an await, and its answer | |
| `UiSequences` | the operators on sequences the pages need | |
| `UiOrder` | the order of cards: put right when a list comes, changed by a drag | |
| `UiApiKeys` | the API keys page and the key selector of the header | `UiAccess`, `UiKeyScope` |
| `UiKeyShares` | the dialog that shares a key | `UiOperations` (through `MCUiOperations`) |
| `UiIncidents` | the incident board | `UiOperations` |
| `UiIncidentDialog` | the dialog of an incident: assignee, notes, Jira | `UiOperations` |
| `UiAlerts` | alerts, rules and silences | `UiOperations` |
| `UiRuleForm`, `UiRuleQuery` | the rule editor, and its query with preview and builder | `UiOperations` |
| `UiIntegrations` | notification channels and Jira integrations | `UiOperations` |
| `UiGrafana` | lists of dashboards, datasources and folders, and their editors | `UiOperations` |
| `UiDashboardEditor` | the dashboard editor and its question about the datasource | `UiOperations`, `UiSyncPrompt` |
| `UiAccess` | `UiApi`, `UiSession` twice and `UiApiKeys`, a behaviour being of one of them | `UiAccess` (through `MCUiAccess`, which has a bound) |
| `UiAccessProofs` | theorems about `UiAccess` | |
| `UiOperations` | the nine working pages, a behaviour being a visit of one | `UiOperations` (through `MCUiOperations`, which has the functions its constants are given) |
| `UiOperationsProofs` | theorems about `UiOperations` | |

### ApiKeys

State is the tables: `owner` and `scope` are the columns of `user_api_keys`,
`isDefault` and `isEnabled` the sets of rows with the flag, `shares` and `hidden`
the link tables, `org` is `users.org_id`. A request is one transaction, and a
transaction that raises is rolled back, so a refusal is no step. One handler with
several outcomes is one action per outcome: `update_api_key` is `SetDefault`,
`EnableKey`, `DisableKey` for the owner and `UseShared` for anybody else; a request
with both fields does what one of them does. `update_user` with an `org_id` is
`AssignOrg`, with the `ensure_default_api_key` it ends with; `delete_user` is
`DeleteUser` with the rows the foreign keys cascade to. `EnabledIndexAllows` is the
partial unique index of `db_models.py`; `DisableKey` is the only handler that needs it.

The run has two users, one group, three rows and three scopes. Two users are an
owner and a sharee, in both roles; three rows are a default key, an enabled key
and the one being changed, or two of one user's and one of the other's; three
scopes are enough for a user's scope to be neither of two keys'. Users, keys and
the scopes other than the default one are interchangeable, hence the symmetry.

### TtlCache and SharedFetch

A step runs from one suspension point to the next, as the event loop does. A
call, the future it registers and the value its factory returns share a name.
Without Redis nothing suspends between the miss and the registration; with it,
`Lookup` ends at the miss and `Resume` goes on, and `set` is three states
(`storing`, `stored` once Redis has it, and the end). `Cancel` is `with_timeout` or
a client that goes away: a cancelled owner deregisters its future unresolved,
since `CancelledError` is no `Exception`; a cancelled waiter cancels the future it
shares. `Settle` keeps what the code does then: `set_result` on a cancelled future
raises, and the owner raises although it has the value.

`SharedFetch` says what a caller sees: a value comes from the cache or from the
flight it joined or ran, a flight starts only when none is under way, and only a
flight that delivered can answer its joiners. `KeepsPromise` maps `_pending`, the
futures and the call states to it.

Four calls: an owner, two waiters of which one is cancelled, and a call that
comes after the flight.

### ResolverReads

The same pattern written again, with a second look at the cache under
`_read_inflight_lock`. `Read`, `Acquire`, `Reread` and `Enter` are
`_prepare_read_cache` from await to await. The ways a request can end differ in what
they leave: `Succeed`/`Stored` and `BadJson` go through the `finally` (`Close`, or
`closing` and `Removed` while the lock is taken); `UpstreamError` (timeout,
connection error, status of 400 or more) resolves the future with the error and
leaves it in the map; `OwnFailure` and a cancellation leave it unresolved.
`with_retry` does not appear: no httpx error gets past `_request_upstream`.

Four attempts: two that race to the lock, one that waits and one that comes
after, with the others' values, failures or cancellations before it.

### OtlpGateway

`token` and `live` are what the API's answer depends on; `Resolve(t)` is
`validate_otlp_token`. A gateway serves one request at a time because its async
handler makes a blocking call. `Lookup` is a cache hit or the start of a request to
the API, `ApiResolves` and `ApiConfused` are the moment the API decides,
`ApiReplies` the moment the gateway has the reply and caches it, `ApiFails` every
way not to get one. Ages count ticks and stop at the bound that matters, so time
is unbounded with finitely many states. `said` is a history variable: how long ago
the API would last have given an answer. `shared` are the gateways whose cache is in
Redis; `make_token_cache` falls back to memory at start-up gateway by gateway.

The run has one key that gets two tokens in turn, two gateways, TTL 2, latency 1,
a memory cache of one entry. TTL 2 gives an entry an age at which it is neither new nor
expired; latency 1 lets a reply be overtaken; one entry makes every second token
evict; two gateways on one Redis cache give the late writer. `MCOtlpGateway` says why
two placements of the gateways are enough.

### DashboardStores

`grafana` and `row` are the two stores; a row is reduced to its creator, `created_by`.
A request reads, awaits Grafana and goes on in one transaction, hence three kinds of
steps: `Start...`, Grafana's answer, `Finish...`. Grafana's side keeps how the client
treats failures: `_safe_request` answers a default whatever went wrong (`FindsNothing`,
the empty listing of `Lists`, `GivesUp` for a delete), `_mutating_request` lets a lost
reply escape to `with_retry`, which posts again whether or not the first one took
effect (`Creates`, `Posts`, `PostLost`, `Retries`); `with_timeout` ends a request
(`GivesUp`). A listing may fail, and a filtered one may hold anything
Grafana holds. `save_dashboard_from_grafana_ui` starts as an update or a creation,
a creation may overwrite, and an update posts under a uid that may be gone by then.

Rows are deleted by primary key and a uid may be used again, so a request remembers
whether the row it loaded is still there (`loaded`). A search by uid, hiding and the
filter metadata change neither store's set of dashboards and are no actions. `held`
is a history variable: what Grafana held from the start of a request on.

Two dashboards (one that stays listed and one that goes), two requests (one that
acts between the other's question and its continuation), two users, one retry. A
third request adds no interleaving between two stores' steps that two do not have.

### UiApi

A call is one use of an exported function of `api.js`. `ui.call` has the phase of each
(`fetch`, `wait` before a retry, and the ways it ends), `net` what became of its attempt on
the way, `srv` how often the service executed it. The timer, an abort and an answer race:
the service may execute what the browser has given up. `Reads` and `Writes` are what the
exported functions send, method and retries; `ShouldRetry` has the conditions of a second
attempt. A 401 of a session call (`EndsSession`) forgets the token of the tab, whatever token
the request carried.

One caller, one token, three calls: a read that may end the session, a read that may not,
and a write. Each caller's record changes alone, except for the token.

### UiSession

`ui` is the tab (`AuthContext`'s state, the route, the state of the page mounted on it),
`srv` the cookie and what the service knows of each account, `net` one request of each
operation. `Answer` is the service, `DeliverAnswer` what the browser does with the answer:
the whole continuation with the redirects of the render that follows (`Redirected`), on
whatever page the tab shows by then. `Reload`, the way to the identity provider
(`DeliverAuthorize`) and back (`ReturnFromIdp`) unload the page with its open requests;
session storage (`oidc`) stays.

The user comes with GET `/api/auth/me` and the scope with GET `/api/auth/api-keys`, sent side
by side (`Loads`). Each half of such a request is answered at a moment of its own (`Answer`,
`AnswerKeys`): for the account of the bearer token it was sent with or, without one, for the
cookie as it is by then. `Promise.all` goes on when both are there, or when `/me` is refused
(`Ready`); a listing that failed leaves the keys that came with the user. `torn` is history: a
load between whose two answers, both for the cookie, another account signed in. The retries
and the timeout of each half are `UiApi`'s, and delay its answer here. `PageRefresh`, the
refresh of the API keys page, differs in that a failure leaves the user (`Forgets`).

In `UiAccess` once with one account, for everything and for liveness, and once with two accounts
in turn, for safety; each with both ways to sign in and any two requests open at a time: an
answer of one account that arrives in the session of the other needs both accounts, an overtaken
answer two requests. Of the two accounts nobody has a second factor or must change the password
(`NoSetup`), of which only the tour loads the user, with the refresh the header sends; and the
refresh of a signed-in tab is that of the API keys page, the more permissive one, besides that
of a login. Bounds of both: the user lets a load of the page finish before reloading, does not
reload the callback page, submits one login at a time, and no other tab signs in or out.

### The pages

Each page module has the React state of one page in one tab as `ui`, what the services
keep as `srv`, and the handlers at an await as `net` (`UiPage`). A click runs a handler to
its first await in one action (`Start`: it takes a slot, and captures the values its closure
has). `Serve` is the service executing the request or refusing it; `Deliver...` runs the
handler from there to its next await (`Continue`) or its end (`Finish`), with the values it
captured and the state it finds: `finally`, the reload it ends with and the effects of the
render are part of the action. Nothing orders the answers of two slots. Guards are what
makes a button show and enabled; those that `Button` (`components/ui.jsx`) enables again
while it is busy, since it spreads its props over `disabled`, let a second click through.

What is typed is reduced to what the code asks of it: a name is there or not, a dashboard's
JSON is blank, good or bad, a PromQL text can be evaluated or not. Which of several rows a
filter hides is kept where an order, a selection or a save depends on it.

Two handlers wait at a time and a user starts one or two (`Slots`, `MaxStarts`; one on the
API keys page in `UiAccess`, one on Grafana's two and on the integrations page in
`UiOperations`, two in the runs that expect a violation), besides what a page begins when
it opens: two overlapping handlers are enough for one to overtake, undo or free what is the
other's, and the next click depends on both. Two rows of what has an order or a choice; one
incident, since the numbered load, the drop and the dialog are about one card; two groups that
share a member for the ticks. A page is opened once in a behaviour; the rule form is not edited
while its handler runs (`EditsInFlight`). The page modules have no state in common but the
services', which each reads afresh, so `UiAccess` and `UiOperations` put them side by side:
`page` names the one a behaviour visits, no step changes it, and the properties say of each page
what matters there.

The cards of alerts, integrations and Grafana are in an order of their own, a sequence of
ids kept across loads (`UiOrder`): `NormalizedOrder` drops what is no longer listed and puts
what is new last, `Moved` takes a card out and puts it where the other one was. Grafana's orders
are in the browser's storage (`srv.stored`), which may fail each time it is read or written, and
the page says nothing of it: `Read` then gives no order, and a load or a drag shows one that is
not stored. `rows` is history: what the load a tab shows has listed.

An incident's note (`handleAddNote`) is the one change of the board that no load makes. Its
PATCH answers with the row, and that row replaces the card's (`WithRow`), however long ago it
was read, and the dialog opens on it. `overtaken` is history: the cards that were put back so to
something the service no longer has. `UiIncidents` has this half of the handler, next to the
loads; `UiIncidentDialog` has the other, the comments it reads after it.

## What the runs check

- `ApiKeys`: every account has exactly one default key (`OneDefault`) and at most one
  enabled key (`OneEnabled`); default keys have no shares; no share or hidden row
  names the owner; an account loses its last enabled key only by selecting a shared
  one (`EnabledLostOnlyToShare`); a user's scope moves only to that of an enabled key
  of theirs or of one shared with them, or by an administrator (`ScopeProvenance`).
- `ApiKeyGroupShares` (violation): leaving or deleting a group takes the group's
  key shares back. It does not; see Findings.
- `TtlCache`: one flight at a time; without Redis no fetch while the value is there;
  only a cancelled owner strands its waiters; waiters are released; `SharedFetch` is
  implemented.
- `ResolverReads`: one upstream request per key; none while the cache has the answer,
  with Redis too; a successful attempt leaves nothing behind; nobody is kept from
  the lock.
- `ResolverLeftover` (violation): `_read_inflight` is empty once all attempts are over.
- `OtlpGateway`: what is cached is never older, as news, than its age plus one
  request; every answer was Watchdog's less than TTL plus latency ago; a token that
  stays revoked is in the end forgotten by every cache.

- `DashboardStores`: a search deletes no row of a dashboard Grafana held all through it
  (`PurgeSparesHeld`; one created meanwhile is not spared); a dashboard with a row keeps
  its owner (`RowsChangeNoHands`); requests end (`RequestsEnd`); the row of a
  dashboard lost for good goes once unfiltered searches that find something keep
  coming (`StaleRowsGo`; when Grafana holds no dashboard at all, no search purges).
- `DashboardPruned` (violation): reading a dashboard prunes its row only if Grafana
  has deleted it.
- `UiAccess`: no write is executed twice for one call (`WriteExecutedOnce`); whoever is signed
  in, queries carry that account's scope, unless the load that set both was torn
  (`ScopeFollowsUser`): of the orders in which sign-ins, sign-outs and late answers can meet, that
  is the only one that mixes two accounts; the callback page can take the second factor it asks
  for (`MfaRetryPossible`); a forced password change is not skipped
  (`NoWorkBeforePasswordChange`, for one account: `App`'s effect does not see one user
  follow another without a signed-out moment between them, and with two accounts it fails);
  requests, loading screens and busy forms end (`BusyEnds`, for one account).
- `UiOperations`: pages that number their loads show what is listed once they settle, but for a
  card of the board that a note's answer put back (`SettledListIsCurrent`); orders of dragged
  cards fit what is listed, each card once (`OrdersFit`); one Jira ticket, one load of metric
  names at a time, and a timer closes its own question (`OneAtATime`); a rule is made once for
  each key as long as no request fails (`RuleOncePerScope`; a retry after a failure repeats those
  that were made); what a form saves fits what it shows (`SavesFit`); waiting ends (`BusyEnds`).
- `UiKeyScope` (violation): once the API keys page has settled, its queries have the scope
  of the active key.
- `UiSyncPrompt` (violation): one answer to the sync question saves the dashboard once.

No property says that an answer is put where it belongs: a note puts an older row back, pages
without numbered loads show the list of an earlier filter, and the Grafana editor the JSON of the
dashboard opened before. The modules have it so, and no document promises more.

Each property has a mutant in `PROJECT.json`: a plausible slip in the code
(`as`, defined next to the definition it replaces) under which the property fails.

Deadlock is not checked for the caches, the gateways and the dashboards: calls are
one-shot in the first two, and a model in which all are over, or in which all tokens
are used up, stops rightly; the third never stops, as somebody may always ask. Nor is it
for the pages: the user may stop, and the page with them.

### Fairness

- `TtlCache`, `ResolverReads`: weak fairness of every step that the event loop or a
  bounded HTTP request takes (resuming, the end of a factory or upstream request, which
  have client timeouts, Redis' answer, waking up). A call is never obliged to start, to
  be cancelled, or to find its entry expired. Weak fairness of a lookup suffices for the
  lock: with one-shot attempts it is taken only finitely often.
- `OtlpGateway`: time passes, and a request under way goes on; nothing makes requests
  arrive or rows change.
- `DashboardStores`: a request that was started goes on, since `with_timeout` ends each
  wait for Grafana and the loop resumes whoever has an answer. Nobody need start a
  request; `StaleRowsGo` supposes the searches it needs.
- The UI modules: requests are answered or time out (`api.js` bounds each), and the browser
  runs what continues after an await, and timers. A user need do nothing.
- `ApiKeys` has none: its properties are safety properties.

## What is proved

Checked by TLAPS for all values of the constants under the modules' `ASSUME`s
(distinct null values, `DefaultScope` a scope, `TTL` positive, and the like).

- `ApiKeysProofs`: all seven properties of the `ApiKeys` run. The inductive invariant is
  the conjunction of the five invariants themselves. `OneDefault` is inductive given
  type correctness; `NeverAgainstOwner` and `DefaultNotShared` need that rows of
  deleted keys have no shares (in `TypeOK`), as ids may be used again. The action
  properties follow from it step by step: `EnabledLostOnlyToShare` rests on `OneDefault`
  (the fallback exists).
- `TtlCacheProofs`: the safety properties and the refinement `Spec => Promise!Spec`.
  The invariant adds `Shape` (which futures may be in which state, given where the call
  is) and `LocalNeverSuspends` (without Redis no call is ever between miss and
  registration), which `NoNeedlessFetch` and the mapped `Join` and `End` need.
- `OtlpGatewayProofs`: type correctness, `EntriesAreNews`, `AnswersAreRecent`, for any
  TTL, latency, cache size and number of gateways. The invariant adds `Fresh` (what the
  API would say now was said zero ticks ago), `RepliesAreNews` (a reply under way is as
  old as its request at most), `Named` (a request under way has a token) and
  `Unexpired` (no stored entry has reached TTL).

- `DashboardStoresProofs`: type correctness, `PurgeSparesHeld` and `RowsChangeNoHands`
  for any number of requests, dashboards and retries. The invariant adds
  `ListingsComplete`: a listing that may purge has everything Grafana held since the
  search began, which neither the stores nor the step that purges could tell alone.

- `ResolverReadsProofs`: all four invariants, for any number of attempts. The invariant adds
  `LockHeld` and `MissedIsInflight` (while an attempt that missed holds the lock, a value that
  arrives in the cache is that of an attempt still in the map: the lock excludes the removal),
  and `Shape`, as in `TtlCacheProofs`.
- `UiSessionProofs`: the invariants of the session, for any number of accounts and of requests
  open at once. `ScopeFollowsUser` needs `LoadsFit`, what the two halves of a load have to do
  with each other: the bearer is the same for both, and a half answered for the cookie was
  answered for the cookie as it still is, unless that is gone or the load is torn, so that
  nothing but a torn load joins two accounts; `MfaRetryPossible` needs
  `CallbackHolds`: on the callback page no logout, login or redirect is open, since the page was
  loaded after all of them, and a refresh that fails there spares the transaction.
  `NoWorkBeforePasswordChange` supposes one account. It needs to know when nobody who must
  change the password is asked to (`Unasked`): then the change has been made and the refresh
  that will say so is under way (`RefreshTells`), a tour comes only after the change
  (`TourAfterChange`), and a change under way is the user's own (`PasswordOfUser`).
- `UiAccessProofs`: the five invariants of the `UiAccess` run. The invariant of a behaviour is
  that of what it is of: those of `UiSessionProofs`, where the part about the forced change
  holds of one account only; `ApiInv`, that a write has no retries left, never waits for one,
  and has not been executed before its only attempt is answered; `KeyInv`, that the answers
  the API keys page waits for are listings.
- `UiOperationsProofs`: the six invariants of the `UiOperations` run, for any constants. A
  behaviour stays on its page (`IInv`), and each page has an inductive invariant of its own;
  besides the shape of what handlers at an await carry, they say:
  - `DialogInv`: the incident of a handler that creates a ticket is in `creating` until that
    handler frees it (`ButtonHeld`), and only such a handler reaches the two stages that free it;
  - `QueryInv`: a load of names under way is the only one, and the editor says that it loads
    (`LoadKnown`);
  - `ToolsInv`: while the timer runs no other question is asked (`TimerKnown`), and the order
    fits the cards;
  - `FormInv`: one save at a time (`SavesKnown`); while no request failed, no key has had its
    rule made twice, and none of the keys a save has still before it has had it (`RulesKnown`);
    the channels chosen, and those a handler captured, can be chosen for that visibility;
  - `EditorInv`: a save that has come to the datasource has written its dashboard
    (`WrittenKnown`);
  - `SharesInv`: the members of the ticked groups are ticked, but for those unticked one by
    one, unless the dialog is being opened (`TicksFit`);
  - `AlertsInv` and `BoardInv`: no load has a number that was not given, and unless a write is
    under way that ends in a load (`...Changing`), or something failed, the newest load has the
    service's lists in its answer or, when there is no such load, the page shows them
    (`...Sure`), on the board but for the cards in `overtaken`. `SettledListIsCurrent` alone
    is not inductive: it says nothing while a load is under way, and so not that the one whose
    answer will be shown is the right one;
  - `GrafanaInv`: the list of a tab has the items its last load listed, each once.

  The lemmas about `UiOrder` are proved for any order and list: `Kept` and `NormalizedOrder`
  give a sequence of what is listed, each item once (`KeptFits`, `NormalizedFits`), and `Moved`
  one of the same items (`MovedFits`). They rest on the listed items being finitely many,
  and `SetToSeqFits` on the library's theorems about finite sets. No induction is needed,
  since `Kept` says by counting, and not by recursion, which id comes where.

The theorems of the UI modules rest on `ConstantsAssumption` of `UiAccess` and `UiOperations`,
which TLC evaluates in the runs: what each module says of its constants (`ConstantsFit`: the
session's key is a key, the first integration an integration, groups have members, channels a
visibility, what has an order is finite, and the like) and of its bounds (`BoundsFit`: finitely
many slots, of which 1 is the one a page's first load takes). The bounds themselves, the number
of slots and of clicks, are any numbers in the proofs.

Model-checked only: the liveness properties (`WaitersReleased`, `LookupEnds`,
`RevocationReachesAll`, `RequestsEnd`, `StaleRowsGo`, and `BusyEnds` of both UI runs), since
fairness and ENABLED are out of the prover's reach. Every safety property the passing runs check is
proved. The properties of the five runs that expect a violation do not hold, so there is nothing to
prove about them.

## Findings

1. Group shares of API keys outlive the group (`ApiKeyGroupShares`). The workflow tests
   that assert the contrary run against a stand-in of the auth service.
2. A Resolver read that fails leaves its future in `_read_inflight`
   (`ResolverLeftover`): later reads of the same key repeat the old error, or wait for
   an answer that never comes.
3. Reading a dashboard while Grafana fails deletes its row (`DashboardPruned`):
   `GrafanaService.get_dashboard` answers `None` for every error, and `get_dashboard`
   takes that for a deletion.
4. The scope after overlapping refreshes of the API keys page (`UiKeyScope`): refreshes carry
   no number, so the older answer may be the last to set the scope. `ui/README.md:38` says
   that queries stay scoped to the correct organization.
5. The sync question of the dashboard editor (`UiSyncPrompt`): closed while the save it
   started is awaited, it saves again. `CHANGELOG.md:31` calls the repeated submission fixed,
   and `GrafanaPage.test.jsx:513` asserts one creation, for the order of events it tests.

A torn load is no finding of a run, but `torn` is reachable in `UiAccess`: `/me` is answered for
the cookie of one account, another signs in on the login page, which does not wait for the load
under way, the listing is answered for the new cookie, and that load is the last to end. The tab
then shows one account and queries with the scope of the other. Narrow, as the listing must be
slow or retried; nothing compares the two answers.

## Not modelled, and the plan

In order:

1. `GrafanaAuthCache`: authorizations computed from rows and cached per process, against
   changes of users, groups and sharing that clear the cache. How old can an answer be?
2. `Groups`: groups, membership, permissions and who may change them (`group_ops`,
   `user_ops`, `delegation`), with the pruning of Grafana shares in the transaction and
   of Notifier shares after it. Composes with `ApiKeys` through `members`.
3. `DashboardShares`: visibility and shared groups of the rows, updated across an await
   with what was loaded before it, against changes of group membership and their
   pruning; then datasources and folders. Abstract specification: what a user sees is
   what the sharing rules allow.
4. `ApiKeyRace`: `ApiKeys` with its transactions split into reads and writes.
   Expected: the index keeps `OneEnabled`; `DefaultNotShared` and the key limit do not
   survive concurrent requests.
5. `Sessions`: password change and reset, token issue times, `session_invalid_before`,
   MFA enrolment and recovery codes as interleaved transactions; `OidcLogin` with its
   transactions and challenges.
6. `RateLimit` and `ConcurrencyLimit`: windows in memory and Redis with the fallback between
   them; the semaphore under a timeout.
7. `LokiVolume`: the third single-flight, against `SharedFetch`.
8. `UiRcaJobs`: the polling of analysis jobs (`hooks/useRcaJobs.js`, `hooks/useRcaReport.js`), with
   jobs that end, fail or are deleted between two polls; then the users and groups pages, whose
   lists and dialogs follow the pattern of the pages modelled.
9. Proofs: the safety properties and refinements of the modules above, and an abstract
   specification of a numbered load that `UiAlerts` and `UiIncidents` both implement.

Left out of the UI modules: the routes and permissions that only choose what is shown, toasts,
copying to the clipboard, fields and their wording, `utils/grafanaUtils.jsx`, which rewrites a
dashboard's JSON, and the filters that only hide cards. `PROJECT.json` says it for each part.

Not planned: HTTP clients, payload shaping, query building and parsing, configuration,
Vault, mail, the presentation in the browser (documentation, layout, charts, the agent wizard)
and the deployment files. They keep no state that several requests or handlers share.

## Running

    tlc -workers 2 -config ApiKeys.cfg MCApiKeys
    tlapm ApiKeysProofs.tla

and so on with the module and configuration each run of `PROJECT.json` names. The longest
runs, `UiOperations` (a million states) and `UiAccess` (630 thousand) take about three minutes each,
`OtlpGateway` and `DashboardStores` about one. The proofs take seconds to a minute,
but for `UiOperationsProofs`, which has more than five thousand obligations and takes ten
to fifteen minutes.
