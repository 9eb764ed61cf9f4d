----------------------------- MODULE UiSession -----------------------------
(***************************************************************************)
(* Who is signed in, in one browser tab: contexts/AuthContext.jsx with the *)
(* login page, the OIDC callback page, the routes of App.jsx and the       *)
(* forced password change.  `ui' is the tab, `srv' what the auth service   *)
(* (and the cookie it sets) knows, `net' one request of each operation; a  *)
(* load of the user is two requests, each with an answer of its own.       *)
(* What request() of api.js does to one request is UiApi.tla.  Nothing but *)
(* this tab signs in or out in its browser.                                *)
(***************************************************************************)
EXTENDS Naturals, FiniteSets

CONSTANTS Accounts, None,
          OidcEnabled, PasswordEnabled,  \* what GET /api/auth/mode answers
          Refreshers,                    \* bound: which refreshes come to pass
          MaxInFlight                    \* bound: requests open at once

(* What the module takes for granted of its constants. *)
ConstantsFit == /\ {OidcEnabled, PasswordEnabled} \subseteq BOOLEAN
                /\ Refreshers \subseteq {"refresh", "pageRefresh"}
                /\ MaxInFlight \in Nat \ {0}
                /\ None \notin Accounts

VARIABLES ui, srv, net
vars == <<ui, srv, net>>

Maybe == Accounts \cup {None}
Routes == {"login", "callback", "app", "idp"}

(* loadUser and the two functions called refreshUser: GET /api/auth/me and *)
(* GET /api/auth/api-keys side by side.                                    *)
Loads == {"boot", "refresh", "pageRefresh", "loginRefresh", "oidcLoad"}
Ops == Loads \cup {"login", "authorize", "exchange", "logout", "enrol",
                   "verify", "password"}
Results == {"user", "token", "mfa", "setup", "ok", "unauthorized", "failed"}

(* A request: the account of its bearer token, then of its answer.  The    *)
(* listing of a load has its own state and account (None: it failed).      *)
(* History: torn, when somebody else signed in between the two answers.    *)
Idle == [st |-> "idle", who |-> None, res |-> "failed", needs |-> FALSE,
         keys |-> "idle", keysOf |-> None, torn |-> FALSE]
Tasks == [st : {"idle", "sent", "answered"}, who : Maybe, res : Results,
          needs : BOOLEAN, keys : {"idle", "sent", "answered"},
          keysOf : Maybe, torn : BOOLEAN]

(* History: ui.torn, when the load that set the user was torn. *)
UiType ==
  [route : Routes, user : Maybe, needs : BOOLEAN, scope : Maybe,
   torn : BOOLEAN, token : Maybe, loading : BOOLEAN,
   mode : {"loading", "server", "fallback"},
   step : {"password", "mfa", "enrol", "verify", "codes"},
   view : {"working", "mfa", "error"},
   busy : BOOLEAN, oidcFlow : BOOLEAN, typed : Maybe,
   oidc : {"none", "started", "ready"}, setup : Maybe,
   forced : {"none", "form", "tour"}]
SrvType == [cookie : Maybe, mfa : [Accounts -> {"off", "due", "on"}],
            needs : [Accounts -> BOOLEAN]]
TypeOK == ui \in UiType /\ srv \in SrvType /\ net \in [Ops -> Tasks]

-----------------------------------------------------------------------------
(* The tab right after a load of the page: memory is fresh, the session    *)
(* storage and the cookie are what they were.                              *)
Loaded(route, oidc) ==
  [route |-> route, user |-> None, needs |-> FALSE, scope |-> None,
   torn |-> FALSE, token |-> None, loading |-> TRUE, mode |-> "loading",
   step |-> "password", view |-> "working", busy |-> FALSE,
   oidcFlow |-> FALSE, typed |-> None, oidc |-> oidc, setup |-> None,
   forced |-> "none"]

Sent(o, who) == IF o \in Loads
                THEN [Idle EXCEPT !.st = "sent", !.who = who,
                                  !.keys = "sent", !.keysOf = who]
                ELSE [Idle EXCEPT !.st = "sent", !.who = who]
Booting == [o \in Ops |-> IF o = "boot" THEN Sent(o, None) ELSE Idle]

Init == ui = Loaded("app", "none") /\ srv \in SrvType /\ net = Booting

-----------------------------------------------------------------------------
(* Helpers on the tab. *)

(* A route is entered: its page mounts with fresh state.  The login page   *)
(* opens on the MFA setup when it was sent there with a setup token.       *)
Mounted(u, route) ==
  [u EXCEPT !.route = route, !.busy = FALSE, !.typed = None,
            !.view = "working",
            !.step = "password", !.oidcFlow = FALSE]

(* ProtectedRoute and the login page's effect: the redirects a render does.*)
Redirected(u) ==
  IF ~u.loading /\ u.user # None /\ u.route = "login"
  THEN Mounted(u, "app")
  ELSE IF ~u.loading /\ u.user = None /\ u.route = "app"
  THEN Mounted(u, "login")
  ELSE u

OidcOnly == ui.mode = "server" /\ OidcEnabled /\ ~PasswordEnabled

(* App's effect runs when the user appears or the flag changes; the modal  *)
(* is mounted only while the flag is set.                                  *)
Forced(u, who, needs) ==
  IF (u.user # None) = (who # None) /\ u.needs = needs THEN u.forced
  ELSE IF who # None /\ needs /\ ~OidcOnly THEN "form" ELSE "none"

SetUser(u, who, needs) ==
  [u EXCEPT !.user = who, !.needs = needs, !.forced = Forced(u, who, needs)]

(* setUser(mergedUser) and setUserOrgIds(resolveActiveOrgId(mergedUser)):  *)
(* the user of /me with the keys that were listed or, when that failed,    *)
(* those that came with the user.                                          *)
SignedIn(u, t) ==
  [SetUser(u, t.who, t.needs) EXCEPT
     !.scope = IF t.keysOf # None THEN t.keysOf ELSE t.who, !.torn = t.torn]
(* setUser(null): the scope of api.js is left as it was. *)
TransactionToo(u) == [SetUser(u, None, FALSE) EXCEPT !.oidc = "none"]
SignedOut(u) == [SetUser(u, None, FALSE) EXCEPT !.torn = FALSE]

ClearSession(u) == [SignedOut(u) EXCEPT !.token = None, !.oidc = "none"]

Send(o, who) == net' = [net EXCEPT ![o] = Sent(o, who)]
Done(o) == net' = [net EXCEPT ![o] = Idle]
DoneAndSend(o, p, who) == net' = [net EXCEPT ![o] = Idle, ![p] = Sent(p, who)]
Free(o) == net[o].st = "idle"
Sendable(o) == /\ Free(o)
               /\ Cardinality({p \in Ops : ~Free(p)}) < MaxInFlight
Answered(o) == net[o].st = "answered"
(* Promise.all: both answers, or the rejection of /me; the listing's own   *)
(* failure is caught.                                                      *)
Ready(o) == Answered(o) /\ (net[o].res = "user" => net[o].keys = "answered")

-----------------------------------------------------------------------------
(* The service answers a request.                                          *)

(* GET /api/auth/me answers for the bearer of the token the request had    *)
(* when it was sent, or else for the cookie.                               *)
Identity(t) == IF t.who # None THEN t.who ELSE srv.cookie
(* The same for GET /api/auth/api-keys, at the moment of its own answer.   *)
KeysByCookie(t) == srv.cookie
KeysIdentity(t) == IF t.keysOf # None THEN t.keysOf ELSE srv.cookie

(* One half of the load was answered for another account than who, the     *)
(* other is still to be answered for the cookie.                           *)
HalfOfAnother(o, who) ==
  LET t == net[o] IN
  /\ o \in Loads
  /\ \/ t.st = "answered" /\ t.keys = "sent" /\ t.keysOf = None
        /\ t.who # who
     \/ t.st = "sent" /\ t.who = None /\ t.keys = "answered"
        /\ t.keysOf \notin {None, who}

ResultsOf(o, t) ==
  CASE o \in Loads ->
         {"unauthorized"} \cup (IF Identity(t) # None THEN {"user"} ELSE {})
    [] o \in {"login", "exchange"} ->
         {"unauthorized"} \cup
         (CASE srv.mfa[t.who] = "off" -> {"token"}
            [] srv.mfa[t.who] = "due" -> {"setup"}
            [] srv.mfa[t.who] = "on"  -> {"mfa", "token"})
    [] OTHER -> {"ok"}

Answer(o, res) ==
  LET t == net[o]
      who == IF res = "user" THEN Identity(t) ELSE t.who IN
  /\ t.st = "sent"
  /\ res \in ResultsOf(o, t) \cup {"failed"}
  /\ net' = [p \in Ops |->
       IF p = o THEN [t EXCEPT !.st = "answered", !.who = who, !.res = res,
                               !.needs = res = "user" /\ srv.needs[who]]
       ELSE [net[p] EXCEPT !.torn = @ \/ (res = "token" /\ HalfOfAnother(p, who))]]
  /\ srv' = CASE res = "token" -> [srv EXCEPT !.cookie = t.who]
              [] o = "logout" /\ res = "ok" -> [srv EXCEPT !.cookie = None]
              [] o = "verify" /\ res = "ok" /\ t.who # None ->
                   [srv EXCEPT !.mfa[t.who] = "on"]
              [] o = "password" /\ res = "ok" /\ t.who # None ->
                   [srv EXCEPT !.needs[t.who] = FALSE]
              [] OTHER -> srv
  /\ UNCHANGED ui

(* The listing is answered, while the load still waits for it.  Neither    *)
(* its 401 nor another failure ends the session.                           *)
AnswerKeys(o, listed) ==
  LET t == net[o] IN
  /\ o \in Loads /\ t.keys = "sent"
  /\ t.st = "answered" => t.res = "user"
  /\ listed => KeysIdentity(t) # None
  /\ net' = [net EXCEPT ![o].keys = "answered",
               ![o].keysOf = IF listed THEN KeysIdentity(t) ELSE None]
  /\ UNCHANGED <<ui, srv>>

-----------------------------------------------------------------------------
(* AuthContext. *)

(* loadAuthMode: the race with the timer and a failure both give the       *)
(* fallback, password only.                                                *)
LoadAuthMode(mode) == /\ ui.mode = "loading" /\ ui.route # "idp"
                      /\ mode \in {"server", "fallback"}
                      /\ ui' = [ui EXCEPT !.mode = mode]
                      /\ UNCHANGED <<srv, net>>

(* loadUser, at the start of the tab and after an OIDC exchange; the       *)
(* callback page then leaves for the application.                          *)
DeliverLoad(o) ==
  /\ Ready(o)
  /\ LET t == net[o]
         u == [IF t.res = "user" THEN SignedIn(ui, t) ELSE SignedOut(ui)
               EXCEPT !.loading = FALSE]
     IN ui' = Redirected(IF o = "oidcLoad" /\ ui.route = "callback"
                         THEN Mounted(u, "app") ELSE u)
  /\ Done(o) /\ UNCHANGED srv

(* refreshUser: a 401 also clears the session and leaves for the login     *)
(* page, unless the tab is on the callback page; any other failure only    *)
(* forgets the user, and that of ApiKeyPage not even him.  After a login   *)
(* the login page leaves for the application and the setup token of a      *)
(* finished setup is dropped.                                              *)
Forgets(o, u) == IF o = "pageRefresh" THEN u ELSE SignedOut(u)
DeliverRefresh(o) ==
  /\ Ready(o)
  /\ LET t == net[o]
         u == CASE t.res = "user" -> SignedIn(ui, t)
                [] t.res = "unauthorized" /\ ui.route = "callback" ->
                     [Forgets(o, ui) EXCEPT !.token = None]
                [] t.res = "unauthorized" /\ ui.route # "callback" ->
                     Mounted(ClearSession(ui), "login")
                [] OTHER -> Forgets(o, ui)
         after == IF o = "loginRefresh"
                  THEN Mounted([u EXCEPT !.setup = IF ui.step = "codes"
                                                   THEN None ELSE @], "app")
                  ELSE u
     IN ui' = Redirected(after)
  /\ Done(o) /\ UNCHANGED srv

(* The header of a signed-in tab and the modals refresh, and ApiKeyPage    *)
(* with a function of its own.                                             *)
Refresh == /\ "refresh" \in Refreshers /\ ui.user # None /\ Sendable("refresh")
           /\ Send("refresh", ui.token) /\ UNCHANGED <<ui, srv>>
PageRefresh ==
  /\ "pageRefresh" \in Refreshers /\ ui.user # None /\ ui.route = "app"
  /\ Sendable("pageRefresh") /\ Send("pageRefresh", ui.token)
  /\ UNCHANGED <<ui, srv>>

(* The user menu: logout is not awaited, the login page is entered at once *)
(* and, the user being still set, left again; the answer clears.           *)
Logout == /\ ui.user # None /\ ui.forced = "none" /\ Sendable("logout")
          /\ ui' = Redirected(Mounted(ui, "login"))
          /\ Send("logout", ui.token) /\ UNCHANGED srv
DeliverLogout == /\ Answered("logout")
                 /\ ui' = Redirected(ClearSession(ui))
                 /\ Done("logout") /\ UNCHANGED srv

-----------------------------------------------------------------------------
(* LoginPage: password, second factor, setup of the second factor.         *)

OnLogin(steps) == /\ ui.route = "login" /\ ui.mode # "loading"
                  /\ ui.step \in steps /\ ~ui.busy
HasPassword == ui.mode = "fallback" \/ PasswordEnabled
HasOidc == ui.mode = "server" /\ OidcEnabled

(* Bound: one login at a time.  PasswordLoginForm's button is spread       *)
(* "disabled" after "loading", so that it can be pressed again.            *)
SubmitLogin(who) ==
  /\ OnLogin({"password", "mfa", "codes"}) /\ Sendable("login") /\ Free("loginRefresh")
  /\ ui.step # "codes" => HasPassword
  /\ ui.step # "password" => who = ui.typed
  /\ ~ui.oidcFlow
  /\ ui' = [ui EXCEPT !.busy = TRUE, !.typed = who]
  /\ Send("login", who) /\ UNCHANGED srv

DeliverLogin ==
  /\ Answered("login")
  /\ LET t == net["login"]
         here == ui.route = "login" /\ ui.typed = t.who
     IN IF t.res = "token"
        THEN /\ ui' = [ui EXCEPT !.token = t.who]
             /\ DoneAndSend("login", "loginRefresh", t.who)
        ELSE /\ ui' = [ui EXCEPT
                  !.busy = IF here THEN FALSE ELSE @,
                  !.step = IF ~here \/ @ # "password" THEN @
                           ELSE CASE t.res = "mfa" -> "mfa"
                                  [] t.res = "setup" -> "enrol"
                                  [] OTHER -> @,
                  !.setup = IF t.res = "setup" /\ ui.step = "password"
                            THEN t.who ELSE @]
             /\ Done("login")
  /\ UNCHANGED srv

BackFromMfa == /\ OnLogin({"mfa"})
               /\ ui' = [ui EXCEPT !.step = "password"]
               /\ UNCHANGED <<srv, net>>

(* enrollMFA and verifyMFA use the token, or else the setup token; with    *)
(* neither they fail before anything is sent.                              *)
Setter == IF ui.token # None THEN ui.token ELSE ui.setup
StartMfaSetup == /\ OnLogin({"enrol"}) /\ Sendable("enrol") /\ Setter # None
                 /\ ui' = [ui EXCEPT !.busy = TRUE]
                 /\ Send("enrol", Setter) /\ UNCHANGED srv
VerifyMfaSetup == /\ OnLogin({"verify"}) /\ Sendable("verify") /\ Setter # None
                  /\ ui' = [ui EXCEPT !.busy = TRUE]
                  /\ Send("verify", Setter) /\ UNCHANGED srv
DeliverSetup(o) ==
  /\ Answered(o)
  /\ ui' = IF ui.route = "login" /\ ui.step = (IF o = "enrol" THEN o ELSE "verify")
           THEN [ui EXCEPT !.busy = FALSE,
                   !.step = IF net[o].res # "ok" THEN @
                            ELSE IF o = "enrol" THEN "verify" ELSE "codes"]
           ELSE ui
  /\ Done(o) /\ UNCHANGED srv
CancelMfaSetup == /\ ui.route = "login" /\ ui.step \in {"enrol", "verify", "codes"}
                  /\ ui' = [ui EXCEPT !.setup = None, !.oidcFlow = FALSE,
                                      !.step = "password", !.busy = FALSE]
                  /\ UNCHANGED <<srv, net>>

-----------------------------------------------------------------------------
(* OIDC: the redirect to the provider, the callback, its second factor.    *)

StartOidc ==
  /\ \/ OnLogin({"password", "mfa"}) /\ HasOidc
     \/ OnLogin({"codes"}) /\ ui.oidcFlow
  /\ Sendable("authorize")
  /\ ui' = [ui EXCEPT !.busy = TRUE, !.oidc = IF @ = "ready" THEN @ ELSE "started",
              !.setup = IF ui.step = "codes" THEN None ELSE @,
              !.step = IF @ = "codes" THEN "password" ELSE @,
              !.oidcFlow = FALSE]
  /\ Send("authorize", None) /\ UNCHANGED srv

(* The answer unloads the page: every other request of it is gone. *)
DeliverAuthorize ==
  /\ Answered("authorize")
  /\ IF net["authorize"].res = "ok"
     THEN /\ ui' = [Loaded("idp", "ready") EXCEPT !.loading = FALSE]
          /\ net' = [o \in Ops |-> Idle]
     ELSE /\ ui' = [ui EXCEPT !.busy = FALSE]
          /\ Done("authorize")
  /\ UNCHANGED srv

(* The provider sends the browser back with a code for an account, or with *)
(* an error.  The page loads anew; the callback page checks the stored     *)
(* state and transaction and exchanges the code.                           *)
ReturnFromIdp(who) ==
  /\ ui.route = "idp"
  /\ IF who # None /\ ui.oidc = "ready"
     THEN /\ ui' = Loaded("callback", ui.oidc)
          /\ net' = [Booting EXCEPT !["exchange"] = Sent("exchange", who)]
     ELSE /\ ui' = [Loaded("callback", ui.oidc) EXCEPT !.view = "error"]
          /\ net' = Booting
  /\ UNCHANGED srv

(* finishOIDCLogin stops loading and throws: the page asks for the second  *)
(* factor, or shows the error.                                             *)
AskedOrTold(u, t) ==
  LET here == u.route = "callback"
      first == u.view # "mfa" IN
  [u EXCEPT !.busy = FALSE,
            !.typed = IF here /\ t.res = "mfa" THEN t.who ELSE @,
            !.view = IF ~here \/ ~first THEN @
                     ELSE IF t.res = "mfa" THEN "mfa" ELSE "error"]
ExchangeFailed(u, t) == [AskedOrTold(u, t) EXCEPT !.loading = FALSE]
DeliverExchange ==
  /\ Answered("exchange")
  /\ LET t == net["exchange"]
         here == ui.route = "callback"
         first == ui.view # "mfa" IN
     CASE t.res = "token" ->
            /\ ui' = [ui EXCEPT !.oidc = "none", !.token = t.who, !.typed = None]
            /\ DoneAndSend("exchange", "oidcLoad", t.who)
       [] t.res = "setup" /\ here /\ first ->
            /\ ui' = Redirected([Mounted([ui EXCEPT !.loading = FALSE,
                                            !.setup = t.who], "login")
                                 EXCEPT !.step = "enrol", !.oidcFlow = TRUE])
            /\ Done("exchange")
       [] OTHER ->
            /\ ui' = Redirected(ExchangeFailed(ui, t))
            /\ Done("exchange")
  /\ UNCHANGED srv

(* verifyOidcMfa: the same code, state and transaction, and the challenge. *)
SubmitOidcMfa == /\ ui.route = "callback" /\ ui.view = "mfa" /\ ~ui.busy
                 /\ Sendable("exchange") /\ ui.oidc = "ready"
                 /\ ui' = [ui EXCEPT !.busy = TRUE, !.loading = TRUE]
                 /\ Send("exchange", ui.typed) /\ UNCHANGED srv

BackToLogin == /\ ui.route = "callback" /\ ui.view # "working"
               /\ ui' = Redirected(Mounted(ui, "login"))
               /\ UNCHANGED <<srv, net>>

(* A reload of the page, on the application or on the login page.  Bound:  *)
(* the user lets a load of the page finish before the next, and does not   *)
(* reload the callback page.                                               *)
Reload == /\ ui.route \in {"app", "login"} /\ ~ui.loading
          /\ ui' = Loaded(ui.route, ui.oidc)
          /\ net' = Booting /\ UNCHANGED srv

-----------------------------------------------------------------------------
(* The forced password change and the tour after it. *)

ChangePassword == /\ ui.forced = "form" /\ ui.user # None /\ Sendable("password")
                  /\ Send("password", ui.user) /\ UNCHANGED <<ui, srv>>
DeliverPassword == /\ Answered("password")
                   /\ ui' = [ui EXCEPT !.forced =
                        IF net["password"].res = "ok" /\ @ = "form"
                        THEN "tour" ELSE @]
                   /\ Done("password") /\ UNCHANGED srv
ClosesTour == /\ ui.forced = "tour" /\ Sendable("refresh")
              /\ ui' = [ui EXCEPT !.forced = "none"]
              /\ UNCHANGED <<srv, net>>
FinishTour == /\ ui.forced = "tour" /\ Sendable("refresh")
              /\ ui' = [ui EXCEPT !.forced = "none"]
              /\ Send("refresh", ui.token) /\ UNCHANGED srv

-----------------------------------------------------------------------------
User == \/ Refresh \/ PageRefresh \/ Logout \/ BackFromMfa \/ StartMfaSetup \/ VerifyMfaSetup
        \/ CancelMfaSetup \/ StartOidc \/ SubmitOidcMfa \/ BackToLogin
        \/ Reload \/ ChangePassword \/ FinishTour
        \/ \E who \in Accounts : SubmitLogin(who)
        \/ \E who \in Maybe : ReturnFromIdp(who)
DeliverAnswer(o) ==
  CASE o \in {"boot", "oidcLoad"} -> DeliverLoad(o)
    [] o \in {"refresh", "pageRefresh", "loginRefresh"} -> DeliverRefresh(o)
    [] o \in {"enrol", "verify"} -> DeliverSetup(o)
    [] o = "login" -> DeliverLogin
    [] o = "logout" -> DeliverLogout
    [] o = "authorize" -> DeliverAuthorize
    [] o = "exchange" -> DeliverExchange
    [] o = "password" -> DeliverPassword
Serve == \E o \in Ops : \/ \E res \in Results : Answer(o, res)
                        \/ \E listed \in BOOLEAN : AnswerKeys(o, listed)
Next == \/ User
        \/ Serve
        \/ \E o \in Ops : DeliverAnswer(o)
        \/ \E mode \in {"server", "fallback"} : LoadAuthMode(mode)

(* Requests end: api.js times every one out and the browser delivers.      *)
Fairness == \A o \in Ops : /\ WF_vars(DeliverAnswer(o))
                           /\ WF_vars(\E res \in Results : Answer(o, res))
                           /\ WF_vars(\E listed \in BOOLEAN : AnswerKeys(o, listed))
Spec == Init /\ [][Next]_vars /\ Fairness

-----------------------------------------------------------------------------
(* Whoever is signed in, the queries of the tab are sent with the scope of *)
(* that account and never with the scope of the one before, with one way   *)
(* out: the user comes with one answer and the scope with another, and     *)
(* somebody else signed in between them.                                   *)
ScopeFollowsUser == ui.user # None /\ ui.scope # ui.user => ui.torn

(* While the callback page asks for the second factor, the transaction its *)
(* answer needs is still there, whatever else ends in the tab meanwhile.   *)
MfaRetryPossible == ui.route = "callback" /\ ui.view = "mfa" /\ ~ui.busy
                      => ui.oidc = "ready"

(* A user the session knows must change the password meets the form or the *)
(* tour, or the refresh that will tell whether it still must is open.      *)
NoWorkBeforePasswordChange ==
  ui.user # None /\ ui.needs /\ ~OidcOnly
    => ui.forced # "none" \/ ~Free("refresh")

(* The tab does not show its loading screen for ever: however sign-in,     *)
(* callback and second factor go, loading ends.                            *)
Busy == ui.loading
=============================================================================
