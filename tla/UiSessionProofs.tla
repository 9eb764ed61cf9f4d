-------------------------- MODULE UiSessionProofs --------------------------
(***************************************************************************)
(* The scope of the tab and the transaction of an OIDC sign-in, for any    *)
(* accounts, any way to sign in and any number of requests open at once.   *)
(***************************************************************************)
EXTENDS UiSession, TLAPS

(* On the callback page nothing is open that would end the transaction:    *)
(* the page was loaded after whatever was open before.  An exchange still  *)
(* has its transaction, and keeps the form of the second factor busy.      *)
CallbackHolds ==
  ui.route = "callback" =>
    /\ Free("logout") /\ Free("authorize") /\ Free("login")
    /\ ~Free("exchange") => ui.oidc = "ready"
    /\ ui.view = "mfa" /\ ~Free("exchange") => ui.busy
    /\ ui.view = "mfa" /\ ~ui.busy => ui.oidc = "ready"

(* What the two requests of a load have to do with each other: with a      *)
(* bearer both are its account's; without one the half that is answered    *)
(* was answered for the cookie as it still is, unless it is gone or the    *)
(* load is torn.                                                           *)
Fits(t, who) == t.torn \/ srv.cookie \in {who, None}
HalvesFit(t) ==
  /\ t.st = "sent" /\ t.keys = "sent" => t.keysOf = t.who
  /\ t.st = "answered" /\ t.res = "user" => t.who # None
  /\ t.st = "answered" /\ t.res = "user" /\ t.keys = "sent" =>
       t.keysOf = t.who \/ (t.keysOf = None /\ Fits(t, t.who))
  /\ t.st = "sent" /\ t.keys = "answered" /\ t.keysOf # None =>
       t.keysOf = t.who \/ (t.who = None /\ Fits(t, t.keysOf))
  /\ t.st = "answered" /\ t.res = "user" /\ t.keys = "answered" =>
       t.keysOf = None \/ t.keysOf = t.who \/ t.torn
LoadsFit == \A o \in Loads : HalvesFit(net[o])

IInv == TypeOK /\ ScopeFollowsUser /\ CallbackHolds /\ LoadsFit

(* The property, of a state of the tab. *)
Scoped(u) == u.user # None /\ u.scope # u.user => u.torn

(* The requests after a step of the tab: of a load, the one that was open, *)
(* none, or a new one.                                                     *)
NetGoesOn ==
  /\ net' \in [Ops -> Tasks]
  /\ \A o \in Loads : \/ net'[o] = net[o] \/ net'[o] = Idle
                        \/ \E who \in Maybe : net'[o] = Sent(o, who)

(***************************************************************************)
(* The helpers that change the tab.                                        *)
(***************************************************************************)
LEMMA LoadedFacts ==
  ASSUME NEW route \in Routes, NEW oidc \in {"none", "started", "ready"}
  PROVE  /\ Loaded(route, oidc) \in UiType
         /\ Loaded(route, oidc).user = None
         /\ Loaded(route, oidc).route = route
         /\ Loaded(route, oidc).view = "working"
         /\ Loaded(route, oidc).oidc = oidc
  BY DEF Loaded, UiType, Maybe

LEMMA MountedFacts ==
  ASSUME NEW u \in UiType, NEW route \in Routes
  PROVE  /\ Mounted(u, route) \in UiType
         /\ Mounted(u, route).user = u.user
         /\ Mounted(u, route).scope = u.scope
         /\ Mounted(u, route).torn = u.torn
         /\ Mounted(u, route).route = route
  BY DEF Mounted, UiType, Maybe

(* A redirect never leads to the callback page. *)
LEMMA RedirectedFacts ==
  ASSUME NEW u \in UiType
  PROVE  /\ Redirected(u) \in UiType
         /\ Redirected(u).user = u.user
         /\ Redirected(u).scope = u.scope
         /\ Redirected(u).torn = u.torn
         /\ Redirected(u).route = "callback" => u.route = "callback"
         /\ u.route = "callback" => Redirected(u) = u
<1>1. {"app", "login"} \subseteq Routes
  BY DEF Routes
<1> QED BY <1>1, MountedFacts DEF Redirected

LEMMA SetUserFacts ==
  ASSUME NEW u \in UiType, NEW who \in Maybe, NEW needs \in BOOLEAN
  PROVE  /\ SetUser(u, who, needs) \in UiType
         /\ SetUser(u, who, needs).user = who
         /\ SetUser(u, who, needs).scope = u.scope
         /\ SetUser(u, who, needs).torn = u.torn
         /\ SetUser(u, who, needs).route = u.route
         /\ SetUser(u, who, needs).view = u.view
         /\ SetUser(u, who, needs).busy = u.busy
         /\ SetUser(u, who, needs).oidc = u.oidc
<1>1. u.forced \in {"none", "form", "tour"}
  BY DEF UiType
<1>2. Forced(u, who, needs) \in {"none", "form", "tour"}
  BY <1>1 DEF Forced
<1> QED BY <1>2 DEF SetUser, UiType

LEMMA SignedInFacts ==
  ASSUME NEW u \in UiType, NEW t \in Tasks
  PROVE  /\ SignedIn(u, t) \in UiType
         /\ SignedIn(u, t).user = t.who /\ SignedIn(u, t).torn = t.torn
         /\ SignedIn(u, t).scope = IF t.keysOf # None THEN t.keysOf ELSE t.who
         /\ SignedIn(u, t).route = u.route
         /\ SignedIn(u, t).view = u.view
         /\ SignedIn(u, t).busy = u.busy
         /\ SignedIn(u, t).oidc = u.oidc
<1>1. /\ t.who \in Maybe /\ t.keysOf \in Maybe
      /\ t.needs \in BOOLEAN /\ t.torn \in BOOLEAN
  BY DEF Tasks
<1> DEFINE v == SetUser(u, t.who, t.needs)
           scope == IF t.keysOf # None THEN t.keysOf ELSE t.who
<1>2. /\ v \in UiType /\ v.user = t.who /\ v.route = u.route
      /\ v.view = u.view /\ v.busy = u.busy /\ v.oidc = u.oidc
  BY <1>1, SetUserFacts
<1>3. SignedIn(u, t) = [v EXCEPT !.scope = scope, !.torn = t.torn]
  BY DEF SignedIn
<1>4. scope \in Maybe /\ t.torn \in BOOLEAN
  BY <1>1
<1>5. SignedIn(u, t).scope = IF t.keysOf # None THEN t.keysOf ELSE t.who
  BY <1>2, <1>3 DEF UiType
<1> HIDE DEF v, scope
<1>6. /\ SignedIn(u, t) \in UiType
      /\ SignedIn(u, t).user = v.user /\ SignedIn(u, t).torn = t.torn
      /\ SignedIn(u, t).route = v.route /\ SignedIn(u, t).view = v.view
      /\ SignedIn(u, t).busy = v.busy /\ SignedIn(u, t).oidc = v.oidc
  BY <1>2, <1>3, <1>4 DEF UiType
<1> QED BY <1>2, <1>5, <1>6

LEMMA SignedOutFacts ==
  ASSUME NEW u \in UiType
  PROVE  /\ SignedOut(u) \in UiType
         /\ SignedOut(u).user = None
         /\ SignedOut(u).route = u.route
         /\ SignedOut(u).view = u.view
         /\ SignedOut(u).busy = u.busy
         /\ SignedOut(u).oidc = u.oidc
<1> DEFINE v == SetUser(u, None, FALSE)
<1>1. /\ v \in UiType /\ v.user = None /\ v.route = u.route
      /\ v.view = u.view /\ v.busy = u.busy /\ v.oidc = u.oidc
  BY SetUserFacts DEF Maybe
<1>2. SignedOut(u) = [v EXCEPT !.torn = FALSE]
  BY DEF SignedOut
<1> HIDE DEF v
<1> QED BY <1>1, <1>2 DEF UiType

(* The failure of a refresh forgets the user, or nothing. *)
LEMMA ForgetsFacts ==
  ASSUME NEW u \in UiType, NEW o
  PROVE  /\ Forgets(o, u) \in UiType
         /\ Forgets(o, u) = u \/ Forgets(o, u).user = None
         /\ Forgets(o, u).route = u.route
         /\ Forgets(o, u).view = u.view
         /\ Forgets(o, u).busy = u.busy
         /\ Forgets(o, u).oidc = u.oidc
  BY SignedOutFacts DEF Forgets

LEMMA ClearSessionFacts ==
  ASSUME NEW u \in UiType
  PROVE  /\ ClearSession(u) \in UiType
         /\ ClearSession(u).user = None
         /\ ClearSession(u).route = u.route
<1> DEFINE v == SignedOut(u)
<1>1. v \in UiType /\ v.user = None /\ v.route = u.route
  BY SignedOutFacts
<1>2. ClearSession(u) = [v EXCEPT !.token = None, !.oidc = "none"]
  BY DEF ClearSession
<1> HIDE DEF v
<1> QED BY <1>1, <1>2 DEF UiType, Maybe

(* Requests that are sent, and that are over. *)
LEMMA TaskFacts ==
  /\ Idle \in Tasks /\ Idle.st = "idle"
  /\ \A o \in Ops, who \in Maybe : Sent(o, who) \in Tasks /\ Sent(o, who).st = "sent"
  /\ Booting \in [Ops -> Tasks]
  /\ Booting["exchange"] = Idle /\ Booting["logout"] = Idle
  /\ Booting["authorize"] = Idle /\ Booting["login"] = Idle
  /\ HalvesFit(Idle)
  /\ \A o \in Loads, who \in Maybe : HalvesFit(Sent(o, who))
<1>1. HalvesFit(Idle) /\ \A o \in Loads, who \in Maybe : HalvesFit(Sent(o, who))
  BY DEF HalvesFit, Idle, Sent
<1> QED BY <1>1 DEF Idle, Sent, Booting, Tasks, Results, Maybe, Ops, Loads

LEMMA InitIInv == Init => IInv
<1> SUFFICES ASSUME Init PROVE IInv
  OBVIOUS
<1>1. /\ ui = Loaded("app", "none") /\ ui \in UiType
      /\ ui.user = None /\ ui.route = "app"
  BY LoadedFacts DEF Init, Routes
<1>2. srv \in SrvType /\ net \in [Ops -> Tasks]
  BY TaskFacts DEF Init, SrvType
<1>3. LoadsFit
  <2>1. \A o \in Loads : net[o] = Idle \/ net[o] = Sent(o, None)
    BY DEF Init, Booting, Ops
  <2> QED BY <2>1, TaskFacts DEF LoadsFit, Maybe
<1> QED BY <1>1, <1>2, <1>3 DEF TypeOK, IInv, ScopeFollowsUser, CallbackHolds

(***************************************************************************)
(* The service answers: the tab is as it was, and nothing new is open.     *)
(***************************************************************************)
AnsweredFor(t, res) == IF res = "user" THEN Identity(t) ELSE t.who

LEMMA AnswerFacts ==
  ASSUME TypeOK, NEW o \in Ops, NEW res \in Results, Answer(o, res)
  PROVE  /\ net' \in [Ops -> Tasks] /\ ui' = ui /\ net[o].st = "sent"
         /\ net[o].who \in Maybe /\ AnsweredFor(net[o], res) \in Maybe
         /\ net'[o].st = "answered" /\ net'[o].res = res
         /\ net'[o].who = AnsweredFor(net[o], res)
         /\ net'[o].needs = (res = "user" /\ srv.needs[AnsweredFor(net[o], res)])
         /\ net'[o].keys = net[o].keys /\ net'[o].keysOf = net[o].keysOf
         /\ net'[o].torn = net[o].torn
         /\ \A p \in Ops \ {o} :
              /\ net'[p].st = net[p].st /\ net'[p].res = net[p].res
              /\ net'[p].who = net[p].who /\ net'[p].needs = net[p].needs
              /\ net'[p].keys = net[p].keys /\ net'[p].keysOf = net[p].keysOf
              /\ net'[p].torn = (net[p].torn \/ (res = "token"
                                 /\ HalfOfAnother(p, AnsweredFor(net[o], res))))
<1> DEFINE t == net[o]
           who == AnsweredFor(t, res)
           needs == res = "user" /\ srv.needs[who]
           task == [t EXCEPT !.st = "answered", !.who = who, !.res = res, !.needs = needs]
           Other(p) == [net[p] EXCEPT !.torn =
                          @ \/ (res = "token" /\ HalfOfAnother(p, who))]
<1>1. t \in Tasks /\ srv \in SrvType /\ \A p \in Ops : net[p] \in Tasks
  BY DEF TypeOK
<1>2. t.who \in Maybe /\ who \in Maybe /\ needs \in BOOLEAN
  <2>1. t.who \in Maybe /\ srv.cookie \in Maybe
    BY <1>1 DEF Tasks, SrvType
  <2>2. who \in Maybe
    BY <2>1 DEF Identity, AnsweredFor
  <2>3. needs \in BOOLEAN
    OBVIOUS
  <2> QED BY <2>1, <2>2, <2>3
<1>3. /\ ui' = ui /\ t.st = "sent"
      /\ net' = [p \in Ops |-> IF p = o THEN task ELSE Other(p)]
  BY DEF Answer, AnsweredFor
<1>4. /\ task \in Tasks /\ task.st = "answered" /\ task.res = res
      /\ task.who = who /\ task.needs = needs /\ task.keys = t.keys
      /\ task.keysOf = t.keysOf /\ task.torn = t.torn
  <2> HIDE DEF who, needs, t
  <2> QED BY <1>1, <1>2 DEF Tasks
<1>5. ASSUME NEW p \in Ops
      PROVE  /\ Other(p) \in Tasks
             /\ Other(p).st = net[p].st /\ Other(p).res = net[p].res
             /\ Other(p).who = net[p].who /\ Other(p).needs = net[p].needs
             /\ Other(p).keys = net[p].keys /\ Other(p).keysOf = net[p].keysOf
             /\ Other(p).torn = (net[p].torn \/ (res = "token" /\ HalfOfAnother(p, who)))
  <2> DEFINE q == net[p]
             torn == q.torn \/ (res = "token" /\ HalfOfAnother(p, who))
  <2>1. q \in Tasks /\ torn \in BOOLEAN
    BY <1>1 DEF Tasks
  <2>2. Other(p) = [q EXCEPT !.torn = torn]
    OBVIOUS
  <2> HIDE DEF q, torn
  <2> QED BY <2>1, <2>2 DEF Tasks
<1>6. net' \in [Ops -> Tasks]
  <2> HIDE DEF task, Other
  <2> QED BY <1>3, <1>4, <1>5
<1>7. net'[o] = task /\ \A p \in Ops \ {o} : net'[p] = Other(p)
  <2> HIDE DEF task, Other
  <2> QED BY <1>3
<1> HIDE DEF task, Other
<1> QED BY <1>2, <1>3, <1>4, <1>5, <1>6, <1>7

(* Who has the session afterwards: the account of a token, nobody after a  *)
(* sign-out, or whoever had it.                                            *)
LEMMA AnswerCookie ==
  ASSUME TypeOK, NEW o \in Ops, NEW res \in Results, Answer(o, res)
  PROVE  /\ srv' \in SrvType
         /\ srv'.cookie = IF res = "token" THEN net[o].who
                          ELSE IF o = "logout" /\ res = "ok" THEN None
                          ELSE srv.cookie
<1> DEFINE t == net[o]
<1>1. srv \in SrvType /\ t.who \in Maybe
  BY DEF TypeOK, Tasks
<1>2. srv' = CASE res = "token" -> [srv EXCEPT !.cookie = t.who]
            [] o = "logout" /\ res = "ok" -> [srv EXCEPT !.cookie = None]
            [] o = "verify" /\ res = "ok" /\ t.who # None ->
                 [srv EXCEPT !.mfa[t.who] = "on"]
            [] o = "password" /\ res = "ok" /\ t.who # None ->
                 [srv EXCEPT !.needs[t.who] = FALSE]
            [] OTHER -> srv
  BY DEF Answer
<1> HIDE DEF t
<1>3. CASE res = "token"
  <2>1. srv' = [srv EXCEPT !.cookie = t.who]
    BY <1>2, <1>3
  <2> QED BY <1>1, <1>3, <2>1 DEF SrvType, t
<1>4. CASE res # "token" /\ o = "logout" /\ res = "ok"
  <2>1. srv' = [srv EXCEPT !.cookie = None]
    BY <1>2, <1>4
  <2> QED BY <1>1, <1>4, <2>1 DEF SrvType, Maybe
<1>5. CASE res # "token" /\ ~(o = "logout" /\ res = "ok")
  <2>1. \/ t.who # None /\ srv' = [srv EXCEPT !.mfa[t.who] = "on"]
        \/ t.who # None /\ srv' = [srv EXCEPT !.needs[t.who] = FALSE]
        \/ srv' = srv
    BY <1>2, <1>5
  <2>2. srv' \in SrvType /\ srv'.cookie = srv.cookie
    <3>1. CASE t.who # None /\ srv' = [srv EXCEPT !.mfa[t.who] = "on"]
      BY <1>1, <3>1 DEF SrvType, Maybe
    <3>2. CASE t.who # None /\ srv' = [srv EXCEPT !.needs[t.who] = FALSE]
      BY <1>1, <3>2 DEF SrvType, Maybe
    <3>3. CASE srv' = srv
      BY <1>1, <3>3
    <3> QED BY <2>1, <3>1, <3>2, <3>3
  <2> QED BY <1>5, <2>2
<1> QED BY <1>3, <1>4, <1>5 DEF t

(* The answer to /me is for whom the listing was, or will be, unless the   *)
(* load is torn; and no other load comes to mix two accounts untorn.       *)
LEMMA AnswerFits ==
  ASSUME IInv, NEW o \in Ops, NEW res \in Results, Answer(o, res)
  PROVE  LoadsFit'
<1> SUFFICES ASSUME NEW p \in Loads PROVE HalvesFit(net[p])'
  BY DEF LoadsFit
<1> DEFINE t == net[o]
           q == net[p]
           who == AnsweredFor(t, res)
<1>1. /\ TypeOK /\ HalvesFit(q) /\ p \in Ops /\ q \in Tasks /\ t \in Tasks
      /\ srv.cookie \in Maybe
  BY DEF IInv, LoadsFit, Ops, TypeOK, SrvType
<1>2. res \in ResultsOf(o, t) \cup {"failed"}
  BY DEF Answer
<1>3. CASE p = o
  <2>1. /\ net'[p].st = "answered" /\ net'[p].who = who /\ net'[p].res = res
        /\ net'[p].keys = q.keys /\ net'[p].keysOf = q.keysOf
        /\ net'[p].torn = q.torn /\ q.st = "sent"
    BY <1>1, <1>3, AnswerFacts
  <2>2. res # "token" /\ o # "logout" /\ (res = "user" => Identity(q) # None)
    BY <1>2, <1>3 DEF ResultsOf, Loads
  <2>3. srv'.cookie = srv.cookie
    BY <1>1, <2>2, AnswerCookie
  <2> QED BY <1>1, <1>3, <2>1, <2>2, <2>3 DEF HalvesFit, Fits, Identity, AnsweredFor
<1>4. CASE p # o
  <2>1. /\ net'[p].st = q.st /\ net'[p].who = q.who /\ net'[p].res = q.res
        /\ net'[p].keys = q.keys /\ net'[p].keysOf = q.keysOf
        /\ net'[p].torn = (q.torn \/ (res = "token" /\ HalfOfAnother(p, who)))
    BY <1>1, <1>4, AnswerFacts
  <2>2. CASE res = "token"
    <3>1. srv'.cookie = who
      BY <1>1, <2>2, AnswerCookie DEF AnsweredFor
    <3> HIDE DEF who
    <3> QED BY <1>1, <2>1, <2>2, <3>1 DEF HalvesFit, Fits, HalfOfAnother
  <2>3. CASE res # "token"
    <3>1. srv'.cookie \in {None, srv.cookie}
      BY <1>1, <2>3, AnswerCookie
    <3> QED BY <1>1, <2>1, <2>3, <3>1 DEF HalvesFit, Fits
  <2> QED BY <2>2, <2>3
<1> QED BY <1>3, <1>4

LEMMA AnswerKeeps ==
  ASSUME IInv, NEW o \in Ops, NEW res \in Results, Answer(o, res)
  PROVE  IInv'
<1>1. TypeOK /\ net \in [Ops -> Tasks] /\ ui \in UiType
  BY DEF IInv, TypeOK
<1>2. ui' = ui /\ net' \in [Ops -> Tasks] /\ net[o].st = "sent" /\ net'[o].st = "answered"
  BY <1>1, AnswerFacts
<1>3. \A p \in Ops : Free(p)' <=> Free(p)
  <2>1. \A p \in Ops \ {o} : net'[p].st = net[p].st
    BY <1>1, AnswerFacts
  <2> QED BY <1>2, <2>1 DEF Free
<1>4. {"logout", "authorize", "login", "exchange"} \subseteq Ops
  BY DEF Ops
<1>5. TypeOK'
  BY <1>1, <1>2, AnswerCookie DEF TypeOK
<1>6. CallbackHolds'
  BY <1>2, <1>3, <1>4 DEF IInv, CallbackHolds
<1> QED BY <1>2, <1>5, <1>6, AnswerFits DEF IInv, ScopeFollowsUser

(***************************************************************************)
(* The listing is answered: for the account /me was, or will be, answered  *)
(* for, unless the load is torn.                                           *)
(***************************************************************************)
LEMMA ListedFacts ==
  ASSUME TypeOK, NEW o \in Ops, NEW listed \in BOOLEAN, AnswerKeys(o, listed)
  PROVE  /\ net' \in [Ops -> Tasks] /\ ui' = ui /\ srv' = srv /\ o \in Loads
         /\ net'[o].st = net[o].st /\ net'[o].res = net[o].res
         /\ net'[o].who = net[o].who /\ net'[o].needs = net[o].needs
         /\ net'[o].keys = "answered" /\ net'[o].torn = net[o].torn
         /\ net'[o].keysOf = IF listed THEN KeysIdentity(net[o]) ELSE None
         /\ \A p \in Ops \ {o} : net'[p] = net[p]
<1> DEFINE t == net[o]
           of == IF listed THEN KeysIdentity(t) ELSE None
           task == [t EXCEPT !.keys = "answered", !.keysOf = of]
<1>1. t \in Tasks /\ of \in Maybe
  BY DEF TypeOK, Tasks, SrvType, KeysIdentity, Maybe
<1>2. ui' = ui /\ srv' = srv /\ o \in Loads
  BY DEF AnswerKeys
<1>3. net' = [net EXCEPT ![o] = task]
  BY DEF AnswerKeys, TypeOK, Tasks
<1>4. /\ task \in Tasks /\ task.st = t.st /\ task.res = t.res
      /\ task.who = t.who /\ task.needs = t.needs /\ task.keys = "answered"
      /\ task.torn = t.torn /\ task.keysOf = of
  <2> HIDE DEF of, t
  <2> QED BY <1>1 DEF Tasks
<1> HIDE DEF task
<1>5. net' \in [Ops -> Tasks] /\ net'[o] = task /\ \A p \in Ops \ {o} : net'[p] = net[p]
  BY <1>3, <1>4 DEF TypeOK
<1> QED BY <1>2, <1>4, <1>5

LEMMA AnswerKeysKeeps ==
  ASSUME IInv, NEW o \in Ops, NEW listed \in BOOLEAN, AnswerKeys(o, listed)
  PROVE  IInv'
<1> DEFINE t == net[o]
           of == IF listed THEN KeysIdentity(t) ELSE None
<1>1. TypeOK /\ t \in Tasks /\ srv \in SrvType /\ srv.cookie \in Maybe
  BY DEF IInv, TypeOK, SrvType
<1>2. /\ net' \in [Ops -> Tasks] /\ ui' = ui /\ srv' = srv /\ o \in Loads
      /\ net'[o].st = t.st /\ net'[o].who = t.who /\ net'[o].res = t.res
      /\ net'[o].keys = "answered" /\ net'[o].keysOf = of /\ net'[o].torn = t.torn
      /\ \A p \in Ops \ {o} : net'[p] = net[p]
  BY <1>1, ListedFacts
<1>3. t.keys = "sent" /\ (listed => KeysIdentity(t) # None)
  BY DEF AnswerKeys
<1>4. HalvesFit(t)
  BY <1>2 DEF IInv, LoadsFit
<1>5. HalvesFit(net[o])'
  BY <1>1, <1>2, <1>3, <1>4 DEF HalvesFit, Fits, KeysIdentity
<1>6. \A p \in Loads \ {o} : HalvesFit(net[p])'
  BY <1>2 DEF IInv, LoadsFit, HalvesFit, Fits, Ops
<1>7. LoadsFit'
  BY <1>5, <1>6 DEF LoadsFit
<1>8. TypeOK'
  BY <1>1, <1>2 DEF TypeOK
<1>9. CallbackHolds'
  BY <1>2 DEF IInv, CallbackHolds, Free, Ops
<1> QED BY <1>2, <1>7, <1>8, <1>9 DEF IInv, ScopeFollowsUser

(***************************************************************************)
(* A step of the tab leaves of each load what it was, nothing, or a new    *)
(* one, and none of them mixes two accounts.                               *)
(***************************************************************************)
LEMMA LoadsStay ==
  ASSUME IInv, NetGoesOn, srv' = srv
  PROVE  LoadsFit'
<1> SUFFICES ASSUME NEW o \in Loads PROVE HalvesFit(net[o])'
  BY DEF LoadsFit
<1>1. HalvesFit(net[o]) /\ HalvesFit(Idle) /\ \A who \in Maybe : HalvesFit(Sent(o, who))
  BY TaskFacts DEF IInv, LoadsFit
<1>2. PICK t : net'[o] = t /\ HalvesFit(t)
  BY <1>1 DEF NetGoesOn
<1> QED BY <1>2 DEF HalvesFit, Fits

(***************************************************************************)
(* Steps that leave the callback page, or its view, its form and the       *)
(* transaction, as they are, and open nothing the callback page fears.     *)
(***************************************************************************)
LEMMA TabKeeps ==
  ASSUME IInv, ui' \in UiType, srv' = srv, NetGoesOn,
         Scoped(ui'),
         ui'.route = "callback" =>
           /\ ui.route = "callback"
           /\ ui'.view = ui.view /\ ui'.busy = ui.busy /\ ui'.oidc = ui.oidc
           /\ \A p \in {"logout", "authorize", "login", "exchange"} :
                net'[p].st = net[p].st \/ net'[p].st = "idle"
  PROVE  IInv'
<1>1. TypeOK'
  <2>1. srv' \in SrvType
    BY DEF TypeOK, IInv
  <2> QED BY <2>1 DEF TypeOK, NetGoesOn
<1>2. CallbackHolds'
  BY DEF IInv, CallbackHolds, Free
<1> QED BY <1>1, <1>2, LoadsStay DEF IInv, ScopeFollowsUser, Scoped

(***************************************************************************)
(* What a request that is sent, or over, leaves of the others.             *)
(***************************************************************************)
LEMMA PageFacts ==
  ASSUME net \in [Ops -> Tasks],
         net' = net \/ net' = Booting \/ net' = [p \in Ops |-> Idle]
  PROVE  NetGoesOn
  BY TaskFacts DEF Booting, NetGoesOn, Ops, Maybe

LEMMA RequestFacts ==
  ASSUME net \in [Ops -> Tasks], NEW o \in Ops
  PROVE  /\ \A who \in Maybe : Send(o, who) =>
               /\ NetGoesOn
               /\ \A p \in Ops \ {o} : net'[p].st = net[p].st
         /\ Done(o) =>
               /\ NetGoesOn
               /\ \A p \in Ops : net'[p].st = net[p].st \/ net'[p].st = "idle"
         /\ \A p \in Ops, who \in Maybe : DoneAndSend(o, p, who) =>
               /\ NetGoesOn
               /\ \A q \in Ops \ {p} : net'[q].st = net[q].st \/ net'[q].st = "idle"
  BY TaskFacts DEF Send, Done, DoneAndSend, Booting, NetGoesOn, Ops, Maybe

LEMMA SendFacts ==
  ASSUME net \in [Ops -> Tasks], NEW o \in Ops, NEW who \in Maybe, Send(o, who)
  PROVE  NetGoesOn /\ \A p \in Ops \ {o} : net'[p].st = net[p].st
  BY RequestFacts

LEMMA DoneAndSendFacts ==
  ASSUME net \in [Ops -> Tasks], NEW o \in Ops, NEW p \in Ops, NEW who \in Maybe,
         DoneAndSend(o, p, who)
  PROVE  /\ NetGoesOn
         /\ \A q \in Ops \ {p} : net'[q].st = net[q].st \/ net'[q].st = "idle"
  BY RequestFacts

LEMMA StateParts ==
  ASSUME IInv
  PROVE  /\ ui \in UiType /\ net \in [Ops -> Tasks]
         /\ Scoped(ui)
         /\ ui.user \in Maybe /\ ui.token \in Maybe /\ ui.setup \in Maybe /\ ui.typed \in Maybe
         /\ {"app", "login", "callback", "idp"} = Routes
         /\ None \in Maybe
         /\ {"logout", "authorize", "login", "exchange", "refresh", "loginRefresh", "boot",
             "pageRefresh", "oidcLoad", "enrol", "verify", "password"} = Ops
<1>1. ui \in UiType /\ net \in [Ops -> Tasks]
  BY DEF TypeOK, IInv
<1>2. ui.user \in Maybe /\ ui.token \in Maybe /\ ui.setup \in Maybe /\ ui.typed \in Maybe
  BY <1>1 DEF UiType
<1> QED BY <1>1, <1>2 DEF IInv, ScopeFollowsUser, Scoped, Maybe, Ops, Loads, Routes

(***************************************************************************)
(* The answers of a load: the user of one, the scope of the other.         *)
(***************************************************************************)
LEMMA MergedScoped ==
  ASSUME IInv, NEW o \in Loads, Ready(o), net[o].res = "user"
  PROVE  Scoped(SignedIn(ui, net[o]))
<1>1. net[o] \in Tasks /\ ui \in UiType
  BY StateParts DEF Ops
<1>2. HalvesFit(net[o]) /\ net[o].st = "answered" /\ net[o].keys = "answered"
  BY DEF IInv, LoadsFit, Ready, Answered
<1> QED BY <1>1, <1>2, SignedInFacts DEF HalvesFit, Scoped

LEMMA LoadKeeps ==
  ASSUME IInv, NEW o \in {"boot", "oidcLoad"}, DeliverLoad(o)
  PROVE  IInv'
<1> DEFINE t == net[o]
           v == IF t.res = "user" THEN SignedIn(ui, t) ELSE SignedOut(ui)
           u == [v EXCEPT !.loading = FALSE]
           w == IF o = "oidcLoad" /\ ui.route = "callback" THEN Mounted(u, "app") ELSE u
<1>1. o \in Ops /\ t \in Tasks
  BY StateParts
<1>2. /\ v \in UiType /\ Scoped(v) /\ v.route = ui.route
      /\ v.view = ui.view /\ v.busy = ui.busy /\ v.oidc = ui.oidc
  <2>1. t.res = "user" => Scoped(SignedIn(ui, t))
    BY MergedScoped DEF DeliverLoad, Loads
  <2> QED BY <1>1, <2>1, StateParts, SignedInFacts, SignedOutFacts DEF Scoped
<1>3. ui' = Redirected(w) /\ srv' = srv /\ Done(o)
  BY DEF DeliverLoad
<1> HIDE DEF v
<1>4. /\ u \in UiType /\ Scoped(u) /\ u.route = ui.route
      /\ u.view = ui.view /\ u.busy = ui.busy /\ u.oidc = ui.oidc
  BY <1>2 DEF UiType, Scoped
<1> HIDE DEF u
<1>5. /\ w \in UiType /\ Scoped(w)
      /\ w.route = "callback" => w = u
  BY <1>4, MountedFacts, StateParts DEF Scoped
<1> HIDE DEF w
<1> QED BY <1>1, <1>3, <1>4, <1>5, RedirectedFacts, StateParts, RequestFacts, TabKeeps DEF Scoped

LEMMA RefreshKeeps ==
  ASSUME IInv, NEW o \in {"refresh", "pageRefresh", "loginRefresh"}, DeliverRefresh(o)
  PROVE  IInv'
<1> DEFINE t == net[o]
           u == CASE t.res = "user" -> SignedIn(ui, t)
                  [] t.res = "unauthorized" /\ ui.route = "callback" ->
                       [Forgets(o, ui) EXCEPT !.token = None]
                  [] t.res = "unauthorized" /\ ui.route # "callback" ->
                       Mounted(ClearSession(ui), "login")
                  [] OTHER -> Forgets(o, ui)
           step == [u EXCEPT !.setup = IF ui.step = "codes" THEN None ELSE @]
           after == IF o = "loginRefresh" THEN Mounted(step, "app") ELSE u
<1>1. o \in Ops /\ t \in Tasks
  BY StateParts
<1>2. ui' = Redirected(after) /\ srv' = srv /\ Done(o)
  BY DEF DeliverRefresh
<1>a. \/ t.res = "user" /\ u = SignedIn(ui, t)
      \/ u = [Forgets(o, ui) EXCEPT !.token = None]
      \/ u = Mounted(ClearSession(ui), "login")
      \/ u = Forgets(o, ui)
  OBVIOUS
<1>b. t.res = "user" => Scoped(SignedIn(ui, t))
  BY MergedScoped DEF DeliverRefresh, Loads
<1> HIDE DEF u, t
<1>3. /\ u \in UiType /\ Scoped(u)
      /\ u.route = "callback" =>
           /\ ui.route = "callback"
           /\ u.view = ui.view /\ u.busy = ui.busy /\ u.oidc = ui.oidc
  <2>1. CASE t.res = "user" /\ u = SignedIn(ui, t)
    BY <1>1, <1>b, <2>1, StateParts, SignedInFacts
  <2>2. CASE u = [Forgets(o, ui) EXCEPT !.token = None]
    <3> DEFINE v == Forgets(o, ui)
    <3>1. /\ v \in UiType /\ Scoped(v) /\ v.route = ui.route
          /\ v.view = ui.view /\ v.busy = ui.busy /\ v.oidc = ui.oidc
      BY StateParts, ForgetsFacts DEF Scoped
    <3>2. u = [v EXCEPT !.token = None]
      BY <2>2
    <3> HIDE DEF v
    <3> QED BY <3>1, <3>2, StateParts DEF UiType, Scoped
  <2>3. CASE u = Mounted(ClearSession(ui), "login")
    BY <2>3, StateParts, ClearSessionFacts, MountedFacts DEF Scoped
  <2>4. CASE u = Forgets(o, ui)
    BY <2>4, StateParts, ForgetsFacts DEF Scoped
  <2> QED BY <1>a, <2>1, <2>2, <2>3, <2>4
<1>4. step \in UiType /\ step.user = u.user /\ step.scope = u.scope /\ step.torn = u.torn
  BY <1>3, StateParts DEF UiType
<1> HIDE DEF step
<1>5. /\ after \in UiType /\ Scoped(after)
      /\ after.route = "callback" => after = u
  BY <1>3, <1>4, MountedFacts, StateParts DEF Scoped
<1> HIDE DEF after
<1> QED BY <1>1, <1>2, <1>3, <1>5, RedirectedFacts, StateParts, RequestFacts, TabKeeps DEF Scoped

(***************************************************************************)
(* Signing out, and in with a password.                                    *)
(***************************************************************************)
LEMMA LogoutKeeps ==
  ASSUME IInv, Logout \/ DeliverLogout
  PROVE  IInv'
<1>1. CASE Logout
  <2> DEFINE u == Mounted(ui, "login")
  <2>1. u \in UiType /\ u.user = ui.user /\ u.scope = ui.scope /\ u.torn = ui.torn /\ u.route = "login"
    BY StateParts, MountedFacts
  <2>2. ui' = Redirected(u) /\ Send("logout", ui.token) /\ srv' = srv
    BY <1>1 DEF Logout
  <2> HIDE DEF u
  <2>3. NetGoesOn
    BY <2>2, StateParts, RequestFacts
  <2> QED BY <2>1, <2>2, <2>3, RedirectedFacts, StateParts, TabKeeps DEF Scoped
<1>2. CASE DeliverLogout
  <2> DEFINE u == ClearSession(ui)
  <2>1. u \in UiType /\ u.user = None /\ u.route = ui.route
    BY StateParts, ClearSessionFacts
  <2>2. ui' = Redirected(u) /\ Done("logout") /\ srv' = srv /\ ~Free("logout")
    BY <1>2 DEF DeliverLogout, Answered, Free
  <2> HIDE DEF u
  <2>3. ui.route # "callback"
    BY <2>2 DEF IInv, CallbackHolds
  <2>4. NetGoesOn
    BY <2>2, StateParts, RequestFacts
  <2> QED BY <2>1, <2>2, <2>3, <2>4, RedirectedFacts, StateParts, TabKeeps DEF Scoped
<1> QED BY <1>1, <1>2

LEMMA SubmitLoginKeeps ==
  ASSUME IInv, NEW who \in Accounts, SubmitLogin(who)
  PROVE  IInv'
<1>1. /\ ui.route = "login" /\ srv' = srv /\ Send("login", who)
      /\ ui' = [ui EXCEPT !.busy = TRUE, !.typed = who]
  BY DEF SubmitLogin, OnLogin
<1>2. who \in Maybe
  BY DEF Maybe
<1>3. NetGoesOn
  BY <1>1, <1>2, StateParts, RequestFacts
<1>4. /\ ui' \in UiType /\ ui'.route = "login"
      /\ ui'.user = ui.user /\ ui'.scope = ui.scope /\ ui'.torn = ui.torn
  BY <1>1, <1>2, StateParts DEF UiType
<1> QED BY <1>1, <1>3, <1>4, StateParts, TabKeeps DEF Scoped

LEMMA LoginKeeps ==
  ASSUME IInv, DeliverLogin
  PROVE  IInv'
<1> DEFINE t == net["login"]
<1>1. t \in Tasks /\ ~Free("login") /\ srv' = srv
  BY StateParts DEF DeliverLogin, Answered, Free
<1>2. t.who \in Maybe
  BY <1>1 DEF Tasks
<1>3. ui.route # "callback"
  BY <1>1 DEF IInv, CallbackHolds
<1>4. /\ ui' \in UiType /\ ui'.route = ui.route
      /\ ui'.user = ui.user /\ ui'.scope = ui.scope /\ ui'.torn = ui.torn
  <2>1. CASE t.res = "token"
    BY <1>2, <2>1, StateParts DEF DeliverLogin, UiType
  <2>2. CASE t.res # "token"
    <3> DEFINE here == ui.route = "login" /\ ui.typed = t.who
               busy == IF here THEN FALSE ELSE ui.busy
               step == IF ~here \/ ui.step # "password" THEN ui.step
                       ELSE CASE t.res = "mfa" -> "mfa"
                              [] t.res = "setup" -> "enrol"
                              [] OTHER -> ui.step
               setup == IF t.res = "setup" /\ ui.step = "password"
                        THEN t.who ELSE ui.setup
    <3>1. ui' = [ui EXCEPT !.busy = busy, !.step = step, !.setup = setup]
      BY <2>2, StateParts DEF DeliverLogin, UiType
    <3>2. /\ busy \in BOOLEAN /\ setup \in Maybe
          /\ step \in {"password", "mfa", "enrol", "verify", "codes"}
      BY <1>2, StateParts DEF UiType
    <3> HIDE DEF busy, step, setup
    <3> QED BY <3>1, <3>2, StateParts DEF UiType
  <2> QED BY <2>1, <2>2
<1>5. NetGoesOn
  <2>1. Done("login") \/ DoneAndSend("login", "loginRefresh", t.who)
    BY DEF DeliverLogin
  <2> QED BY <1>2, <2>1, StateParts, RequestFacts
<1> QED BY <1>1, <1>3, <1>4, <1>5, StateParts, TabKeeps DEF Scoped

(***************************************************************************)
(* The login page: the setup of the second factor.                         *)
(***************************************************************************)
LEMMA SetupKeeps ==
  ASSUME IInv, \/ BackFromMfa \/ StartMfaSetup \/ VerifyMfaSetup \/ CancelMfaSetup
  PROVE  IInv'
<1>1. ui.route = "login" /\ srv' = srv
  BY DEF BackFromMfa, StartMfaSetup, VerifyMfaSetup, CancelMfaSetup, OnLogin
<1>2. Setter \in Maybe
  BY StateParts DEF Setter
<1>3. /\ ui' \in UiType /\ ui'.route = "login"
      /\ ui'.user = ui.user /\ ui'.scope = ui.scope /\ ui'.torn = ui.torn
  <2>1. CASE BackFromMfa
    BY <1>1, <2>1, StateParts DEF BackFromMfa, UiType
  <2>2. CASE StartMfaSetup
    BY <1>1, <2>2, StateParts DEF StartMfaSetup, UiType
  <2>3. CASE VerifyMfaSetup
    BY <1>1, <2>3, StateParts DEF VerifyMfaSetup, UiType
  <2>4. CASE CancelMfaSetup
    BY <1>1, <2>4, StateParts DEF CancelMfaSetup, UiType
  <2> QED BY <2>1, <2>2, <2>3, <2>4
<1>4. net' = net \/ Send("enrol", Setter) \/ Send("verify", Setter)
  BY DEF BackFromMfa, StartMfaSetup, VerifyMfaSetup, CancelMfaSetup
<1>5. NetGoesOn
  <2>1. "enrol" \in Ops /\ "verify" \in Ops /\ net \in [Ops -> Tasks]
    BY StateParts
  <2> QED BY <1>2, <1>4, <2>1, SendFacts, PageFacts
<1> QED BY <1>1, <1>3, <1>5, StateParts, TabKeeps DEF Scoped

LEMMA SetupAnswerKeeps ==
  ASSUME IInv, NEW o \in {"enrol", "verify"}, DeliverSetup(o)
  PROVE  IInv'
<1>1. o \in Ops /\ srv' = srv /\ Done(o)
  BY StateParts DEF DeliverSetup
<1> DEFINE step == IF net[o].res # "ok" THEN ui.step
                   ELSE IF o = "enrol" THEN "verify" ELSE "codes"
<1>2. step \in {"password", "mfa", "enrol", "verify", "codes"}
  BY StateParts DEF UiType
<1>3. \/ ui' = ui
      \/ ui.route = "login" /\ ui' = [ui EXCEPT !.busy = FALSE, !.step = step]
  BY StateParts DEF DeliverSetup, UiType
<1> HIDE DEF step
<1>4. /\ ui' \in UiType /\ ui'.route = ui.route
      /\ ui'.user = ui.user /\ ui'.scope = ui.scope /\ ui'.torn = ui.torn
      /\ ui' = ui \/ ui.route = "login"
  BY <1>2, <1>3, StateParts DEF UiType
<1>5. /\ NetGoesOn
      /\ \A p \in Ops : net'[p].st = net[p].st \/ net'[p].st = "idle"
  BY <1>1, StateParts, RequestFacts
<1> QED BY <1>1, <1>4, <1>5, StateParts, TabKeeps DEF Scoped

(***************************************************************************)
(* The way to the identity provider and back.                              *)
(***************************************************************************)
LEMMA LeaveKeeps ==
  ASSUME IInv, StartOidc \/ DeliverAuthorize
  PROVE  IInv'
<1>1. CASE StartOidc
  <2>1. ui.route = "login" /\ srv' = srv /\ Send("authorize", None)
    BY <1>1 DEF StartOidc, OnLogin
  <2> DEFINE oidc == IF ui.oidc = "ready" THEN ui.oidc ELSE "started"
             setup == IF ui.step = "codes" THEN None ELSE ui.setup
             step == IF ui.step = "codes" THEN "password" ELSE ui.step
  <2>2. ui' = [ui EXCEPT !.busy = TRUE, !.oidc = oidc, !.setup = setup,
                         !.step = step, !.oidcFlow = FALSE]
    BY <1>1, StateParts DEF StartOidc, UiType
  <2>3. /\ oidc \in {"none", "started", "ready"} /\ setup \in Maybe
        /\ step \in {"password", "mfa", "enrol", "verify", "codes"}
    BY StateParts DEF UiType
  <2> HIDE DEF oidc, setup, step
  <2>4. /\ ui' \in UiType /\ ui'.route = "login"
        /\ ui'.user = ui.user /\ ui'.scope = ui.scope /\ ui'.torn = ui.torn
    BY <2>1, <2>2, <2>3, StateParts DEF UiType
  <2>5. NetGoesOn
    BY <2>1, StateParts, RequestFacts
  <2> QED BY <2>1, <2>4, <2>5, StateParts, TabKeeps DEF Scoped
<1>2. CASE DeliverAuthorize
  <2>1. ~Free("authorize") /\ srv' = srv
    BY <1>2 DEF DeliverAuthorize, Answered, Free
  <2>2. ui.route # "callback"
    BY <2>1 DEF IInv, CallbackHolds
  <2>3. CASE ui' = [Loaded("idp", "ready") EXCEPT !.loading = FALSE] /\ net' = [o \in Ops |-> Idle]
    <3> DEFINE v == Loaded("idp", "ready")
    <3>1. v \in UiType /\ v.user = None /\ v.route = "idp"
      BY LoadedFacts, StateParts
    <3>2. ui' = [v EXCEPT !.loading = FALSE]
      BY <2>3
    <3> HIDE DEF v
    <3>3. ui' \in UiType /\ ui'.user = None /\ ui'.route = "idp"
      BY <3>1, <3>2 DEF UiType
    <3>4. NetGoesOn
      BY <2>3, StateParts, PageFacts
    <3> QED BY <2>1, <3>3, <3>4, TabKeeps DEF Scoped
  <2>4. CASE ui' = [ui EXCEPT !.busy = FALSE] /\ Done("authorize")
    <3>1. /\ ui' \in UiType /\ ui'.route = ui.route
          /\ ui'.user = ui.user /\ ui'.scope = ui.scope /\ ui'.torn = ui.torn
      BY <2>4, StateParts DEF UiType
    <3>2. NetGoesOn
      BY <2>4, StateParts, RequestFacts
    <3> QED BY <2>1, <2>2, <3>1, <3>2, StateParts, TabKeeps DEF Scoped
  <2> QED BY <1>2, <2>3, <2>4 DEF DeliverAuthorize
<1> QED BY <1>1, <1>2

LEMMA ReturnKeeps ==
  ASSUME IInv, NEW who \in Maybe, ReturnFromIdp(who)
  PROVE  IInv'
<1> DEFINE u == Loaded("callback", ui.oidc)
<1>1. srv' = srv /\ srv \in SrvType
  BY DEF TypeOK, ReturnFromIdp, IInv
<1>2. ui.oidc \in {"none", "started", "ready"}
  BY StateParts DEF UiType
<1>3. /\ u \in UiType /\ u.user = None /\ u.route = "callback"
      /\ u.view = "working" /\ u.oidc = ui.oidc
  BY <1>2, LoadedFacts, StateParts
<1>4. \/ /\ ui' = u /\ net' = [Booting EXCEPT !["exchange"] = Sent("exchange", who)]
         /\ ui.oidc = "ready"
      \/ /\ ui' = [u EXCEPT !.view = "error"] /\ net' = Booting
  BY DEF ReturnFromIdp
<1> HIDE DEF u
<1>5. /\ ui' \in UiType /\ ui'.user = None /\ ui'.view # "mfa"
      /\ ui'.oidc = ui.oidc
  BY <1>3, <1>4 DEF UiType
<1>6. /\ NetGoesOn
      /\ net'["logout"] = Idle /\ net'["authorize"] = Idle /\ net'["login"] = Idle
      /\ net'["exchange"] = Idle \/ ui.oidc = "ready"
  <2>1. \A o \in Loads : net'[o] = Booting[o]
    BY <1>4, TaskFacts DEF Loads, Ops
  <2>2. \A o \in Loads : Booting[o] = Idle \/ Booting[o] = Sent(o, None)
    BY DEF Booting, Ops
  <2>3. net' \in [Ops -> Tasks]
    BY <1>4, TaskFacts, StateParts
  <2> QED BY <1>4, <2>1, <2>2, <2>3, TaskFacts, StateParts DEF NetGoesOn
<1>7. TypeOK'
  BY <1>1, <1>5, <1>6 DEF TypeOK, NetGoesOn
<1>8. CallbackHolds'
  BY <1>5, <1>6, TaskFacts DEF CallbackHolds, Free
<1> QED BY <1>1, <1>5, <1>6, <1>7, <1>8, LoadsStay DEF IInv, ScopeFollowsUser

(***************************************************************************)
(* The callback page: the exchange of the code, and the second factor.     *)
(***************************************************************************)
LEMMA ExchangeFailedFacts ==
  ASSUME NEW u \in UiType, NEW t \in Tasks
  PROVE  /\ ExchangeFailed(u, t) \in UiType
         /\ ExchangeFailed(u, t).user = u.user
         /\ ExchangeFailed(u, t).scope = u.scope
         /\ ExchangeFailed(u, t).torn = u.torn
         /\ ExchangeFailed(u, t).route = u.route
         /\ ExchangeFailed(u, t).oidc = u.oidc
         /\ ExchangeFailed(u, t).needs = u.needs
         /\ ExchangeFailed(u, t).mode = u.mode
         /\ ExchangeFailed(u, t).forced = u.forced
<1> DEFINE here == u.route = "callback"
           first == u.view # "mfa"
           typed == IF here /\ t.res = "mfa" THEN t.who ELSE u.typed
           view == IF ~here \/ ~first THEN u.view
                   ELSE IF t.res = "mfa" THEN "mfa" ELSE "error"
           v == [u EXCEPT !.busy = FALSE, !.typed = typed, !.view = view]
<1>1. typed \in Maybe /\ view \in {"working", "mfa", "error"}
  BY DEF UiType, Tasks
<1>2. AskedOrTold(u, t) = v
  BY DEF AskedOrTold, UiType
<1> HIDE DEF typed, view
<1>3. /\ v \in UiType /\ v.user = u.user /\ v.scope = u.scope /\ v.torn = u.torn
      /\ v.route = u.route /\ v.oidc = u.oidc
      /\ v.needs = u.needs /\ v.mode = u.mode /\ v.forced = u.forced
  BY <1>1 DEF UiType
<1>4. ExchangeFailed(u, t) = [v EXCEPT !.loading = FALSE]
  BY <1>2 DEF ExchangeFailed
<1>5. ASSUME NEW w \in UiType
      PROVE  /\ [w EXCEPT !.loading = FALSE] \in UiType
             /\ [w EXCEPT !.loading = FALSE].user = w.user
             /\ [w EXCEPT !.loading = FALSE].scope = w.scope
             /\ [w EXCEPT !.loading = FALSE].torn = w.torn
             /\ [w EXCEPT !.loading = FALSE].route = w.route
             /\ [w EXCEPT !.loading = FALSE].oidc = w.oidc
             /\ [w EXCEPT !.loading = FALSE].needs = w.needs
             /\ [w EXCEPT !.loading = FALSE].mode = w.mode
             /\ [w EXCEPT !.loading = FALSE].forced = w.forced
  BY DEF UiType
<1> HIDE DEF v
<1> QED BY <1>3, <1>4, <1>5

LEMMA ExchangeKeeps ==
  ASSUME IInv, DeliverExchange
  PROVE  IInv'
<1> DEFINE t == net["exchange"]
<1>1. t \in Tasks /\ t.who \in Maybe /\ srv' = srv /\ srv \in SrvType
  BY StateParts DEF TypeOK, DeliverExchange, Tasks, IInv
<1>2. ui.route = "callback" =>
        /\ Free("logout") /\ Free("authorize") /\ Free("login")
        /\ ui.oidc = "ready"
        /\ ui.view = "mfa" => ui.busy
  BY DEF IInv, CallbackHolds, DeliverExchange, Answered, Free
<1>3. Done("exchange") \/ DoneAndSend("exchange", "oidcLoad", t.who)
  BY DEF DeliverExchange
<1>4. /\ NetGoesOn /\ Free("exchange")'
      /\ \A p \in {"logout", "authorize", "login"} :
           net'[p].st = net[p].st \/ net'[p].st = "idle"
  <2>1. /\ NetGoesOn
        /\ \A p \in {"logout", "authorize", "login"} :
             net'[p].st = net[p].st \/ net'[p].st = "idle"
    <3>1. CASE Done("exchange")
      BY <3>1, StateParts, RequestFacts
    <3>2. CASE DoneAndSend("exchange", "oidcLoad", t.who)
      <4>1. "exchange" \in Ops /\ "oidcLoad" \in Ops /\ net \in [Ops -> Tasks]
        BY StateParts
      <4>2. {"logout", "authorize", "login"} \subseteq Ops \ {"oidcLoad"}
        BY StateParts
      <4> HIDE DEF t
      <4> QED BY <1>1, <3>2, <4>1, <4>2, DoneAndSendFacts
    <3> QED BY <1>3, <3>1, <3>2
  <2>2. net'["exchange"] = Idle
    BY <1>3, StateParts DEF Done, DoneAndSend
  <2> QED BY <2>1, <2>2, TaskFacts DEF Free
<1>5. /\ ui' \in UiType /\ Scoped(ui')
      /\ ui'.route = "callback" =>
           /\ ui.route = "callback"
           /\ \/ ui'.oidc = ui.oidc
              \/ ui'.view = ui.view /\ ui'.busy = ui.busy
  <2>1. CASE ui' = [ui EXCEPT !.oidc = "none", !.token = t.who, !.typed = None]
    BY <1>1, <2>1, StateParts DEF UiType, Scoped
  <2>2. CASE ui' = Redirected([Mounted([ui EXCEPT !.loading = FALSE,
                                         !.setup = t.who], "login")
                               EXCEPT !.step = "enrol", !.oidcFlow = TRUE])
    <3> DEFINE u == [ui EXCEPT !.loading = FALSE, !.setup = t.who]
               v == Mounted(u, "login")
               w == [v EXCEPT !.step = "enrol", !.oidcFlow = TRUE]
    <3>1. u \in UiType /\ u.user = ui.user /\ u.scope = ui.scope /\ u.torn = ui.torn
      BY <1>1, StateParts DEF UiType
    <3>2. ui' = Redirected(w)
      BY <2>2
    <3> HIDE DEF u
    <3>3. v \in UiType /\ v.user = ui.user /\ v.scope = ui.scope /\ v.torn = ui.torn /\ v.route = "login"
      BY <3>1, StateParts, MountedFacts
    <3> HIDE DEF v
    <3>4. w \in UiType /\ w.user = ui.user /\ w.scope = ui.scope /\ w.torn = ui.torn /\ w.route = "login"
      BY <3>3 DEF UiType
    <3> HIDE DEF w
    <3> QED BY <3>2, <3>4, StateParts, RedirectedFacts DEF Scoped
  <2>3. CASE ui' = Redirected(ExchangeFailed(ui, t))
    <3> DEFINE w == ExchangeFailed(ui, t)
    <3>1. /\ w \in UiType /\ w.user = ui.user /\ w.scope = ui.scope /\ w.torn = ui.torn
          /\ w.route = ui.route /\ w.oidc = ui.oidc
      BY <1>1, StateParts, ExchangeFailedFacts
    <3>2. ui' = Redirected(w)
      BY <2>3
    <3> HIDE DEF w
    <3> QED BY <3>1, <3>2, StateParts, RedirectedFacts DEF Scoped
  <2>4. \/ ui' = [ui EXCEPT !.oidc = "none", !.token = t.who, !.typed = None]
        \/ ui' = Redirected([Mounted([ui EXCEPT !.loading = FALSE,
                                        !.setup = t.who], "login")
                              EXCEPT !.step = "enrol", !.oidcFlow = TRUE])
        \/ ui' = Redirected(ExchangeFailed(ui, t))
    BY DEF DeliverExchange
  <2> QED BY <2>1, <2>2, <2>3, <2>4
<1>6. TypeOK'
  BY <1>1, <1>4, <1>5 DEF TypeOK, NetGoesOn
<1>7. CallbackHolds'
  BY <1>2, <1>4, <1>5 DEF CallbackHolds, Free
<1> QED BY <1>1, <1>4, <1>5, <1>6, <1>7, LoadsStay DEF IInv, ScopeFollowsUser, Scoped

LEMMA SecondFactorKeeps ==
  ASSUME IInv, SubmitOidcMfa \/ BackToLogin
  PROVE  IInv'
<1>1. CASE SubmitOidcMfa
  <2>1. /\ ui.route = "callback" /\ ui.oidc = "ready" /\ srv' = srv
        /\ ui' = [ui EXCEPT !.busy = TRUE, !.loading = TRUE]
        /\ Send("exchange", ui.typed)
    BY <1>1 DEF SubmitOidcMfa
  <2>2. /\ ui' \in UiType /\ ui'.route = "callback" /\ ui'.busy
        /\ ui'.oidc = "ready" /\ ui'.user = ui.user /\ ui'.scope = ui.scope /\ ui'.torn = ui.torn
    BY <2>1, StateParts DEF UiType
  <2>3. /\ NetGoesOn
        /\ \A p \in {"logout", "authorize", "login"} : net'[p].st = net[p].st
    <3>1. /\ net \in [Ops -> Tasks] /\ "exchange" \in Ops /\ ui.typed \in Maybe
          /\ {"logout", "authorize", "login"} \subseteq Ops \ {"exchange"}
      BY StateParts
    <3> QED BY <2>1, <3>1, SendFacts
  <2>4. TypeOK'
    <3>1. srv \in SrvType
      BY DEF TypeOK, IInv
    <3> QED BY <2>1, <2>2, <2>3, <3>1 DEF TypeOK, NetGoesOn
  <2>5. CallbackHolds'
    BY <2>1, <2>2, <2>3 DEF IInv, CallbackHolds, Free
  <2> QED BY <2>1, <2>2, <2>3, <2>4, <2>5, LoadsStay, StateParts
          DEF IInv, ScopeFollowsUser, Scoped
<1>2. CASE BackToLogin
  <2> DEFINE u == Mounted(ui, "login")
  <2>1. u \in UiType /\ u.user = ui.user /\ u.scope = ui.scope /\ u.torn = ui.torn /\ u.route = "login"
    BY StateParts, MountedFacts
  <2>2. ui' = Redirected(u) /\ srv' = srv /\ net' = net
    BY <1>2 DEF BackToLogin
  <2> HIDE DEF u
  <2>3. NetGoesOn
    BY <2>2, StateParts, PageFacts
  <2> QED BY <2>1, <2>2, <2>3, RedirectedFacts, StateParts, TabKeeps DEF Scoped
<1> QED BY <1>1, <1>2

(***************************************************************************)
(* A reload, a refresh, and the forced change of the password.             *)
(***************************************************************************)
LEMMA ReloadKeeps ==
  ASSUME IInv, Reload
  PROVE  IInv'
<1> DEFINE u == Loaded(ui.route, ui.oidc)
<1>1. /\ ui.route \in {"app", "login"} /\ ui' = u /\ srv' = srv /\ net' = Booting
  BY DEF Reload
<1>2. ui.route \in Routes /\ ui.oidc \in {"none", "started", "ready"}
  BY StateParts DEF UiType
<1>3. u \in UiType /\ u.user = None /\ u.route = ui.route
  BY <1>2, LoadedFacts
<1> HIDE DEF u
<1>4. NetGoesOn
  BY <1>1, StateParts, PageFacts
<1> QED BY <1>1, <1>3, <1>4, TabKeeps DEF Scoped

LEMMA AccountKeeps ==
  ASSUME IInv, \/ Refresh \/ PageRefresh \/ ChangePassword \/ DeliverPassword \/ FinishTour
               \/ \E mode \in {"server", "fallback"} : LoadAuthMode(mode)
  PROVE  IInv'
<1>1. srv' = srv
  BY DEF Refresh, PageRefresh, ChangePassword, DeliverPassword, FinishTour, LoadAuthMode
<1>2. /\ ui' \in UiType /\ ui'.user = ui.user /\ ui'.scope = ui.scope /\ ui'.torn = ui.torn
      /\ ui'.route = ui.route /\ ui'.view = ui.view /\ ui'.busy = ui.busy
      /\ ui'.oidc = ui.oidc
  <2>1. CASE ui' = ui
    BY <2>1, StateParts
  <2>2. ASSUME NEW mode \in {"server", "fallback"}, ui' = [ui EXCEPT !.mode = mode]
        PROVE  <1>2
    BY <2>2, StateParts DEF UiType
  <2>3. CASE ui' = [ui EXCEPT !.forced = "none"]
    BY <2>3, StateParts DEF UiType
  <2>4. CASE DeliverPassword
    <3> DEFINE forced == IF net["password"].res = "ok" /\ ui.forced = "form"
                         THEN "tour" ELSE ui.forced
    <3>1. ui' = [ui EXCEPT !.forced = forced]
      BY <2>4, StateParts DEF DeliverPassword, UiType
    <3>2. forced \in {"none", "form", "tour"}
      BY StateParts DEF UiType
    <3> HIDE DEF forced
    <3> QED BY <3>1, <3>2, StateParts DEF UiType
  <2>5. CASE \E mode \in {"server", "fallback"} : LoadAuthMode(mode)
    BY <2>2, <2>5 DEF LoadAuthMode
  <2> QED BY <2>1, <2>3, <2>4, <2>5 DEF Refresh, PageRefresh, ChangePassword, FinishTour
<1>3. \/ net' = net \/ Send("refresh", ui.token) \/ Send("pageRefresh", ui.token)
      \/ Send("password", ui.user) \/ Done("password")
  BY DEF Refresh, PageRefresh, ChangePassword, DeliverPassword, FinishTour, LoadAuthMode
<1>4. /\ NetGoesOn
      /\ \A p \in {"logout", "authorize", "login", "exchange"} :
           net'[p].st = net[p].st \/ net'[p].st = "idle"
  <2>6. /\ net \in [Ops -> Tasks] /\ ui.token \in Maybe /\ ui.user \in Maybe
        /\ {"refresh", "pageRefresh", "password"} \subseteq Ops
        /\ {"logout", "authorize", "login", "exchange"}
             \subseteq Ops \ {"refresh", "pageRefresh", "password"}
    BY StateParts
  <2>1. CASE net' = net
    BY <2>1, StateParts, PageFacts
  <2>2. CASE Send("refresh", ui.token)
    BY <2>2, <2>6, SendFacts
  <2>5. CASE Send("pageRefresh", ui.token)
    BY <2>5, <2>6, SendFacts
  <2>3. CASE Send("password", ui.user)
    BY <2>3, <2>6, SendFacts
  <2>4. CASE Done("password")
    BY <2>4, StateParts, RequestFacts
  <2> QED BY <1>3, <2>1, <2>2, <2>3, <2>4, <2>5
<1> QED BY <1>1, <1>2, <1>4, StateParts, TabKeeps DEF Scoped

LEMMA AnswerDelivered ==
  ASSUME IInv, NEW o \in Ops, DeliverAnswer(o)
  PROVE  IInv'
<1>1. CASE o \in {"boot", "oidcLoad"}
  BY <1>1, LoadKeeps DEF DeliverAnswer
<1>2. CASE o \in {"refresh", "pageRefresh", "loginRefresh"}
  BY <1>2, RefreshKeeps DEF DeliverAnswer
<1>3. CASE o \in {"enrol", "verify"}
  BY <1>3, SetupAnswerKeeps DEF DeliverAnswer
<1>4. CASE o = "login"
  BY <1>4, LoginKeeps DEF DeliverAnswer
<1>5. CASE o = "logout"
  BY <1>5, LogoutKeeps DEF DeliverAnswer
<1>6. CASE o = "authorize"
  BY <1>6, LeaveKeeps DEF DeliverAnswer
<1>7. CASE o = "exchange"
  BY <1>7, ExchangeKeeps DEF DeliverAnswer
<1>8. CASE o = "password"
  BY <1>8, AccountKeeps DEF DeliverAnswer
<1> QED BY <1>1, <1>2, <1>3, <1>4, <1>5, <1>6, <1>7, <1>8 DEF Ops, Loads

LEMMA NextIInv == IInv /\ [Next]_vars => IInv'
<1> SUFFICES ASSUME IInv, [Next]_vars PROVE IInv'
  OBVIOUS
<1>1. CASE User
  BY <1>1, AccountKeeps, LogoutKeeps, SetupKeeps, LeaveKeeps, SecondFactorKeeps,
     ReloadKeeps, SubmitLoginKeeps, ReturnKeeps DEF User
<1>2. CASE Serve
  BY <1>2, AnswerKeeps, AnswerKeysKeeps DEF Serve
<1>3. CASE \E o \in Ops : DeliverAnswer(o)
  BY <1>3, AnswerDelivered
<1>4. CASE \E mode \in {"server", "fallback"} : LoadAuthMode(mode)
  BY <1>4, AccountKeeps
<1>5. CASE UNCHANGED vars
  BY <1>5 DEF IInv, TypeOK, ScopeFollowsUser, CallbackHolds, LoadsFit, HalvesFit, Fits,
             Free, vars
<1> QED BY <1>1, <1>2, <1>3, <1>4, <1>5 DEF Next

LEMMA IInvHolds == Spec => []IInv
  BY InitIInv, NextIInv, PTL DEF Spec

(***************************************************************************)
(* The variables of the tab keep their types.                              *)
(***************************************************************************)
THEOREM TypeCorrect == Spec => []TypeOK
<1>1. IInv => TypeOK
  BY DEF IInv
<1> QED BY IInvHolds, <1>1, PTL

(***************************************************************************)
(* Whoever is signed in, the queries of the tab carry the scope of that    *)
(* account, although /me gives the user and the listing of the keys the    *)
(* scope, each answered on its own and for the cookie of its moment: only  *)
(* a load between whose two answers somebody else signed in mixes them.    *)
(***************************************************************************)
THEOREM ScopeFollowsUserHolds == Spec => []ScopeFollowsUser
<1>1. IInv => ScopeFollowsUser
  BY DEF IInv
<1> QED BY IInvHolds, <1>1, PTL

(***************************************************************************)
(* While the callback page asks for the second factor, the transaction its *)
(* answer needs is still there: no request that would end it can be open.  *)
(***************************************************************************)
THEOREM MfaRetryPossibleHolds == Spec => []MfaRetryPossible
<1>1. IInv => MfaRetryPossible
  BY DEF IInv, CallbackHolds, MfaRetryPossible
<1> QED BY IInvHolds, <1>1, PTL

-----------------------------------------------------------------------------
(***************************************************************************)
(* The forced change of the password, with one account.  A user who has to *)
(* change it and is shown neither the form nor the tour has changed it,    *)
(* and the refresh that will tell so is open.                              *)
(***************************************************************************)
OneAccount == \A x, y \in Accounts : x = y
Changed == \A x \in Accounts : ~srv.needs[x]

(* A change is asked for by the user signed in; one that went well is kept.*)
PasswordOfUser ==
  ~Free("password") =>
    /\ net["password"].who \in Accounts
    /\ net["password"].st = "answered" /\ net["password"].res = "ok" =>
         ~srv.needs[net["password"].who]
TourAfterChange == ui.forced = "tour" => Changed
Unasked(u) == /\ u.user # None /\ u.needs /\ u.forced = "none"
              /\ ~(u.mode = "server" /\ OidcEnabled /\ ~PasswordEnabled)
RefreshTells == Unasked(ui) => /\ ~Free("refresh") /\ Changed
                               /\ net["refresh"].st = "answered" => ~net["refresh"].needs

ModalInv == IInv /\ PasswordOfUser /\ TourAfterChange /\ RefreshTells

(* Nobody goes unasked in u who is asked now, and no tour begins.          *)
Asks(u) == /\ Unasked(u) => Unasked(ui)
           /\ u.forced = "tour" => ui.forced = "tour"
Same(u, v) == /\ v.user = u.user /\ v.needs = u.needs
              /\ v.mode = u.mode /\ v.forced = u.forced

LEMMA SameAsks ==
  ASSUME NEW u, NEW v, Same(u, v), Asks(u)
  PROVE  Asks(v)
  BY DEF Same, Asks, Unasked

LEMMA UiAsks == Asks(ui)
  BY DEF Asks

LEMMA MountedSame ==
  ASSUME NEW u \in UiType, NEW route \in Routes
  PROVE  Same(u, Mounted(u, route))
  BY DEF Mounted, UiType, Same

LEMMA RedirectedSame ==
  ASSUME NEW u \in UiType
  PROVE  Same(u, Redirected(u))
<1>1. {"app", "login"} \subseteq Routes
  BY DEF Routes
<1>2. Same(u, u)
  BY DEF Same
<1> QED BY <1>1, <1>2, MountedSame DEF Redirected

LEMMA SetUserAsks ==
  ASSUME NEW u \in UiType, u.mode = ui.mode, Asks(u), NEW who \in Maybe,
         NEW needs \in BOOLEAN
  PROVE  /\ Asks(SetUser(u, who, needs)) /\ SetUser(u, who, needs).mode = u.mode
         /\ Unasked(SetUser(u, who, needs)) => who # None /\ needs
<1> DEFINE forced == Forced(u, who, needs)
           v == [u EXCEPT !.user = who, !.needs = needs, !.forced = forced]
<1>1. SetUser(u, who, needs) = v
  BY DEF SetUser
<1>2. \/ /\ (u.user # None) = (who # None) /\ u.needs = needs
         /\ forced = u.forced
      \/ forced = "form"
      \/ forced = "none" /\ ~(who # None /\ needs /\ ~OidcOnly)
  BY DEF Forced
<1> HIDE DEF forced
<1>3. v.user = who /\ v.needs = needs /\ v.forced = forced /\ v.mode = u.mode
  BY DEF UiType
<1> HIDE DEF v
<1> QED BY <1>1, <1>2, <1>3 DEF Asks, Unasked, OidcOnly

LEMMA SignedInAsks ==
  ASSUME NEW t \in Tasks, ui \in UiType
  PROVE  /\ Asks(SignedIn(ui, t))
         /\ Unasked(SignedIn(ui, t)) => t.needs
<1>1. t.who \in Maybe /\ t.needs \in BOOLEAN
  BY DEF Tasks
<1> DEFINE v == SetUser(ui, t.who, t.needs)
<1>2. v \in UiType /\ Asks(v) /\ (Unasked(v) => t.needs)
  BY <1>1, SetUserAsks, SetUserFacts, UiAsks
<1>3. SignedIn(ui, t) =
        [v EXCEPT !.scope = IF t.keysOf # None THEN t.keysOf ELSE t.who,
                  !.torn = t.torn]
  BY DEF SignedIn
<1> HIDE DEF v
<1>4. Same(v, SignedIn(ui, t))
  BY <1>2, <1>3 DEF UiType, Same
<1> QED BY <1>2, <1>4, SameAsks DEF Same, Unasked

LEMMA SignedOutAsks ==
  ASSUME ui \in UiType
  PROVE  /\ Asks(SignedOut(ui)) /\ ~Unasked(SignedOut(ui))
         /\ Asks(ClearSession(ui)) /\ ~Unasked(ClearSession(ui))
<1> DEFINE v == SignedOut(ui)
<1> DEFINE w == SetUser(ui, None, FALSE)
<1>a. w \in UiType /\ Asks(w) /\ ~Unasked(w)
  BY SetUserAsks, SetUserFacts, UiAsks DEF Maybe
<1>b. v = [w EXCEPT !.torn = FALSE]
  BY DEF SignedOut
<1> HIDE DEF w
<1>c. Same(w, v) /\ v \in UiType
  BY <1>a, <1>b, SignedOutFacts DEF UiType, Same
<1>1. v \in UiType /\ Asks(v) /\ ~Unasked(v)
  <2> HIDE DEF v
  <2> QED BY <1>a, <1>c, SameAsks DEF Same, Unasked
<1>2. ClearSession(ui) = [v EXCEPT !.token = None, !.oidc = "none"]
  BY DEF ClearSession
<1> HIDE DEF v
<1>3. Same(v, ClearSession(ui))
  BY <1>1, <1>2 DEF UiType, Same
<1> QED BY <1>1, <1>3, SameAsks DEF Same, Unasked, v

LEMMA OthersStay ==
  ASSUME net \in [Ops -> Tasks], NEW o \in Ops
  PROVE  /\ \A who : Send(o, who) => \A p \in Ops \ {o} : net'[p] = net[p]
         /\ Done(o) => net'[o] = Idle /\ \A p \in Ops \ {o} : net'[p] = net[p]
         /\ \A q \in Ops : \A who : DoneAndSend(o, q, who) =>
              \A p \in Ops \ {o, q} : net'[p] = net[p]
  BY DEF Send, Done, DoneAndSend

(* A step that asks as before, and leaves the two requests alone.          *)
LEMMA AsksStep ==
  ASSUME ModalInv, Asks(ui'), srv' = srv,
         net'["password"] = net["password"] \/ net'["password"] = Idle,
         Unasked(ui') => net'["refresh"] = net["refresh"]
  PROVE  (PasswordOfUser /\ TourAfterChange /\ RefreshTells)'
<1>1. Idle.st = "idle"
  BY TaskFacts
<1>2. PasswordOfUser'
  BY <1>1 DEF ModalInv, PasswordOfUser, Free
<1>3. TourAfterChange'
  BY DEF ModalInv, TourAfterChange, Asks, Changed
<1>4. RefreshTells'
  BY DEF ModalInv, RefreshTells, Asks, Changed, Free
<1> QED BY <1>2, <1>3, <1>4

LEMMA LoadAsks ==
  ASSUME ModalInv, NEW o \in {"boot", "oidcLoad"}, DeliverLoad(o)
  PROVE  (PasswordOfUser /\ TourAfterChange /\ RefreshTells)'
<1> DEFINE t == net[o]
           v == IF t.res = "user" THEN SignedIn(ui, t) ELSE SignedOut(ui)
           u == [v EXCEPT !.loading = FALSE]
           w == IF o = "oidcLoad" /\ ui.route = "callback" THEN Mounted(u, "app") ELSE u
<1>1. o \in Ops /\ t \in Tasks /\ ui \in UiType
  BY StateParts DEF ModalInv
<1>2. v \in UiType /\ Asks(v)
  BY <1>1, SignedInFacts, SignedOutFacts, SignedInAsks, SignedOutAsks
<1>3. ui' = Redirected(w) /\ srv' = srv /\ Done(o)
  BY DEF DeliverLoad
<1> HIDE DEF v
<1>4. u \in UiType /\ Same(v, u)
  BY <1>2 DEF UiType, Same
<1> HIDE DEF u
<1>5. w \in UiType /\ Same(u, w)
  BY <1>4, StateParts, MountedFacts, MountedSame DEF Same, ModalInv
<1> HIDE DEF w
<1>6. Asks(ui')
  BY <1>2, <1>3, <1>4, <1>5, RedirectedSame, SameAsks
<1> QED BY <1>1, <1>3, <1>6, OthersStay, AsksStep, StateParts DEF ModalInv

LEMMA RefreshAsks ==
  ASSUME ModalInv, NEW o \in {"refresh", "pageRefresh", "loginRefresh"}, DeliverRefresh(o)
  PROVE  (PasswordOfUser /\ TourAfterChange /\ RefreshTells)'
<1> DEFINE t == net[o]
           u == CASE t.res = "user" -> SignedIn(ui, t)
                  [] t.res = "unauthorized" /\ ui.route = "callback" ->
                       [Forgets(o, ui) EXCEPT !.token = None]
                  [] t.res = "unauthorized" /\ ui.route # "callback" ->
                       Mounted(ClearSession(ui), "login")
                  [] OTHER -> Forgets(o, ui)
           step == [u EXCEPT !.setup = IF ui.step = "codes" THEN None ELSE @]
           after == IF o = "loginRefresh" THEN Mounted(step, "app") ELSE u
<1>1. o \in Ops /\ t \in Tasks /\ ui \in UiType
  BY StateParts DEF ModalInv
<1>2. ui' = Redirected(after) /\ srv' = srv /\ Done(o) /\ t.st = "answered"
  BY DEF DeliverRefresh, Ready, Answered
<1>a. \/ u = SignedIn(ui, t)
      \/ u = [Forgets(o, ui) EXCEPT !.token = None]
      \/ u = Mounted(ClearSession(ui), "login")
      \/ u = Forgets(o, ui)
  OBVIOUS
<1> HIDE DEF u, t
<1>3. u \in UiType /\ Asks(u) /\ (o = "refresh" /\ Unasked(u) => t.needs)
  <2>1. CASE u = SignedIn(ui, t)
    BY <1>1, <2>1, SignedInFacts, SignedInAsks
  <2>2. CASE u = [Forgets(o, ui) EXCEPT !.token = None]
    <3> DEFINE v == Forgets(o, ui)
    <3>1. v \in UiType /\ Asks(v) /\ (o = "refresh" => ~Unasked(v))
      BY <1>1, ForgetsFacts, SignedOutAsks, UiAsks DEF Forgets
    <3>2. u = [v EXCEPT !.token = None]
      BY <2>2
    <3> HIDE DEF v
    <3>3. u \in UiType /\ Same(v, u)
      BY <3>1, <3>2, StateParts DEF UiType, Same, ModalInv
    <3> QED BY <3>1, <3>3, SameAsks DEF Same, Unasked
  <2>3. CASE u = Mounted(ClearSession(ui), "login")
    <3>1. /\ ClearSession(ui) \in UiType /\ Asks(ClearSession(ui))
          /\ ~Unasked(ClearSession(ui)) /\ "login" \in Routes
      BY <1>1, ClearSessionFacts, SignedOutAsks DEF Routes
    <3>2. u \in UiType /\ Same(ClearSession(ui), u)
      BY <2>3, <3>1, MountedFacts, MountedSame
    <3> QED BY <3>1, <3>2, SameAsks DEF Same, Unasked
  <2>4. CASE u = Forgets(o, ui)
    BY <1>1, <2>4, ForgetsFacts, SignedOutAsks, UiAsks DEF Forgets
  <2> QED BY <1>a, <2>1, <2>2, <2>3, <2>4
<1>4. step \in UiType /\ Same(u, step)
  BY <1>3, StateParts DEF UiType, Same, ModalInv
<1> HIDE DEF step
<1>5. after \in UiType /\ Same(u, after)
  BY <1>3, <1>4, StateParts, MountedFacts, MountedSame DEF Same, ModalInv
<1> HIDE DEF after
<1>6. Same(u, ui') /\ Asks(ui')
  BY <1>2, <1>3, <1>5, RedirectedSame, SameAsks DEF Same
<1>7. Unasked(ui') => o # "refresh"
  BY <1>2, <1>3, <1>6 DEF Asks, Same, Unasked, ModalInv, RefreshTells, t
<1>8. {"refresh", "password"} \subseteq Ops
  BY DEF Ops, Loads
<1> QED BY <1>1, <1>2, <1>6, <1>7, <1>8, OthersStay, AsksStep, StateParts DEF ModalInv

(* Steps of the login page, the callback page and the way between them.    *)
LEMMA SameStep ==
  ASSUME ModalInv, Same(ui, ui'), srv' = srv,
         \/ net' = net
         \/ \E o \in Ops \ {"refresh", "password"} :
              \/ Done(o) \/ \E who \in Maybe : Send(o, who)
              \/ \E p \in Ops \ {"refresh", "password"}, who \in Maybe :
                   DoneAndSend(o, p, who)
  PROVE  (PasswordOfUser /\ TourAfterChange /\ RefreshTells)'
<1>1. net \in [Ops -> Tasks] /\ {"refresh", "password"} \subseteq Ops
  BY StateParts DEF ModalInv
<1>2. net'["refresh"] = net["refresh"] /\ net'["password"] = net["password"]
  BY <1>1, OthersStay
<1> QED BY <1>2, UiAsks, SameAsks, AsksStep

LEMMA LoginAsks ==
  ASSUME ModalInv, \/ Logout \/ BackFromMfa \/ StartMfaSetup \/ VerifyMfaSetup
                   \/ CancelMfaSetup \/ StartOidc \/ SubmitOidcMfa \/ BackToLogin
                   \/ \E who \in Accounts : SubmitLogin(who)
  PROVE  (PasswordOfUser /\ TourAfterChange /\ RefreshTells)'
<1>1. /\ ui \in UiType /\ ui.token \in Maybe /\ ui.typed \in Maybe /\ ui.setup \in Maybe
      /\ "login" \in Routes /\ None \in Maybe
      /\ {"logout", "enrol", "verify", "authorize", "exchange", "login"}
           \subseteq Ops \ {"refresh", "password"}
  BY StateParts DEF ModalInv
<1>2. CASE Logout \/ BackToLogin
  <2> DEFINE v == Mounted(ui, "login")
  <2>1. v \in UiType /\ Same(ui, v) /\ ui' = Redirected(v)
    BY <1>1, <1>2, MountedFacts, MountedSame DEF Logout, BackToLogin
  <2> HIDE DEF v
  <2>2. Same(ui, ui')
    BY <2>1, RedirectedSame DEF Same
  <2> QED BY <1>1, <1>2, <2>2, SameStep DEF Logout, BackToLogin
<1>3. CASE BackFromMfa \/ CancelMfaSetup
  <2>1. Same(ui, ui')
    BY <1>1, <1>3 DEF BackFromMfa, CancelMfaSetup, Same, UiType
  <2> QED BY <1>3, <2>1, SameStep DEF BackFromMfa, CancelMfaSetup
<1>4. CASE StartMfaSetup \/ VerifyMfaSetup \/ SubmitOidcMfa
  <2>1. Same(ui, ui') /\ srv' = srv
    BY <1>1, <1>4 DEF StartMfaSetup, VerifyMfaSetup, SubmitOidcMfa, Same, UiType
  <2>2. Send("enrol", Setter) \/ Send("verify", Setter) \/ Send("exchange", ui.typed)
    BY <1>4 DEF StartMfaSetup, VerifyMfaSetup, SubmitOidcMfa
  <2>3. Setter \in Maybe
    BY <1>1 DEF Setter
  <2> QED BY <1>1, <2>1, <2>2, <2>3, SameStep
<1>5. CASE StartOidc
  <2>1. Same(ui, ui')
    BY <1>1, <1>5 DEF StartOidc, Same, UiType
  <2> QED BY <1>1, <1>5, <2>1, SameStep DEF StartOidc
<1>6. ASSUME NEW who \in Accounts, SubmitLogin(who)
      PROVE  (PasswordOfUser /\ TourAfterChange /\ RefreshTells)'
  <2>1. Same(ui, ui') /\ who \in Maybe
    BY <1>1, <1>6 DEF SubmitLogin, Same, UiType, Maybe
  <2> QED BY <1>1, <1>6, <2>1, SameStep DEF SubmitLogin
<1> QED BY <1>2, <1>3, <1>4, <1>5, <1>6

LEMMA LoginAnswerAsks ==
  ASSUME ModalInv, DeliverLogin \/ DeliverExchange
                   \/ \E o \in {"enrol", "verify"} : DeliverSetup(o)
  PROVE  (PasswordOfUser /\ TourAfterChange /\ RefreshTells)'
<1>1. /\ ui \in UiType /\ net \in [Ops -> Tasks] /\ "login" \in Routes
      /\ {"enrol", "verify", "exchange", "login", "loginRefresh", "oidcLoad"}
           \subseteq Ops \ {"refresh", "password"}
  BY StateParts DEF ModalInv
<1>2. CASE DeliverLogin
  <2>1. net["login"].who \in Maybe
    BY <1>1 DEF Tasks
  <2>2. Same(ui, ui')
    <3> DEFINE t == net["login"]
               here == ui.route = "login" /\ ui.typed = t.who
               busy == IF here THEN FALSE ELSE ui.busy
               step == IF ~here \/ ui.step # "password" THEN ui.step
                       ELSE CASE t.res = "mfa" -> "mfa"
                              [] t.res = "setup" -> "enrol"
                              [] OTHER -> ui.step
               setup == IF t.res = "setup" /\ ui.step = "password"
                        THEN t.who ELSE ui.setup
    <3>1. \/ ui' = [ui EXCEPT !.token = t.who]
          \/ ui' = [ui EXCEPT !.busy = busy, !.step = step, !.setup = setup]
      BY <1>2, Zenon DEF DeliverLogin
    <3> HIDE DEF busy, step, setup
    <3> QED BY <1>1, <3>1 DEF Same, UiType
  <2>3. Done("login") \/ DoneAndSend("login", "loginRefresh", net["login"].who)
    BY <1>2 DEF DeliverLogin
  <2>4. srv' = srv
    BY <1>2 DEF DeliverLogin
  <2> QED BY <1>1, <2>1, <2>2, <2>3, <2>4, SameStep
<1>3. ASSUME NEW o \in {"enrol", "verify"}, DeliverSetup(o)
      PROVE  (PasswordOfUser /\ TourAfterChange /\ RefreshTells)'
  <2>1. Same(ui, ui')
    BY <1>1, <1>3 DEF DeliverSetup, Same, UiType
  <2> QED BY <1>1, <1>3, <2>1, SameStep DEF DeliverSetup
<1>4. CASE DeliverExchange
  <2> DEFINE t == net["exchange"]
             v == Mounted([ui EXCEPT !.loading = FALSE, !.setup = t.who], "login")
             w == [v EXCEPT !.step = "enrol", !.oidcFlow = TRUE]
  <2>1. t \in Tasks /\ t.who \in Maybe
    BY <1>1 DEF Tasks
  <2>2. /\ \/ ui' = [ui EXCEPT !.oidc = "none", !.token = t.who, !.typed = None]
           \/ ui' = Redirected(w)
           \/ ui' = Redirected(ExchangeFailed(ui, t))
        /\ Done("exchange") \/ DoneAndSend("exchange", "oidcLoad", t.who)
        /\ srv' = srv
    BY <1>4 DEF DeliverExchange
  <2>3. w \in UiType /\ Same(ui, w)
    <3> DEFINE u == [ui EXCEPT !.loading = FALSE, !.setup = t.who]
    <3>1. u \in UiType /\ Same(ui, u)
      BY <1>1, <2>1 DEF UiType, Same
    <3>2. v = Mounted(u, "login")
      OBVIOUS
    <3> HIDE DEF u
    <3>3. v \in UiType /\ Same(ui, v)
      BY <1>1, <3>1, <3>2, MountedFacts, MountedSame DEF Same
    <3> HIDE DEF v
    <3> QED BY <3>3 DEF UiType, Same
  <2>4. ExchangeFailed(ui, t) \in UiType /\ Same(ui, ExchangeFailed(ui, t))
    BY <1>1, <2>1, ExchangeFailedFacts DEF Same
  <2> HIDE DEF w
  <2>5. Same(ui, ui')
    <3>1. CASE ui' = [ui EXCEPT !.oidc = "none", !.token = t.who, !.typed = None]
      BY <1>1, <3>1 DEF UiType, Same
    <3>2. CASE ui' = Redirected(w)
      BY <2>3, <3>2, RedirectedSame DEF Same
    <3>3. CASE ui' = Redirected(ExchangeFailed(ui, t))
      BY <2>4, <3>3, RedirectedSame DEF Same
    <3> QED BY <2>2, <3>1, <3>2, <3>3
  <2> QED BY <1>1, <2>1, <2>2, <2>5, SameStep
<1> QED BY <1>2, <1>3, <1>4

(* The page loads anew, or the user is forgotten.                          *)
LEMMA FreshAsks ==
  ASSUME ModalInv, \/ DeliverLogout \/ DeliverAuthorize \/ Reload
                   \/ \E who \in Maybe : ReturnFromIdp(who)
  PROVE  (PasswordOfUser /\ TourAfterChange /\ RefreshTells)'
<1>1. /\ ui \in UiType /\ net \in [Ops -> Tasks] /\ ui.route \in Routes
      /\ {"callback", "idp"} \subseteq Routes
      /\ ui.oidc \in {"none", "started", "ready"}
      /\ {"logout", "authorize"} \subseteq Ops \ {"refresh", "password"}
      /\ {"refresh", "password"} \subseteq Ops
  BY StateParts DEF ModalInv, UiType
<1>2. \A route \in Routes, oidc \in {"none", "started", "ready"} :
        /\ Loaded(route, oidc) \in UiType
        /\ Asks(Loaded(route, oidc)) /\ ~Unasked(Loaded(route, oidc))
  BY LoadedFacts DEF Loaded, Asks, Unasked
<1>3. Booting["password"] = Idle
  BY DEF Booting, Ops
<1>4. CASE DeliverLogout
  <2>1. ClearSession(ui) \in UiType /\ Asks(ClearSession(ui))
    BY <1>1, ClearSessionFacts, SignedOutAsks
  <2>2. Asks(ui')
    BY <1>4, <2>1, RedirectedSame, SameAsks DEF DeliverLogout
  <2> QED BY <1>1, <1>4, <2>2, OthersStay, AsksStep DEF DeliverLogout
<1>5. CASE Reload
  BY <1>1, <1>2, <1>3, <1>5, AsksStep DEF Reload
<1>6. CASE DeliverAuthorize
  <2>1. CASE ui' = [Loaded("idp", "ready") EXCEPT !.loading = FALSE] /\ net' = [o \in Ops |-> Idle]
    <3> DEFINE v == Loaded("idp", "ready")
    <3>1. v \in UiType /\ Asks(v) /\ ~Unasked(v)
      BY <1>1, <1>2
    <3>2. ui' = [v EXCEPT !.loading = FALSE]
      BY <2>1
    <3> HIDE DEF v
    <3>3. Same(v, ui')
      BY <3>1, <3>2 DEF UiType, Same
    <3>4. Asks(ui') /\ ~Unasked(ui')
      BY <3>1, <3>3, SameAsks DEF Same, Unasked
    <3>5. net'["password"] = Idle /\ srv' = srv
      BY <1>1, <1>6, <2>1 DEF DeliverAuthorize
    <3> QED BY <3>4, <3>5, AsksStep
  <2>2. CASE ui' = [ui EXCEPT !.busy = FALSE] /\ Done("authorize")
    <3>1. Same(ui, ui') /\ srv' = srv
      BY <1>1, <1>6, <2>2 DEF DeliverAuthorize, UiType, Same
    <3> QED BY <1>1, <2>2, <3>1, SameStep
  <2> QED BY <1>6, <2>1, <2>2 DEF DeliverAuthorize
<1>7. ASSUME NEW who \in Maybe, ReturnFromIdp(who)
      PROVE  (PasswordOfUser /\ TourAfterChange /\ RefreshTells)'
  <2> DEFINE v == Loaded("callback", ui.oidc)
  <2>1. v \in UiType /\ Asks(v) /\ ~Unasked(v)
    BY <1>1, <1>2
  <2>2. /\ ui' = v \/ ui' = [v EXCEPT !.view = "error"]
        /\ net'["password"] = Idle /\ srv' = srv
    BY <1>1, <1>3, <1>7, TaskFacts DEF ReturnFromIdp
  <2> HIDE DEF v
  <2>3. Same(v, ui')
    BY <2>1, <2>2 DEF UiType, Same
  <2>4. Asks(ui') /\ ~Unasked(ui')
    BY <2>1, <2>3, SameAsks DEF Same, Unasked
  <2> QED BY <2>2, <2>4, AsksStep
<1> QED BY <1>4, <1>5, <1>6, <1>7

LEMMA ModalAsks ==
  ASSUME OneAccount, None \notin Accounts, ModalInv,
         \/ Refresh \/ PageRefresh \/ ChangePassword \/ DeliverPassword \/ FinishTour
         \/ \E mode \in {"server", "fallback"} : LoadAuthMode(mode)
  PROVE  (PasswordOfUser /\ TourAfterChange /\ RefreshTells)'
<1>1. /\ ui \in UiType /\ net \in [Ops -> Tasks] /\ ui.user \in Maybe
      /\ "refresh" \in Ops /\ "password" \in Ops
  BY StateParts DEF ModalInv
<1>2. PasswordOfUser /\ TourAfterChange /\ RefreshTells
  BY DEF ModalInv
<1>8. CASE PageRefresh
  <2>1. ui' = ui /\ srv' = srv
    BY <1>8 DEF PageRefresh
  <2>2. net'["password"] = net["password"] /\ net'["refresh"] = net["refresh"]
    BY <1>1, <1>8, OthersStay DEF PageRefresh, Ops, Loads
  <2> QED BY <2>1, <2>2, UiAsks, AsksStep
<1>3. CASE Refresh
  <2>1. ~Unasked(ui) /\ ui' = ui /\ srv' = srv
    BY <1>2, <1>3 DEF Refresh, Sendable, RefreshTells
  <2>2. net'["password"] = net["password"]
    BY <1>1, <1>3, OthersStay DEF Refresh
  <2> QED BY <2>1, <2>2, UiAsks, AsksStep
<1>4. CASE ChangePassword
  <2>1. ui' = ui /\ srv' = srv /\ ui.user \in Accounts
    BY <1>1, <1>4 DEF ChangePassword, Maybe
  <2>2. net'["refresh"] = net["refresh"]
    BY <1>1, <1>4, OthersStay DEF ChangePassword
  <2>3. net'["password"] = Sent("password", ui.user)
    BY <1>1, <1>4 DEF ChangePassword, Send
  <2>4. Sent("password", ui.user).who = ui.user /\ Sent("password", ui.user).st = "sent"
    BY DEF Sent, Idle, Loads
  <2> QED BY <1>2, <2>1, <2>2, <2>3, <2>4
          DEF PasswordOfUser, TourAfterChange, RefreshTells, Changed, Free
<1>5. CASE DeliverPassword
  <2> DEFINE forced == IF net["password"].res = "ok" /\ ui.forced = "form"
                       THEN "tour" ELSE ui.forced
  <2>1. ui' = [ui EXCEPT !.forced = forced]
    BY <1>1, <1>5 DEF DeliverPassword, UiType
  <2>2. /\ ui'.user = ui.user /\ ui'.needs = ui.needs /\ ui'.mode = ui.mode
        /\ ui'.forced = forced
    BY <1>1, <2>1 DEF UiType
  <2>3. srv' = srv /\ net'["refresh"] = net["refresh"] /\ net'["password"] = Idle
    BY <1>1, <1>5, OthersStay DEF DeliverPassword
  <2>4. net["password"].res = "ok" => Changed
    BY <1>2, <1>5 DEF DeliverPassword, Answered, PasswordOfUser, Free, Changed, OneAccount
  <2>5. PasswordOfUser'
    BY <2>3, TaskFacts DEF PasswordOfUser, Free
  <2>6. TourAfterChange'
    BY <1>2, <2>2, <2>3, <2>4 DEF TourAfterChange, Changed
  <2>7. RefreshTells'
    BY <1>2, <2>2, <2>3 DEF RefreshTells, Unasked, Changed, Free
  <2> QED BY <2>5, <2>6, <2>7
<1>6. CASE FinishTour
  <2>1. ui' = [ui EXCEPT !.forced = "none"] /\ srv' = srv /\ Changed
    BY <1>2, <1>6 DEF FinishTour, TourAfterChange
  <2>2. net'["refresh"] = Sent("refresh", ui.token) /\ net'["password"] = net["password"]
    BY <1>1, <1>6 DEF FinishTour, Send
  <2>3. ui'.forced = "none"
    BY <1>1, <2>1 DEF UiType
  <2>4. Sent("refresh", ui.token).st = "sent"
    BY DEF Sent, Idle, Loads
  <2> QED BY <1>2, <2>1, <2>2, <2>3, <2>4
          DEF PasswordOfUser, TourAfterChange, RefreshTells, Changed, Free
<1>7. ASSUME NEW mode \in {"server", "fallback"}, LoadAuthMode(mode)
      PROVE  (PasswordOfUser /\ TourAfterChange /\ RefreshTells)'
  <2>1. ui.mode = "loading" /\ ui' = [ui EXCEPT !.mode = mode] /\ srv' = srv /\ net' = net
    BY <1>7 DEF LoadAuthMode
  <2>2. ui'.user = ui.user /\ ui'.needs = ui.needs /\ ui'.forced = ui.forced
    BY <1>1, <2>1 DEF UiType
  <2>3. Asks(ui')
    BY <2>1, <2>2 DEF Asks, Unasked
  <2> QED BY <2>1, <2>3, AsksStep
<1> QED BY <1>3, <1>4, <1>5, <1>6, <1>7, <1>8

(* The service answers; it never asks for a change again.                  *)
LEMMA AnswerAsks ==
  ASSUME None \notin Accounts, ModalInv, NEW o \in Ops, NEW res \in Results, Answer(o, res)
  PROVE  (PasswordOfUser /\ TourAfterChange /\ RefreshTells)'
<1> DEFINE t == net[o]
           who == AnsweredFor(t, res)
           needs == res = "user" /\ srv.needs[who]
<1>1. /\ ui \in UiType /\ srv \in SrvType /\ net \in [Ops -> Tasks] /\ t \in Tasks
      /\ "refresh" \in Ops /\ "password" \in Ops
  BY DEF ModalInv, IInv, TypeOK, Ops, Loads
<1>2. PasswordOfUser /\ TourAfterChange /\ RefreshTells
  BY DEF ModalInv
<1>3. /\ ui' = ui /\ t.st = "sent"
      /\ res \in ResultsOf(o, t) \cup {"failed"}
  BY DEF Answer
<1>4. t.who \in Maybe /\ who \in Maybe
  BY <1>1 DEF Tasks, SrvType, Identity, AnsweredFor
<1>5. /\ \A x \in Accounts : srv'.needs[x] => srv.needs[x]
      /\ o = "password" /\ res = "ok" /\ t.who # None => ~srv'.needs[t.who]
  <2>1. srv' = CASE res = "token" -> [srv EXCEPT !.cookie = t.who]
              [] o = "logout" /\ res = "ok" -> [srv EXCEPT !.cookie = None]
              [] o = "verify" /\ res = "ok" /\ t.who # None ->
                   [srv EXCEPT !.mfa[t.who] = "on"]
              [] o = "password" /\ res = "ok" /\ t.who # None ->
                   [srv EXCEPT !.needs[t.who] = FALSE]
              [] OTHER -> srv
    BY DEF Answer
  <2>2. CASE o = "password" /\ res = "ok" /\ t.who # None
    <3>1. srv' = [srv EXCEPT !.needs[t.who] = FALSE] /\ t.who \in Accounts
      BY <1>4, <2>1, <2>2 DEF Maybe
    <3> QED BY <1>1, <3>1 DEF SrvType
  <2>3. CASE ~(o = "password" /\ res = "ok" /\ t.who # None)
    <3>1. \/ srv' = srv \/ srv' = [srv EXCEPT !.cookie = t.who]
          \/ srv' = [srv EXCEPT !.cookie = None]
          \/ srv' = [srv EXCEPT !.mfa[t.who] = "on"]
      BY <2>1, <2>3
    <3>2. srv'.needs = srv.needs
      BY <1>1, <3>1 DEF SrvType
    <3> QED BY <2>3, <3>2
  <2> QED BY <2>2, <2>3
<1>6. res = "user" /\ o = "refresh" => who \in Accounts
  BY <1>3, <1>4 DEF ResultsOf, Maybe, AnsweredFor, Loads
<1>7. Changed /\ o = "refresh" => ~needs
  BY <1>6 DEF Changed
<1>8. /\ net'[o].st = "answered" /\ net'[o].who = who /\ net'[o].res = res
      /\ net'[o].needs = needs
  BY <1>1, AnswerFacts DEF ModalInv, IInv
<1>9. o = "password" => t.who \in Accounts
  BY <1>2, <1>3 DEF PasswordOfUser, Free
<1>10. res = "ok" => who = t.who
  BY DEF AnsweredFor
<1>14. o = "password" => res # "user"
  BY <1>3 DEF ResultsOf, Loads
<1>15. \A p \in Ops \ {o} : /\ net'[p].st = net[p].st /\ net'[p].who = net[p].who
                            /\ net'[p].res = net[p].res
                            /\ net'[p].needs = net[p].needs
  BY <1>1, AnswerFacts DEF ModalInv, IInv
<1> HIDE DEF who, needs
<1>11. PasswordOfUser'
  <2>1. CASE o = "password"
    <3>1. who = t.who
      BY <1>14, <2>1 DEF who, AnsweredFor
    <3> QED BY <1>1, <1>3, <1>5, <1>8, <1>9, <2>1, <3>1 DEF PasswordOfUser, Free
  <2>2. CASE o # "password"
    BY <1>1, <1>2, <1>5, <1>15, <2>2 DEF PasswordOfUser, Free
  <2> QED BY <2>1, <2>2
<1>12. TourAfterChange'
  BY <1>2, <1>3, <1>5 DEF TourAfterChange, Changed
<1>13. RefreshTells'
  <2> SUFFICES ASSUME Unasked(ui') PROVE RefreshTells'
    BY DEF RefreshTells
  <2>1. /\ ~Free("refresh") /\ Changed
        /\ net["refresh"].st = "answered" => ~net["refresh"].needs
    BY <1>2, <1>3 DEF RefreshTells
  <2>2. Changed'
    BY <1>5, <2>1 DEF Changed
  <2> QED BY <1>1, <1>7, <1>8, <1>15, <2>1, <2>2 DEF RefreshTells, Free
<1> QED BY <1>11, <1>12, <1>13

(* The listing says nothing of a change. *)
LEMMA KeysAsk ==
  ASSUME ModalInv, NEW o \in Ops, NEW listed \in BOOLEAN, AnswerKeys(o, listed)
  PROVE  (PasswordOfUser /\ TourAfterChange /\ RefreshTells)'
<1>1. TypeOK /\ {"refresh", "password"} \subseteq Ops
  BY DEF ModalInv, IInv, Ops, Loads
<1>2. /\ ui' = ui /\ srv' = srv
      /\ \A p \in Ops : /\ net'[p].st = net[p].st /\ net'[p].who = net[p].who
                        /\ net'[p].res = net[p].res /\ net'[p].needs = net[p].needs
  BY <1>1, ListedFacts
<1> QED BY <1>1, <1>2 DEF ModalInv, PasswordOfUser, TourAfterChange, RefreshTells,
        Unasked, Changed, Free

LEMMA ModalAnswers ==
  ASSUME OneAccount, None \notin Accounts, ModalInv, NEW o \in Ops, DeliverAnswer(o)
  PROVE  (PasswordOfUser /\ TourAfterChange /\ RefreshTells)'
<1>1. CASE o \in {"boot", "oidcLoad"}
  BY <1>1, LoadAsks DEF DeliverAnswer
<1>2. CASE o \in {"refresh", "pageRefresh", "loginRefresh"}
  BY <1>2, RefreshAsks DEF DeliverAnswer
<1>3. CASE o \in {"enrol", "verify", "login", "exchange"}
  BY <1>3, LoginAnswerAsks DEF DeliverAnswer
<1>4. CASE o \in {"logout", "authorize"}
  BY <1>4, FreshAsks DEF DeliverAnswer
<1>5. CASE o = "password"
  BY <1>5, ModalAsks DEF DeliverAnswer
<1> QED BY <1>1, <1>2, <1>3, <1>4, <1>5 DEF Ops, Loads

LEMMA InitModal == Init => ModalInv
<1> SUFFICES ASSUME Init PROVE ModalInv
  OBVIOUS
<1>1. ui = Loaded("app", "none") /\ net = Booting
  BY DEF Init
<1>2. ui.user = None /\ ui.forced = "none"
  BY <1>1 DEF Loaded
<1>3. net["password"].st = "idle"
  BY <1>1 DEF Booting, Ops, Loads, Idle
<1> QED BY <1>2, <1>3, InitIInv
        DEF ModalInv, PasswordOfUser, TourAfterChange, RefreshTells, Unasked, Free

LEMMA NextModal ==
  OneAccount /\ None \notin Accounts /\ ModalInv /\ [Next]_vars => ModalInv'
<1> SUFFICES ASSUME OneAccount, None \notin Accounts, ModalInv, [Next]_vars
             PROVE  (PasswordOfUser /\ TourAfterChange /\ RefreshTells)'
  BY NextIInv DEF ModalInv
<1>1. CASE User
  BY <1>1, LoginAsks, FreshAsks, ModalAsks DEF User
<1>2. CASE Serve
  BY <1>2, AnswerAsks, KeysAsk DEF Serve
<1>3. CASE \E o \in Ops : DeliverAnswer(o)
  BY <1>3, ModalAnswers
<1>4. CASE \E mode \in {"server", "fallback"} : LoadAuthMode(mode)
  BY <1>4, ModalAsks
<1>5. CASE UNCHANGED vars
  BY <1>5 DEF vars, ModalInv, PasswordOfUser, TourAfterChange, RefreshTells, Unasked, Changed, Free
<1> QED BY <1>1, <1>2, <1>3, <1>4, <1>5 DEF Next

LEMMA ModalTells == ModalInv => NoWorkBeforePasswordChange
  BY DEF ModalInv, RefreshTells, Unasked, NoWorkBeforePasswordChange, OidcOnly

(***************************************************************************)
(* One account in a browser: whoever must change the password meets the    *)
(* form or the tour, or the refresh that tells that it was changed is      *)
(* under way.                                                              *)
(***************************************************************************)
THEOREM NoWorkBeforePasswordChangeHolds ==
  ASSUME OneAccount, ConstantsFit PROVE Spec => []NoWorkBeforePasswordChange
<1>1. None \notin Accounts
  BY DEF ConstantsFit
<1>2. ModalInv /\ [Next]_vars => ModalInv'
  BY <1>1, NextModal
<1> QED BY <1>2, InitModal, ModalTells, PTL DEF Spec

=============================================================================
