----------------------------- MODULE UiApiKeys -----------------------------
(***************************************************************************)
(* The API keys page (pages/ApiKeyPage.jsx) and the key switch and quick   *)
(* creation of the header (components/Header.jsx): which key the tab shows *)
(* as active, which one its queries are scoped to, and the ingest token it *)
(* shows.  The sharing dialog is UiKeyShares.                              *)
(***************************************************************************)
EXTENDS UiPage

CONSTANTS Own, Foreign,    \* keys the user may own, keys shared with the user
          First            \* the key the user has from the start

Keys == Own \cup Foreign
(* What the module takes for granted of its constants. *)
ConstantsFit == /\ First \in Own
                /\ None \notin Keys

Dialogs == {"none", "default", "add", "delete", "token", "signedOut"}

-----------------------------------------------------------------------------
(* What a listing of the keys tells. *)

Listings == [keys : SUBSET Keys, enabled : Keys, default : Own,
             hidden : SUBSET Foreign]
VisibleOf(v) == [v EXCEPT !.keys = @ \ v.hidden]
Listed(v, showHidden) == IF showHidden THEN v ELSE VisibleOf(v)

(* resolveActiveOrgId: the enabled key of the listing, or else its default.*)
ActiveKey(v) == IF v.enabled \in v.keys THEN v.enabled ELSE v.default

Now == [keys |-> srv.keys, enabled |-> srv.enabled, default |-> srv.default,
        hidden |-> srv.hidden]

UiType == [user : Listings, shown : Listings, scope : Keys,
           showHidden : BOOLEAN, chosen : Keys, loading : BOOLEAN,
           dialog : Dialogs, target : Keys \cup {None},
           token : [Own -> Nat \cup {None}],
           regenerating : BOOLEAN, switching : BOOLEAN,
           starts : 0..MaxStarts, failed : BOOLEAN]
SrvType == [keys : SUBSET Keys, gone : SUBSET Own, enabled : Keys,
            default : Own, hidden : SUBSET Foreign, token : [Own -> Nat]]
TypeOK == ui \in UiType /\ srv \in SrvType

(* The page mounts on the user the session holds and refreshes it. *)
Mounted(mine) ==
  LET v == [keys |-> mine \cup Foreign, enabled |-> First,
            default |-> First, hidden |-> {}] IN
  /\ ui = [user |-> v, shown |-> v, scope |-> First, showHidden |-> FALSE,
           chosen |-> First, loading |-> FALSE, dialog |-> "none",
           target |-> None, token |-> [k \in Own |-> None],
           regenerating |-> FALSE, switching |-> FALSE, starts |-> 0,
           failed |-> FALSE]
  /\ srv = [keys |-> v.keys, gone |-> {}, enabled |-> First,
            default |-> First, hidden |-> {},
            token |-> [k \in Own |-> 0]]
  /\ net = [Quiet EXCEPT ![1] = Task("refresh", "read",
                                     [key |-> None, hidden |-> FALSE])]
Init == \E mine \in SUBSET Own : First \in mine /\ Mounted(mine)

-----------------------------------------------------------------------------
(* The service. *)

(* A write of key k, where the service accepts it: the operations are      *)
(* those of ApiKeys.tla, seen from the page.                               *)
Accepted(op, k) ==
  CASE op = "create" -> k \in Own \ (srv.keys \cup srv.gone)
    [] op = "default" -> k \in srv.keys \cap Own
    [] op = "enable" -> k \in srv.keys
    [] op = "delete" -> k \in (srv.keys \cap Own) \ {srv.default}
    [] op = "hide" -> k \in Foreign
    [] op = "regenerate" -> k \in srv.keys \cap Own

Written(op, k) ==
  CASE op = "create" -> [srv EXCEPT !.keys = @ \cup {k}]
    [] op = "default" -> [srv EXCEPT !.default = k]
    [] op = "enable" -> [srv EXCEPT !.enabled = k]
    [] op = "delete" ->
         [srv EXCEPT !.keys = @ \ {k}, !.gone = @ \cup {k},
                   !.enabled = IF @ = k THEN srv.default ELSE @]
    [] op = "hide" -> [srv EXCEPT !.hidden = IF k \in @ THEN @ \ {k}
                                           ELSE @ \cup {k}]
    [] op = "regenerate" -> [srv EXCEPT !.token[k] = @ + 1]

(* A write is executed and answered, executed and its answer lost, or      *)
(* refused; the answer of a regeneration holds the new token.              *)
ServeWrite(i) ==
  LET t == net[i] IN
  /\ Waiting(i) /\ t.stage \in {"create", "default", "enable", "delete",
                                "hide", "regenerate"}
  /\ \/ /\ Accepted(t.stage, t.arg.key)
        /\ srv' = Written(t.stage, t.arg.key)
        /\ \/ Reply(i, "ok", IF t.stage = "regenerate"
                             THEN srv'.token[t.arg.key] ELSE None)
           \/ Reply(i, "failed", None)
     \/ /\ Reply(i, "failed", None)
        /\ UNCHANGED srv
  /\ UNCHANGED ui

(* The four reads of a refresh: the user and quotas, and the listings with *)
(* and without the hidden keys, either of which may fail alone.            *)
ServeRead(i) ==
  /\ Waiting(i) /\ net[i].stage = "read"
  /\ \E st \in {"ok", "partly", "failed"} :
       Reply(i, st, IF st = "failed" THEN None ELSE Now)
  /\ UNCHANGED <<ui, srv>>

-----------------------------------------------------------------------------
(* The page: its controls. *)

HeaderButtons == {"openDefault", "openAdd", "openToken", "showHidden"}
(* The row of a key: a shared key can be hidden, an own one shared, all    *)
(* but the default one deleted, and a click on an inactive row activates.  *)
RowButtons(k) ==
  (IF k # ui.shown.default THEN {"delete"} ELSE {})
    \cup (IF k \in Foreign THEN {"hide"} ELSE {})
    \cup (IF k # ui.shown.enabled THEN {"activate"} ELSE {})
OnPage == ui.dialog = "none"
InDialog(d) == ui.dialog = d
Row(k, button) == OnPage /\ k \in ui.shown.keys /\ button \in RowButtons(k)

Open(d, k) == ui' = [ui EXCEPT !.dialog = d, !.target = k]
Closed(u) == [u EXCEPT !.dialog = "none", !.target = None]

OpenDefault == /\ OnPage /\ "openDefault" \in HeaderButtons
               /\ Open("default", None) /\ UNCHANGED <<srv, net>>
OpenAdd == OnPage /\ Open("add", None) /\ UNCHANGED <<srv, net>>
AskDelete(k) == Row(k, "delete") /\ Open("delete", k) /\ UNCHANGED <<srv, net>>
(* "View Secret Token" opens on the enabled own key, the default one or    *)
(* any; another own key can be selected.                                   *)
OpenToken(k) == /\ OnPage /\ k \in ui.shown.keys \cap Own
                /\ Open("token", k) /\ UNCHANGED <<srv, net>>
Close == /\ ui.dialog \in {"default", "add", "delete", "token"}
         /\ InDialog("delete") => ~Running("delete")
         /\ ui' = Closed(ui) /\ UNCHANGED <<srv, net>>

Arg(k) == [key |-> k, hidden |-> ui.showHidden]
(* The two effects of the checkbox: the list of the user object is shown   *)
(* at once, and the page refreshes with the value just chosen.             *)
ToggleShowHidden ==
  /\ OnPage
  /\ Start([ui EXCEPT !.showHidden = ~@,
              !.shown = IF ui.showHidden THEN ui.user ELSE @],
           "refresh", "read", [key |-> None, hidden |-> ~ui.showHidden])

-----------------------------------------------------------------------------
(* The page: its handlers.  Each ends in refreshUser with the value the    *)
(* checkbox had when the handler began.                                    *)

ChooseDefault(k) == /\ InDialog("default") /\ k \in ui.shown.keys
                    /\ k # ui.chosen
                    /\ ui' = [ui EXCEPT !.chosen = k]
                    /\ UNCHANGED <<srv, net>>
(* Enter in the form calls the handler whatever the button shows. *)
SaveDefault == /\ InDialog("default")
               /\ Start([ui EXCEPT !.loading = TRUE], "default", "default",
                        Arg(ui.chosen))
(* The name and value typed decide which key is created; the quota is that *)
(* of Own.                                                                 *)
CreateKey(k) == /\ InDialog("add") /\ k \in Own \ ui.shown.keys
                /\ Start([ui EXCEPT !.loading = TRUE], "create", "create", Arg(k))
ActivateKey(k) == /\ Row(k, "activate")
                  /\ Start(ui, "activate", "enable", Arg(k))
(* ConfirmModal takes one confirmation, and no cancel, while it waits. *)
ConfirmDelete == /\ InDialog("delete") /\ ~Running("delete")
                 /\ Start(ui, "delete", "delete", Arg(ui.target))
ToggleHiddenKey(k) == /\ Row(k, "hide")
                      /\ Start(ui, "hide", "hide", Arg(k))
(* The button has both `loading' and `disabled': Button spreads its props  *)
(* after disabled={loading}, so that it can be pressed while it is loading.*)
Regenerate == /\ InDialog("token") /\ ui.target # ui.shown.default
              /\ Start([ui EXCEPT !.regenerating = TRUE], "regenerate",
                       "regenerate", Arg(ui.target))

(* The header: the dropdown is disabled while a switch runs, the quick     *)
(* creation while one runs; both refresh the session's user themselves.    *)
SwitchKey(k) == /\ OnPage /\ ~ui.switching
                /\ k \in ui.user.keys \ {ui.user.enabled}
                /\ Start([ui EXCEPT !.switching = TRUE], "switch", "enable", Arg(k))
QuickCreate(k) == /\ OnPage /\ ~Running("quick") /\ k \in Own \ ui.shown.keys
                  /\ Start(ui, "quick", "create", Arg(k))

-----------------------------------------------------------------------------
(* The answers. *)

(* updateUser with the merged user, then the page's effect on the user: it *)
(* resets the choice of the default dialog and, unless hidden keys are     *)
(* shown, the list.                                                        *)
WithUser(u, v) ==
  [u EXCEPT !.user = VisibleOf(v), !.scope = ActiveKey(VisibleOf(v)),
            !.chosen = v.default,
            !.shown = IF u.showHidden THEN @ ELSE VisibleOf(v)]
(* refreshUser of the page also sets the list it read for its checkbox. *)
Refreshed(u, t) ==
  LET display == IF t.st = "partly" THEN VisibleOf(t.ans)
                 ELSE Listed(t.ans, t.arg.hidden)
  IN WithUser([u EXCEPT !.shown = display], t.ans)

OfHeader(op) == op \in {"switch", "quick"}

WriteDone(u, t) ==
  CASE t.op = "regenerate" -> [u EXCEPT !.token[t.arg.key] = t.ans]
    [] t.op = "delete" /\ t.arg.key \in Own ->
         [u EXCEPT !.token[t.arg.key] = None]
    [] OTHER -> u
(* What `finally' and the lines after the refresh reset: the dialog of a   *)
(* form closes after a success, the confirmation always.                   *)
Over(u, t, ok) ==
  CASE t.op \in {"default", "create"} ->
         LET v == [u EXCEPT !.loading = FALSE]
             d == IF t.op = "create" THEN "add" ELSE "default"
         IN IF ok /\ u.dialog = d THEN Closed(v) ELSE v
    [] t.op = "delete" -> Closed(u)
    [] t.op = "regenerate" -> [u EXCEPT !.regenerating = FALSE]
    [] t.op = "switch" -> [u EXCEPT !.switching = FALSE]
    [] OTHER -> u

(* History: some handler was told that a request of its failed. *)
Noted(u, t) == [u EXCEPT !.failed = @ \/ t.st # "ok"]

(* The write is answered: the handler refreshes, or reports the error; the *)
(* switch of the header refreshes either way, and the quick creation first *)
(* enables the key it created.                                             *)
DeliverWrite(i) ==
  LET t == net[i] IN
  /\ Back(i) /\ t.stage # "read"
  /\ IF t.st = "ok" \/ t.op = "switch"
     THEN /\ ui' = Noted(IF t.st = "ok" THEN WriteDone(ui, t) ELSE ui, t)
          /\ Continue(i, IF t.op = "quick" /\ t.stage = "create"
                         THEN "enable" ELSE "read", t.arg)
     ELSE /\ ui' = Noted(Over(ui, t, FALSE), t)
          /\ Finish(i)
  /\ UNCHANGED srv

DeliverRead(i) ==
  LET t == net[i] IN
  /\ Back(i) /\ t.stage = "read"
  /\ ui' = Noted(
       CASE t.st = "failed" /\ OfHeader(t.op) ->
              [Over(ui, t, FALSE) EXCEPT !.dialog = "signedOut"]
         [] t.st = "failed" /\ ~OfHeader(t.op) -> Over(ui, t, FALSE)
         [] t.st # "failed" /\ OfHeader(t.op) ->
              Over(WithUser(ui, t.ans), t, TRUE)
         [] OTHER -> Over(Refreshed(ui, t), t, TRUE), t)
  /\ Finish(i) /\ UNCHANGED srv

-----------------------------------------------------------------------------
Clicks == \/ OpenDefault \/ OpenAdd \/ Close \/ ToggleShowHidden
          \/ SaveDefault \/ ConfirmDelete \/ Regenerate
          \/ \E k \in Keys :
               \/ AskDelete(k) \/ OpenToken(k) \/ ChooseDefault(k)
               \/ CreateKey(k) \/ ActivateKey(k) \/ ToggleHiddenKey(k)
               \/ SwitchKey(k) \/ QuickCreate(k)
ServeSlot(i) == ServeWrite(i) \/ ServeRead(i)
DeliverSlot(i) == DeliverWrite(i) \/ DeliverRead(i)
Next == Clicks \/ \E i \in Slots : ServeSlot(i) \/ DeliverSlot(i)

Fairness == \A i \in Slots : WF_vars(ServeSlot(i)) /\ WF_vars(DeliverSlot(i))
Spec == Init /\ [][Next]_vars /\ Fairness

-----------------------------------------------------------------------------
(* A form that shows that it is saving stops doing so.                     *)
Busy == ui.loading

(* While no request of the tab has failed, and none is open, the scope the *)
(* queries of this tab are sent with is the key the service keeps active.  *)
SettledScopeIsActive ==
  Settled /\ ~ui.failed => ui.scope = ActiveKey(VisibleOf(Now))
=============================================================================
