--------------------------- MODULE UiIntegrations ---------------------------
(***************************************************************************)
(* Notification channels and Jira integrations: pages/IntegrationsPage.jsx *)
(* with components/alertmanager/ChannelEditor.jsx.  The loads, which carry *)
(* no number here, the editors, and the confirmation of a deletion with    *)
(* the timer that closes it.                                               *)
(***************************************************************************)
EXTENDS UiPage, UiOrder

CONSTANTS Channels, Jiras,   \* what may be configured
          Mine, Visibility,  \* those the user created, and the tab of each
          Groups

Items == Channels \cup Jiras
Tabs == {"private", "tenant", "group"}
(* What the module takes for granted of its constants. *)
ConstantsFit == /\ Channels \cap Jiras = {}
                /\ IsFiniteSet(Items)
                /\ Mine \subseteq Items
                /\ Visibility \in [Items -> Tabs]

Editors == {"none", "channel", "jira"}
(* Neither item nor nothing: a new one is edited, no timer runs. *)
NoForm == [filled |-> FALSE, type |-> "webhook", groups |-> {}]

UiType == [tab : Tabs, showHidden : BOOLEAN, shown : SUBSET Items,
           marked : SUBSET Items, order : Seq(Items), loading : BOOLEAN,
           editor : Editors, editing : Items \cup {None},
           form : [filled : BOOLEAN, type : {"webhook", "email"},
                   groups : SUBSET Groups],
           tested : BOOLEAN, asked : Items \cup {None}, deleting : BOOLEAN,
           closing : Items \cup {None}, suppressed : BOOLEAN,
           starts : 0..MaxStarts, failed : BOOLEAN]
SrvType == [there : SUBSET Items, hidden : SUBSET (Items \ Mine)]
TypeOK == ui \in UiType /\ srv \in SrvType

-----------------------------------------------------------------------------
Load(hidden) == [id |-> None, hidden |-> hidden]
Init == /\ \E t \in {"private", "tenant"} :
             ui = [tab |-> t, showHidden |-> FALSE, shown |-> {},
                   marked |-> {}, order |-> <<>>, loading |-> TRUE,
                   editor |-> "none", editing |-> None, form |-> NoForm,
                   tested |-> FALSE, asked |-> None, deleting |-> FALSE,
                   closing |-> None, suppressed |-> FALSE, starts |-> 0,
                   failed |-> FALSE]
        /\ srv \in [there : {Items, Items \ Mine}, hidden : {{}}]
        /\ net = [Quiet EXCEPT ![1] = Task("load", "load", Load(FALSE))]

-----------------------------------------------------------------------------
(* The service. *)
Listing(hidden) == srv.there \ (IF hidden THEN {} ELSE srv.hidden)
Written(t) ==
  CASE t.stage = "delete" -> [srv EXCEPT !.there = @ \ {t.arg.id}]
    [] t.stage = "hide" -> [srv EXCEPT !.hidden = @ \cup {t.arg.id}]
    [] t.stage = "unhide" -> [srv EXCEPT !.hidden = @ \ {t.arg.id}]
    [] t.stage = "save" -> [srv EXCEPT !.there = @ \cup {t.arg.id}]
    [] OTHER -> srv
ServeWrite(n) ==
  LET t == net[n] IN
  /\ Waiting(n) /\ t.stage # "load"
  /\ \/ srv' = Written(t) /\ \E st \in {"ok", "failed"} : Reply(n, st, None)
     \/ UNCHANGED srv /\ Reply(n, "failed", None)
  /\ UNCHANGED ui
(* Either listing of a load may fail, and counts as empty then.            *)
ServeLoad(n) ==
  LET listed == Listing(net[n].arg.hidden) IN
  /\ Waiting(n) /\ net[n].stage = "load"
  /\ \E lost \in {{}, Channels, Items} :
       Reply(n, IF lost = {} THEN "ok" ELSE "failed",
             [shown |-> listed \ lost, hidden |-> srv.hidden])
  /\ UNCHANGED <<ui, srv>>

-----------------------------------------------------------------------------
(* The page.  While a load is open a spinner takes the place of all of it, *)
(* and the dialogs, which are part of it, begin anew afterwards.           *)
Idle == ~ui.loading
OnPage == Idle /\ ui.editor = "none" /\ ui.asked = None /\ ~ui.tested
OwnToo(i) == Visibility[i] # "private"
CanToggleHidden(i) == i \notin Mine /\ Visibility[i] # "private"
ChannelButtons(i) ==
  {"drag"} \cup (IF CanToggleHidden(i) THEN {"hide"} ELSE {})
           \cup (IF i \in Mine THEN {"test", "edit", "delete"} ELSE {})
JiraButtons(i) ==
  {"drag"} \cup (IF CanToggleHidden(i) THEN {"hide"} ELSE {})
           \cup (IF i \in Mine THEN {"edit", "delete"} ELSE {})
Visible == {i \in ui.shown : Visibility[i] = ui.tab}
Card(i, button) ==
  /\ OnPage /\ i \in Visible
  /\ button \in IF i \in Channels THEN ChannelButtons(i) ELSE JiraButtons(i)

(* loadAll, with the hidden ones or not. *)
BeginLoad(u) == [u EXCEPT !.loading = TRUE, !.form = NoForm]
SetTab(t) == /\ OnPage /\ t # ui.tab
             /\ ui' = [ui EXCEPT !.tab = t]
             /\ UNCHANGED <<srv, net>>
ToggleShowHidden ==
  /\ OnPage
  /\ Start(BeginLoad([ui EXCEPT !.showHidden = ~@]), "load", "load",
           Load(~ui.showHidden))
(* Both kinds are reordered by one order here; a card is dropped on one of *)
(* its own kind.                                                           *)
Reorder(source, target) ==
  /\ Card(source, "drag") /\ Card(target, "drag") /\ source # target
  /\ source \in Channels <=> target \in Channels
  /\ ui' = [ui EXCEPT !.order = Moved(@, source, target)]
  /\ UNCHANGED <<srv, net>>

-----------------------------------------------------------------------------
(* The editors.  A new item takes the visibility of the tab. *)
Edit(u) == ui' = u /\ UNCHANGED <<srv, net>>
OpenCreate(kind) == /\ OnPage
                    /\ Edit([ui EXCEPT !.editor = kind, !.form = NoForm])
OpenEdit(i) ==
  /\ Card(i, "edit")
  /\ Edit([ui EXCEPT !.editor = IF i \in Channels THEN "channel" ELSE "jira",
                     !.editing = i, !.form = [NoForm EXCEPT !.filled = TRUE]])
Closed(u) == [u EXCEPT !.editor = "none", !.editing = None]
Cancel == Idle /\ ui.editor # "none" /\ Edit(Closed(ui))
(* Another type of channel starts with an empty configuration. *)
SetType(type) == /\ Idle /\ ui.editor = "channel" /\ type # ui.form.type
                 /\ Edit([ui EXCEPT !.form.type = type, !.form.filled = FALSE])
(* The required fields: of a channel its name and configuration, of Jira   *)
(* the name and the address.                                               *)
FillForm == /\ Idle /\ ui.editor = "channel" /\ ~ui.form.filled
            /\ Edit([ui EXCEPT !.form.filled = TRUE])
FillJiraForm == /\ Idle /\ ui.editor = "jira" /\ ~ui.form.filled
                /\ Edit([ui EXCEPT !.form.filled = TRUE])
ToggleGroup(g) ==
  /\ Idle /\ ui.editor = "channel" /\ ui.tab = "group"
  /\ Edit([ui EXCEPT !.form.groups = IF g \in @ THEN @ \ {g} ELSE @ \cup {g}])

Arg(i) == [id |-> i, hidden |-> ui.showHidden]
(* Nothing keeps "Save" from being pressed again while it is answered.     *)
New(i) == /\ i \notin srv.there /\ Visibility[i] = ui.tab /\ i \in Mine
          /\ i \in IF ui.editor = "channel" THEN Channels ELSE Jiras
SaveItem(i) == /\ Idle /\ ui.editor # "none" /\ ui.form.filled
               /\ IF ui.editing = None THEN New(i) ELSE i = ui.editing
               /\ Start(ui, "save", "save", Arg(i))
TestChannel(i) == Card(i, "test") /\ Start(ui, "test", "test", Arg(i))
CloseTest == Idle /\ ui.tested /\ Edit([ui EXCEPT !.tested = FALSE])
ToggleHidden(i) ==
  /\ Card(i, "hide")
  /\ Start(ui, "hide", IF i \in ui.marked THEN "unhide" ELSE "hide", Arg(i))

-----------------------------------------------------------------------------
(* The confirmation of a deletion.  Closing it leaves it open for 160 ms,  *)
(* and no other can be opened for a longer time (300, 900 or 2000 ms).     *)
RequestDelete(i) == /\ Card(i, "delete") /\ ~ui.deleting /\ ~ui.suppressed
                    /\ Edit([ui EXCEPT !.asked = i])
CloseSafely(u) == [u EXCEPT !.closing = u.asked, !.suppressed = TRUE]
CancelDelete == /\ Idle /\ ui.asked # None /\ ~ui.deleting
                /\ Edit(CloseSafely(ui))
CanConfirm == Idle /\ ui.asked # None /\ ~ui.deleting
ConfirmDelete ==
  /\ CanConfirm
  /\ Start([ui EXCEPT !.deleting = TRUE, !.suppressed = TRUE],
           "delete", "delete", Arg(ui.asked))
TimerCloses == /\ ui.closing # None
               /\ Edit([ui EXCEPT !.asked = None, !.closing = None])
SuppressionEnds == /\ ui.suppressed /\ ui.closing = None
                   /\ Edit([ui EXCEPT !.suppressed = FALSE])

-----------------------------------------------------------------------------
(* The answers. *)
Noted(u, t) == [u EXCEPT !.failed = @ \/ t.st # "ok"]
(* What a handler does after its write: the editor closes before the load. *)
DeliverWrite(n) ==
  LET t == net[n] IN
  /\ Back(n) /\ t.stage # "load"
  /\ IF t.st = "ok" /\ t.stage # "test"
     THEN /\ ui' = BeginLoad(IF t.op = "save" THEN Closed(ui) ELSE ui)
          /\ Continue(n, "load", t.arg)
     ELSE /\ ui' = Noted(
               CASE t.op = "delete" -> [ui EXCEPT !.deleting = FALSE,
                                                  !.suppressed = TRUE]
                 [] t.op = "test" -> [ui EXCEPT !.tested = @ \/ t.st = "ok"]
                 [] OTHER -> ui, t)
          /\ Finish(n)
  /\ UNCHANGED srv
(* Every load that returns is shown; the effects put the order right and   *)
(* take away the confirmation of an item that is gone.                     *)
Listed(u, t) ==
  [u EXCEPT !.shown = t.ans.shown, !.marked = t.ans.hidden,
            !.order = NormalizedOrder(@, t.ans.shown), !.loading = FALSE,
            !.asked = IF @ \in t.ans.shown THEN @ ELSE None]
DeliverLoad(n) ==
  LET t == net[n]
      u == IF t.op = "delete"
           THEN [CloseSafely(ui) EXCEPT !.deleting = FALSE] ELSE ui IN
  /\ Back(n) /\ t.stage = "load"
  /\ ui' = Noted(Listed(u, t), t)
  /\ Finish(n) /\ UNCHANGED srv

-----------------------------------------------------------------------------
Clicks == \/ ToggleShowHidden \/ Cancel \/ FillForm \/ FillJiraForm \/ CloseTest
          \/ CancelDelete \/ ConfirmDelete
          \/ \E t \in Tabs : SetTab(t)
          \/ \E kind \in {"channel", "jira"} : OpenCreate(kind)
          \/ \E type \in {"webhook", "email"} : SetType(type)
          \/ \E g \in Groups : ToggleGroup(g)
          \/ \E i \in Items : \/ OpenEdit(i) \/ SaveItem(i) \/ TestChannel(i)
                              \/ ToggleHidden(i) \/ RequestDelete(i)
          \/ \E i \in Items, j \in Items : Reorder(i, j)
ServeSlot(n) == ServeWrite(n) \/ ServeLoad(n)
DeliverSlot(n) == DeliverWrite(n) \/ DeliverLoad(n)
Next == \/ Clicks \/ TimerCloses \/ SuppressionEnds
        \/ \E n \in Slots : ServeSlot(n) \/ DeliverSlot(n)

Fairness == \A n \in Slots : WF_vars(ServeSlot(n)) /\ WF_vars(DeliverSlot(n))
Spec == Init /\ [][Next]_vars /\ Fairness

-----------------------------------------------------------------------------
(* The timer that closes a confirmation never closes one the user opened   *)
(* for another item meanwhile.                                             *)
TimerClosesItsOwn == ui.closing # None => ui.asked \in {ui.closing, None}

(* The order of the cards has each listed item once. *)
OrderFitsItems == Fits(ui.order, ui.shown)

(* The spinner goes away, and the deletion is over. *)
Busy == ui.loading \/ ui.deleting
=============================================================================
