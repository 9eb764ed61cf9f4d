----------------------------- MODULE UiGrafana -----------------------------
(***************************************************************************)
(* Dashboards, datasources and folders: pages/GrafanaPage.jsx with the     *)
(* components of components/grafana.  The tabs and their filters, the      *)
(* loads, which carry no number here, the stored order of each list, the   *)
(* confirmations, and the editors of datasources and folders.  The editor  *)
(* of dashboards is UiDashboardEditor.                                     *)
(***************************************************************************)
EXTENDS UiPage, UiOrder

CONSTANTS Dashboards, Datasources, Folders,
          Owned,        \* those of them the user owns
          Default       \* the default datasource, or None

Items == Dashboards \cup Datasources \cup Folders
Tabs == {"dashboards", "datasources", "folders"}
Of(tab) == CASE tab = "dashboards" -> Dashboards
             [] tab = "datasources" -> Datasources
             [] tab = "folders" -> Folders
Kind(i) == CHOOSE tab \in Tabs : i \in Of(tab)
(* What the module takes for granted of its constants. *)
ConstantsFit == /\ Owned \subseteq Items
                /\ IsFiniteSet(Items)
                /\ \A s, t \in Tabs : s # t => Of(s) \cap Of(t) = {}

(* Team and folder are one field here: either narrows the lists to the     *)
(* user's own.  The search texts are one field for each tab.               *)
Filters == [narrow : BOOLEAN, hidden : BOOLEAN]
NoFilter == [narrow |-> FALSE, hidden |-> FALSE]
Dialogs == {"none", "datasource", "folder", "grafana"}
Asking == {"hide", "unhide", "delete"}

(* History: `rows', what the load that a tab shows has listed for it.      *)
UiType == [tab : Tabs, filters : Filters, query : [Tabs -> BOOLEAN],
           list : [Tabs -> Seq(Items)], rows : [Tabs -> SUBSET Items],
           loaded : SUBSET Tabs,
           loading : BOOLEAN, dialog : Dialogs, editing : Items \cup {None},
           filled : BOOLEAN, marked : SUBSET Items,
           asked : [op : Asking \cup {None}, id : Items \cup {None}],
           metrics : [open : Datasources \cup {None}, loading : BOOLEAN],
           keys : SUBSET Dashboards, starts : 0..MaxStarts]
SrvType == [there : SUBSET Items, hidden : SUBSET (Items \ Owned),
            stored : [Tabs -> Seq(Items)]]
TypeOK == ui \in UiType /\ srv \in SrvType

-----------------------------------------------------------------------------
(* The stored order of a list: srv.stored is the browser's local storage.  *)
(* It may fail, to be read as to be written: readPersistedOrder then has   *)
(* no order, and persistOrder leaves the one there is without a word.      *)
Read(readable) == [t \in Tabs |-> IF t \in readable THEN srv.stored[t] ELSE <<>>]

(* reconcileWithPersistedOrder: the result is shown, and stored when it is *)
(* not the order that was read.                                            *)
Reconciled(order, listed) == NormalizedOrder(order, listed)

-----------------------------------------------------------------------------
(* Loads: what a tab lists, and with which filters and text.               *)
Needs(tab) == IF tab = "dashboards" THEN Tabs ELSE {tab}
NoArg == [id |-> None, tab |-> "dashboards", filters |-> NoFilter, query |-> FALSE]
Load(tab, filters, query) ==
  [NoArg EXCEPT !.tab = tab, !.filters = filters, !.query = query]
(* The dashboards tab lists every datasource; folders take no search.      *)
Listing(arg, tab) ==
  LET all == srv.there \cap Of(tab)
      seen == IF arg.filters.hidden /\ ~(tab = "datasources" /\ arg.tab = "dashboards")
              THEN all ELSE all \ srv.hidden
      narrowed == /\ arg.filters.narrow \/ arg.query
                  /\ tab = arg.tab /\ tab # "folders"
  IN IF narrowed THEN seen \cap Owned ELSE seen

Fresh == [tab |-> "dashboards", filters |-> NoFilter,
          query |-> [t \in Tabs |-> FALSE], list |-> [t \in Tabs |-> <<>>],
          rows |-> [t \in Tabs |-> {}], loaded |-> {}, loading |-> TRUE,
          dialog |-> "none", editing |-> None, filled |-> FALSE, marked |-> {},
          asked |-> [op |-> None, id |-> None],
          metrics |-> [open |-> None, loading |-> FALSE], keys |-> {},
          starts |-> 0]
(* The order of an earlier visit is stored, or none.  Bound: nothing is    *)
(* hidden at first.                                                        *)
Init == /\ ui = Fresh
        /\ srv \in [there : {Items, Owned}, hidden : {{}},
                    stored : {[t \in Tabs |-> <<>>],
                              [t \in Tabs |-> Reverse(SetToSeq(Of(t)))]}]
        /\ net = [Quiet EXCEPT ![1] =
                    Task("load", "load", Load("dashboards", NoFilter, FALSE))]

-----------------------------------------------------------------------------
(* The services. *)
Written(t) ==
  CASE t.stage = "delete" -> [srv EXCEPT !.there = @ \ {t.arg.id},
                                         !.hidden = @ \ {t.arg.id}]
    [] t.stage = "hide" -> [srv EXCEPT !.hidden = @ \cup {t.arg.id}]
    [] t.stage = "unhide" -> [srv EXCEPT !.hidden = @ \ {t.arg.id}]
    [] t.stage = "save" -> [srv EXCEPT !.there = @ \cup {t.arg.id}]
    [] OTHER -> srv
ServeWrite(n) ==
  LET t == net[n] IN
  /\ Waiting(n) /\ t.stage # "load"
  /\ \/ srv' = Written(t) /\ \E st \in {"ok", "failed"} : Reply(n, st, None)
     \/ UNCHANGED srv /\ Reply(n, "failed", None)
  /\ UNCHANGED ui
(* Each listing of a load that fails counts as empty. *)
ServeLoad(n) ==
  /\ Waiting(n) /\ net[n].stage = "load"
  /\ \E lost \in SUBSET Needs(net[n].arg.tab) :
       Reply(n, "ok", [lists |-> [t \in Needs(net[n].arg.tab) |->
                                    IF t \in lost THEN {} ELSE Listing(net[n].arg, t)],
                       hidden |-> srv.hidden])
  /\ UNCHANGED <<ui, srv>>

(* Every load that returns is shown, whatever tab it was for; the names of *)
(* the keys the dashboards use are read anew.                              *)
Listed(u, ans, saved) ==
  LET got == DOMAIN ans.lists IN
  [u EXCEPT !.list = [t \in Tabs |-> IF t \in got
                        THEN Reconciled(saved[t], ans.lists[t]) ELSE @[t]],
            !.rows = [t \in Tabs |-> IF t \in got THEN ans.lists[t] ELSE @[t]],
            !.loaded = @ \cup got, !.marked = ans.hidden,
            !.loading = FALSE, !.keys = {}]
DeliverLoad(n) ==
  LET t == net[n]
      got == DOMAIN t.ans.lists IN
  /\ Back(n) /\ t.stage = "load"
  /\ \E readable, writable \in SUBSET got :
       LET saved == Read(readable) IN
       /\ ui' = Listed(ui, t.ans, saved)
       /\ srv' = [srv EXCEPT !.stored = [k \in Tabs |->
                    IF k \in writable /\ ui'.list[k] # saved[k]
                    THEN ui'.list[k] ELSE @[k]]]
  /\ Finish(n)
(* loadDashboardKeyNames: an effect, dropped when the lists change.        *)
KeyNamesRead == /\ ui.tab = "dashboards" /\ ui.keys # Range(ui.list["dashboards"])
                /\ ui' = [ui EXCEPT !.keys = Range(ui.list["dashboards"])]
                /\ UNCHANGED <<srv, net>>

-----------------------------------------------------------------------------
(* The page.  A spinner takes the place of the tab's content while a load  *)
(* is open, and the dialogs are shown over either.                         *)
Clear == /\ ui.dialog = "none" /\ ui.asked.op = None /\ ui.metrics.open = None
InTab(tab) == Clear /\ ui.tab = tab /\ ~ui.loading
Edit(u) == ui' = u /\ UNCHANGED <<srv, net>>
BeginLoad(u) == [u EXCEPT !.loading = TRUE]

DashboardButtons(d) == {"drag", "open", "delete"}
                         \cup (IF d \in Owned THEN {} ELSE {"hide"})
DatasourceButtons(p) == {"drag", "metrics", "edit"}
                          \cup (IF p \in Owned THEN {} ELSE {"hide"})
                          \cup (IF p = Default THEN {} ELSE {"delete"})
FolderButtons(f) == {"drag", "edit", "delete"}
                      \cup (IF f \in Owned THEN {} ELSE {"hide"})
Card(i, button) ==
  /\ InTab(Kind(i)) /\ Contains(ui.list[Kind(i)], i)
  /\ button \in CASE i \in Dashboards -> DashboardButtons(i)
                  [] i \in Datasources -> DatasourceButtons(i)
                  [] i \in Folders -> FolderButtons(i)

(* The new tab's load begins with the old tab's filters, which are reset   *)
(* by an effect of the same render.                                        *)
SetTab(tab) == /\ Clear /\ tab # ui.tab
               /\ Start(BeginLoad([ui EXCEPT !.tab = tab, !.filters = NoFilter,
                                             !.keys = {}]), "load", "load",
                        Load(tab, ui.filters, ui.query[tab]))
(* What is typed and ticked is applied by "Search" or "Apply" alone, which *)
(* the folders do not have; "Clear" forgets it and loads nothing.          *)
SetFilters(f) == /\ InTab(ui.tab) /\ f # ui.filters
                 /\ ui.tab = "folders" => f.narrow = ui.filters.narrow
                 /\ Edit([ui EXCEPT !.filters = f])
TypeQuery == /\ InTab(ui.tab) /\ ui.tab # "folders" /\ ~ui.query[ui.tab]
             /\ Edit([ui EXCEPT !.query[ui.tab] = TRUE])
ClearFilters == /\ InTab(ui.tab) /\ ui.filters # NoFilter
                /\ Edit([ui EXCEPT !.filters = NoFilter,
                           !.query[ui.tab] = IF ui.tab = "folders" THEN @ ELSE FALSE])
Search == /\ InTab(ui.tab) /\ ui.tab # "folders"
          /\ Start(BeginLoad(ui), "load", "load",
                   Load(ui.tab, ui.filters, ui.query[ui.tab]))
Reorder(source, target) ==
  LET next == Moved(ui.list[ui.tab], source, target) IN
  /\ Card(source, "drag") /\ Card(target, "drag") /\ source # target
  /\ ui' = [ui EXCEPT !.list[ui.tab] = next]
  /\ \/ srv' = [srv EXCEPT !.stored[ui.tab] = next]
     \/ UNCHANGED srv
  /\ UNCHANGED net

-----------------------------------------------------------------------------
(* The confirmations.  The dialog is one for all of them, and what it asks *)
(* last replaces what it asked before.                                     *)
Asked(u, op, i) == [u EXCEPT !.asked = [op |-> op, id |-> i]]
AskHide(i) ==
  Card(i, "hide") /\ Edit(Asked(ui, IF i \in ui.marked THEN "unhide" ELSE "hide", i))
AskDelete(i) ==
  /\ Card(i, "delete") /\ i \notin Datasources
  /\ Edit(Asked(ui, "delete", i))
(* Of a datasource the dashboards that use it are looked for first, and    *)
(* the question is asked when they are known, whatever is asked by then.   *)
FindLinked(p) ==
  /\ Card(p, "delete") /\ p \in Datasources
  /\ Start(ui, "links", "links", [NoArg EXCEPT !.id = p])
DeliverLinks(n) == /\ Back(n) /\ net[n].stage = "links"
                   /\ ui' = Asked(ui, "delete", net[n].arg.id)
                   /\ Finish(n) /\ UNCHANGED srv
Unasked(u) == Asked(u, None, None)
CancelConfirm == ui.asked.op # None /\ Edit(Unasked(ui))
(* Each write ends in the load of the tab and of the filters there are at  *)
(* its end; the tab is that of the render it began in.                     *)
Arg(i) == [NoArg EXCEPT !.id = i, !.tab = ui.tab]
(* The dialog is closed when the write has been answered, and takes more   *)
(* confirmations until then.                                               *)
Confirm == /\ ui.asked.op # None
           /\ Start(ui, "confirm", ui.asked.op, Arg(ui.asked.id))

-----------------------------------------------------------------------------
(* The editors of datasources and folders, and the way to Grafana.         *)
OpenEditor(kind, i) ==
  /\ IF i = None THEN InTab(IF kind = "folder" THEN "folders" ELSE "datasources")
     ELSE Card(i, "edit") /\ i \in (IF kind = "folder" THEN Folders ELSE Datasources)
  /\ Edit([ui EXCEPT !.dialog = kind, !.editing = i,
                     !.filled = i # None \/ kind = "datasource"])
(* A new datasource is filled in with its type's name and address; a key   *)
(* has to be chosen when the user has none.                                *)
FillForm == /\ ui.dialog \in {"datasource", "folder"}
            /\ Edit([ui EXCEPT !.filled = ~@])
Closed(u) == [u EXCEPT !.dialog = "none", !.editing = None, !.filled = FALSE]
CloseEditor == ui.dialog \in {"datasource", "folder"} /\ Edit(Closed(ui))
SaveEditor(i) ==
  /\ ui.dialog \in {"datasource", "folder"} /\ ui.filled
  /\ IF ui.editing = None
     THEN i \in (IF ui.dialog = "folder" THEN Folders ELSE Datasources) \cap Owned
          /\ i \notin srv.there
     ELSE i = ui.editing
  /\ Start(ui, "save", "save", Arg(i))
(* Grafana is opened by way of a session made first, or without it.        *)
OpenGrafana == Clear /\ Edit([ui EXCEPT !.dialog = "grafana"])
CloseGrafana == ui.dialog = "grafana" /\ Edit(Closed(ui))
ConfirmGrafana == /\ ui.dialog = "grafana"
                  /\ Start(ui, "launch", "launch", Arg(None))

(* The answer of a write: a message, or the load. *)
After(u, t) == CASE t.op = "confirm" -> Unasked(u)
                 [] t.op = "launch" -> IF u.dialog = "grafana" THEN Closed(u) ELSE u
                 [] t.op = "save" /\ t.st = "ok" -> Closed(u)
                 [] OTHER -> u
DeliverWrite(n) ==
  LET t == net[n] IN
  /\ Back(n) /\ t.stage \notin {"load", "links", "metrics"}
  /\ IF t.st = "ok" /\ t.op # "launch"
     THEN /\ ui' = BeginLoad(After(ui, t))
          /\ Continue(n, "load", Load(t.arg.tab, ui.filters, ui.query[ui.tab]))
     ELSE ui' = After(ui, t) /\ Finish(n)
  /\ UNCHANGED srv

(* The metrics of a datasource: the answer is shown in the dialog as it is *)
(* by then.                                                                *)
ViewMetrics(p) ==
  /\ Card(p, "metrics")
  /\ Start([ui EXCEPT !.metrics = [open |-> p, loading |-> TRUE]],
           "metrics", "metrics", Arg(p))
CloseMetrics == /\ ui.metrics.open # None
                /\ Edit([ui EXCEPT !.metrics = [open |-> None, loading |-> FALSE]])
DeliverMetrics(n) == /\ Back(n) /\ net[n].stage = "metrics"
                     /\ ui' = [ui EXCEPT !.metrics.loading = FALSE]
                     /\ Finish(n) /\ UNCHANGED srv

-----------------------------------------------------------------------------
Clicks == \/ TypeQuery \/ ClearFilters \/ Search \/ CancelConfirm \/ Confirm
          \/ FillForm \/ CloseEditor \/ OpenGrafana \/ CloseGrafana
          \/ ConfirmGrafana \/ CloseMetrics
          \/ \E tab \in Tabs : SetTab(tab)
          \/ \E f \in Filters : SetFilters(f)
          \/ \E i \in Items, j \in Items : Kind(i) = Kind(j) /\ Reorder(i, j)
          \/ \E i \in Items : AskHide(i) \/ AskDelete(i) \/ SaveEditor(i)
          \/ \E p \in Datasources : FindLinked(p) \/ ViewMetrics(p)
          \/ \E kind \in {"datasource", "folder"}, i \in Items \cup {None} :
               OpenEditor(kind, i)
ServeSlot(n) == ServeWrite(n) \/ ServeLoad(n)
DeliverSlot(n) == DeliverLoad(n) \/ DeliverWrite(n) \/ DeliverLinks(n)
                  \/ DeliverMetrics(n)
Next == Clicks \/ KeyNamesRead
        \/ \E n \in Slots : ServeSlot(n) \/ DeliverSlot(n)

Fairness == \A n \in Slots : WF_vars(ServeSlot(n)) /\ WF_vars(DeliverSlot(n))
Spec == Init /\ [][Next]_vars /\ Fairness

-----------------------------------------------------------------------------
(* Each list that was loaded has what its last load listed, each card      *)
(* once, whatever was dragged, loaded, deleted or filtered away, and       *)
(* however old the order is that the browser gives, if it gives one.       *)
OrderFitsCards == \A t \in ui.loaded : Fits(ui.list[t], ui.rows[t])

(* The spinners of the page and of the metrics go away.                    *)
Busy == ui.loading \/ ui.metrics.loading
=============================================================================
