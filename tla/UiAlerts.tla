----------------------------- MODULE UiAlerts -----------------------------
(***************************************************************************)
(* Alerts, rules and silences: pages/AlertManagerPage.jsx with             *)
(* hooks/useAlertManagerData.js.  The numbered loads and the filters they  *)
(* are made with, the order the user drags the rules into, and the         *)
(* handlers of the three tabs.  The rule editor is UiRuleForm.             *)
(***************************************************************************)
EXTENDS UiPage, UiOrder

CONSTANTS Rules, Silences,  \* what may be listed
          Mine              \* those of them the user created

Items == Rules \cup Silences
(* What the module takes for granted of its constants. *)
ConstantsFit == /\ Mine \subseteq Items
                /\ IsFiniteSet(Items)
                /\ Rules \cap Silences = {}

Tabs == {"alerts", "rules", "silences"}
Dialogs == {"none", "silence", "import", "confirm"}
(* What a load asks the service for. *)
Filters == [owner : {"all", "owned"}, severity : {"all", "critical"},
            hiddenRules : BOOLEAN, hiddenSilences : BOOLEAN]
NoFilter == [owner |-> "all", severity |-> "all", hiddenRules |-> FALSE,
             hiddenSilences |-> FALSE]

UiType == [tab : Tabs, filters : Filters, owner : {"all", "owned"},
           rules : SUBSET Rules, silences : SUBSET Silences,
           marked : SUBSET Items, of : Filters, order : Seq(Rules), loading : BOOLEAN,
           request : Nat, dialog : Dialogs, asked : {"none", "delete", "hide"},
           target : Items \cup {None}, importing : BOOLEAN, tested : BOOLEAN,
           starts : 0..MaxStarts, failed : BOOLEAN]
SrvType == [there : SUBSET Items, hidden : SUBSET (Items \ Mine)]
TypeOK == ui \in UiType /\ srv \in SrvType

-----------------------------------------------------------------------------
(* What the service lists with given filters. *)
OwnedAs(owner) == IF owner = "all" THEN Items ELSE Mine
RulesFor(f) == (srv.there \cap Rules \cap OwnedAs(f.owner))
                 \ (IF f.hiddenRules THEN {} ELSE srv.hidden)
SilencesFor(f) == (srv.there \cap Silences)
                    \ (IF f.hiddenSilences THEN {} ELSE srv.hidden)

Load(f, n) == [id |-> None, filters |-> f, request |-> n]

Fresh == [tab |-> "alerts", filters |-> NoFilter, owner |-> "all",
          rules |-> {}, silences |-> {}, marked |-> {}, of |-> NoFilter,
          order |-> <<>>, loading |-> TRUE, request |-> 1, dialog |-> "none",
          asked |-> "none", target |-> None, importing |-> FALSE,
          tested |-> FALSE, starts |-> 0, failed |-> FALSE]
Init == \E tab \in Tabs :
          /\ ui = [Fresh EXCEPT !.tab = tab]
          /\ srv \in [there : {Rules, Items}, hidden : {{}}]
          /\ net = [Quiet EXCEPT ![1] = Task("load", "load", Load(NoFilter, 1))]

-----------------------------------------------------------------------------
(* The service.  A write is executed and answered, executed and its answer *)
(* lost, or refused.  A dry run of an import and a test write nothing.     *)
Written(op, i) ==
  CASE op = "delete" -> [srv EXCEPT !.there = @ \ {i}, !.hidden = @ \ {i}]
    [] op = "hide" -> [srv EXCEPT !.hidden = @ \cup ({i} \ Mine)]
    [] op = "unhide" -> [srv EXCEPT !.hidden = @ \ {i}]
    [] op \in {"silence", "import"} -> [srv EXCEPT !.there = @ \cup {i}]
    [] OTHER -> srv
ServeWrite(n) ==
  LET t == net[n] IN
  /\ Waiting(n) /\ t.stage # "load"
  /\ \/ /\ srv' = Written(t.stage, t.arg.id)
        /\ \E st \in {"ok", "failed"} : Reply(n, st, None)
     \/ Reply(n, "failed", None) /\ UNCHANGED srv
  /\ UNCHANGED ui
(* The four listings of a load, of which that of the rules may fail alone. *)
ServeLoad(n) ==
  LET f == net[n].arg.filters IN
  /\ Waiting(n) /\ net[n].stage = "load"
  /\ \E st \in {"ok", "partly", "failed"} :
       Reply(n, st, [rules |-> RulesFor(f), silences |-> SilencesFor(f),
                     hidden |-> srv.hidden])
  /\ UNCHANGED <<ui, srv>>

-----------------------------------------------------------------------------
(* Loads.  loadData numbers each, and the effect's cleanup takes a number  *)
(* too; a load that is not the latest is ignored when it returns, and of   *)
(* the latest every listing that succeeded is shown.                       *)
BeginLoad(u) == [u EXCEPT !.request = @ + 1, !.loading = TRUE]
(* A filter changes: the callback is a new one and its effect loads.       *)
Reload(f) == /\ f # ui.filters
             /\ Start(BeginLoad([ui EXCEPT !.filters = f]), "load", "load",
                      Load(f, ui.request + 1))
(* The load has come: the effect on the rules puts the stored order right. *)
Listed(u, t) ==
  LET got == IF t.st = "ok" THEN t.ans.rules ELSE u.rules IN
  [u EXCEPT !.rules = got, !.order = NormalizedOrder(@, got),
            !.silences = IF t.st = "failed" THEN @ ELSE t.ans.silences,
            !.marked = CASE t.st = "ok" -> t.ans.hidden
                         [] t.st = "partly" ->
                              (@ \cap Rules) \cup (t.ans.hidden \cap Silences)
                         [] t.st = "failed" -> @,
            !.of = t.arg.filters, !.loading = FALSE]
Whichever(t) == TRUE
Latest(t) == t.arg.request = ui.request

-----------------------------------------------------------------------------
(* The page: a spinner takes the place of the tabs while a load is open,   *)
(* the dialogs are shown over either.                                      *)
OnTab(tab) == ui.tab = tab /\ ui.dialog = "none" /\ ~ui.tested
InTab(tab) == OnTab(tab) /\ ~ui.loading
(* filteredRules narrows what was loaded by the filters being edited. *)
FilteredRules == ui.rules \cap OwnedAs(ui.owner)
CanHide(i) == i \notin Mine
RuleButtons(r) == {"test", "delete", "drag"}
                    \cup (IF CanHide(r) THEN {"hide"} ELSE {})
SilenceButtons(s) == {"delete"} \cup (IF CanHide(s) THEN {"hide"} ELSE {})
Card(i, button) ==
  \/ InTab("rules") /\ i \in FilteredRules /\ button \in RuleButtons(i)
  \/ InTab("silences") /\ i \in ui.silences /\ button \in SilenceButtons(i)

SetTab(tab) == /\ ui.dialog = "none" /\ tab # ui.tab
               /\ ui' = [ui EXCEPT !.tab = tab]
               /\ UNCHANGED <<srv, net>>
ShowHiddenRules == InTab("rules") /\ Reload([ui.filters EXCEPT !.hiddenRules = ~@])
ShowHiddenSilences ==
  InTab("silences") /\ Reload([ui.filters EXCEPT !.hiddenSilences = ~@])
(* Label, severity and correlation id are one field here: Apply and Clear. *)
ApplyAlertFilters(severity) ==
  InTab("alerts") /\ Reload([ui.filters EXCEPT !.severity = severity])
(* Owner, status, severity, key and correlation id are one field here:     *)
(* either everything is asked for, or the user's own.                      *)
EditRulesFilter(owner) == /\ InTab("rules") /\ owner # ui.owner
                          /\ ui' = [ui EXCEPT !.owner = owner]
                          /\ UNCHANGED <<srv, net>>
ApplyRulesFilters ==
  InTab("rules") /\ Reload([ui.filters EXCEPT !.owner = ui.owner])
Reorder(source, target) ==
  /\ Card(source, "drag") /\ Card(target, "drag") /\ source # target
  /\ ui' = [ui EXCEPT !.order = Moved(@, source, target)]
  /\ UNCHANGED <<srv, net>>

-----------------------------------------------------------------------------
(* The dialogs. *)
Ask(op, i) == ui' = [ui EXCEPT !.dialog = "confirm", !.asked = op, !.target = i]
Closed(u) == [u EXCEPT !.dialog = "none", !.asked = "none", !.target = None]
AskDelete(i) == Card(i, "delete") /\ Ask("delete", i) /\ UNCHANGED <<srv, net>>
(* Hiding is confirmed first, and showing again is not. *)
AskHide(i) == /\ Card(i, "hide") /\ i \notin ui.marked
              /\ Ask("hide", i) /\ UNCHANGED <<srv, net>>
OpenSilenceForm == /\ InTab("silences")
                   /\ ui' = [ui EXCEPT !.dialog = "silence"]
                   /\ UNCHANGED <<srv, net>>
OpenImport == /\ InTab("rules")
              /\ ui' = [ui EXCEPT !.dialog = "import"]
              /\ UNCHANGED <<srv, net>>
(* ConfirmModal does not cancel while its confirmation waits. *)
Cancel == /\ ui.dialog # "none"
          /\ ui.dialog = "confirm" => ~Running("confirm")
          /\ ui' = Closed(ui) /\ UNCHANGED <<srv, net>>
CloseTest == /\ ui.tested
             /\ ui' = [ui EXCEPT !.tested = FALSE]
             /\ UNCHANGED <<srv, net>>

Now(i) == [Load(ui.filters, 0) EXCEPT !.id = i]
Confirm == /\ ui.dialog = "confirm" /\ ~Running("confirm")
           /\ Start(ui, "confirm", ui.asked, Now(ui.target))
Unhide(i) == /\ Card(i, "hide") /\ i \in ui.marked
             /\ Start(ui, "unhide", "unhide", Now(i))
TestRule(r) == Card(r, "test") /\ r \in Rules /\ Start(ui, "test", "test", Now(r))
(* The form closes at once, whatever becomes of the silence. *)
CreateSilence(s) == /\ ui.dialog = "silence" /\ s \in Silences \ srv.there
                    /\ Start(Closed(ui), "silence", "silence", Now(s))
ImportRules(r, dryRun) ==
  /\ ui.dialog = "import" /\ ~ui.importing
  /\ Start([ui EXCEPT !.importing = TRUE], "import",
           IF dryRun THEN "preview" ELSE "import", Now(r))

-----------------------------------------------------------------------------
(* The answers. *)
(* The end of a silence closes the form, were it open anew by then.        *)
Over(u, t) == CASE t.op = "confirm" -> Closed(u)
                [] t.op = "silence" -> IF u.dialog = "silence" THEN Closed(u) ELSE u
                [] t.op = "import" -> [u EXCEPT !.importing = FALSE]
                [] OTHER -> u
Noted(u, t) == [u EXCEPT !.failed = @ \/ t.st # "ok"]
(* The write has succeeded: the handler loads with the filters it began    *)
(* with.  It has failed: the confirmation closes, the message is a toast.  *)
DeliverWrite(n) ==
  LET t == net[n]
      failed == IF t.op = "silence" THEN ui ELSE Over(ui, t) IN
  /\ Back(n) /\ t.stage # "load"
  /\ IF t.st = "ok" /\ t.stage \notin {"test", "preview"}
     THEN /\ ui' = BeginLoad(ui)
          /\ Continue(n, "load", [t.arg EXCEPT !.request = ui'.request])
     ELSE /\ ui' = Noted([failed EXCEPT !.tested = @ \/ (t.op = "test" /\ t.st = "ok")], t)
          /\ Finish(n)
  /\ UNCHANGED srv
DeliverLoad(n) ==
  LET t == net[n] IN
  /\ Back(n) /\ t.stage = "load"
  /\ ui' = Noted(Over(IF Latest(t) THEN Listed(ui, t) ELSE ui, t), t)
  /\ Finish(n) /\ UNCHANGED srv

-----------------------------------------------------------------------------
Clicks == \/ ShowHiddenRules \/ ShowHiddenSilences \/ ApplyRulesFilters
          \/ OpenSilenceForm \/ OpenImport \/ Cancel \/ CloseTest \/ Confirm
          \/ \E tab \in Tabs : SetTab(tab)
          \/ \E severity \in {"all", "critical"} : ApplyAlertFilters(severity)
          \/ \E owner \in {"all", "owned"} : EditRulesFilter(owner)
          \/ \E r \in Rules, q \in Rules : Reorder(r, q)
          \/ \E i \in Items : \/ AskDelete(i) \/ AskHide(i) \/ Unhide(i)
                              \/ TestRule(i) \/ CreateSilence(i)
          \/ \E r \in Rules, dryRun \in BOOLEAN : ImportRules(r, dryRun)
ServeSlot(n) == ServeWrite(n) \/ ServeLoad(n)
DeliverSlot(n) == DeliverWrite(n) \/ DeliverLoad(n)
Next == Clicks \/ \E n \in Slots : ServeSlot(n) \/ DeliverSlot(n)

Fairness == \A n \in Slots : WF_vars(ServeSlot(n)) /\ WF_vars(DeliverSlot(n))
Spec == Init /\ [][Next]_vars /\ Fairness

-----------------------------------------------------------------------------
(* While no request has failed, lists on which nothing is under way show   *)
(* what the service lists with the filters of their load: a load overtaken *)
(* by a later one is not shown, and every write is followed by a load.     *)
SettledListIsCurrent ==
  Settled /\ ~ui.failed => /\ ui.rules = RulesFor(ui.of)
                           /\ ui.silences = SilencesFor(ui.of)

(* The order the cards are shown in has each listed rule once, whatever    *)
(* was dragged, listed, deleted or filtered away since it was stored.      *)
OrderFitsRules == Fits(ui.order, ui.rules)

(* The spinner goes away and the import's buttons come back.               *)
Busy == ui.loading \/ ui.importing
=============================================================================
