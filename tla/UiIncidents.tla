---------------------------- MODULE UiIncidents ----------------------------
(***************************************************************************)
(* The incident board: pages/IncidentBoardPage.jsx with                    *)
(* hooks/useIncidentsData.js.  The board's filters and loads, the columns  *)
(* and the cards, the drop of a card, the quick actions, and of the dialog *)
(* the saving and the notes.  Its other tabs are UiIncidentDialog.         *)
(***************************************************************************)
EXTENDS UiPage

CONSTANTS Incidents, Visibility,  \* what each incident is visible as
          MayUpdate               \* the user has update:incidents

Tabs == {"public", "private", "group"}
(* What the module takes for granted of its constants. *)
ConstantsFit == /\ Visibility \in [Incidents -> Tabs]
                /\ MayUpdate \in BOOLEAN

Rows == [status : {"open", "resolved"}, assigned : BOOLEAN, hide : BOOLEAN]
(* What the dialog's draft of an incident holds; None: a field it has not. *)
Drafts == [status : {"open", "resolved", None},
           assigned : BOOLEAN \cup {None}, hide : BOOLEAN \cup {None}]
Columns == {"unassigned", "assigned", "resolved"}

(* updateIncident's body: the fields it holds, None for one left out.      *)
Same == [status |-> None, assigned |-> None, hide |-> None]
Patched(r, p) == [f \in DOMAIN r |-> IF p[f] = None THEN r[f] ELSE p[f]]

(* `row' is the incident as the dialog was given it.  History: overtaken,  *)
(* the cards a note's answer has set to a row the service no longer has.   *)
UiType ==
  {u \in [tab : Tabs, showHidden : BOOLEAN,
          shown : [Incidents -> Rows \cup {None}], of : Tabs,
          loading : BOOLEAN, error : BOOLEAN, request : Nat,
          dropping : SUBSET Incidents,
          modal : Incidents \cup {None}, row : Rows \cup {None},
          draft : [Incidents -> Drafts], overtaken : SUBSET Incidents,
          starts : 0..MaxStarts, failed : BOOLEAN] :
     u.modal # None => u.row \in Rows}
SrvType == [row : [Incidents -> Rows], firing : [Incidents -> BOOLEAN]]
TypeOK == ui \in UiType /\ srv \in SrvType

-----------------------------------------------------------------------------
(* What the service lists for a visibility: resolved incidents that are    *)
(* hidden only when they are asked for.                                    *)
Listing(tab, hidden) ==
  [i \in Incidents |->
     LET r == srv.row[i] IN
     IF Visibility[i] = tab /\ (hidden \/ ~(r.status = "resolved" /\ r.hide))
     THEN r ELSE None]
(* Each listing of a load that fails counts as empty; with the hidden ones *)
(* asked for there are two, whose answers are merged by id.                *)
WithoutOpen(l) == [i \in Incidents |-> IF l[i] # None /\ l[i].status = "open"
                                       THEN None ELSE l[i]]
Nothing == [i \in Incidents |-> None]

Load(tab, hidden, n) == [id |-> None, tab |-> tab, hidden |-> hidden,
                         to |-> None, request |-> n]

NoDrafts == [i \in Incidents |-> Same]
Fresh(tab) ==
  [tab |-> tab, showHidden |-> FALSE, shown |-> Nothing, of |-> tab,
   loading |-> TRUE, error |-> FALSE, request |-> 1, dropping |-> {},
   modal |-> None, row |-> None, draft |-> NoDrafts, overtaken |-> {},
   starts |-> 0, failed |-> FALSE]

(* The page mounts on the visibility the browser remembered.  Bound: at    *)
(* the start every incident is open.                                       *)
Init == /\ ui \in {Fresh(tab) : tab \in {"public", "private"}}
        /\ srv \in [row : [Incidents -> {r \in Rows : r.status = "open" /\ ~r.hide}],
                    firing : [Incidents -> BOOLEAN]]
        /\ net = [Quiet EXCEPT ![1] =
                    Task("load", "load", Load(ui.tab, FALSE, 1))]

-----------------------------------------------------------------------------
(* The service. *)

AlertChanges(i) == /\ srv.firing[i]
                   /\ srv' = [srv EXCEPT !.firing[i] = FALSE]
                   /\ UNCHANGED <<ui, net>>

(* updateIncident refuses to resolve while the alert fires. *)
ServeUpdate(n) ==
  LET t == net[n] IN
  /\ Waiting(n) /\ t.stage = "update"
  /\ \/ /\ ~(t.arg.to.status = "resolved" /\ srv.firing[t.arg.id]
             /\ srv.row[t.arg.id].status = "open")
        /\ srv' = [srv EXCEPT !.row[t.arg.id] = Patched(@, t.arg.to)]
        /\ Reply(n, "ok", None)
     \/ Reply(n, "failed", None) /\ UNCHANGED srv
  /\ UNCHANGED ui
(* The row in the answer is the one the note was added to.                 *)
ServeNote(n) ==
  /\ Waiting(n) /\ net[n].stage = "note"
  /\ \/ Reply(n, "ok", srv.row[net[n].arg.id])
     \/ Reply(n, "failed", None)
  /\ UNCHANGED <<ui, srv>>
ServeCheck(n) ==
  /\ Waiting(n) /\ net[n].stage = "check"
  /\ \/ Reply(n, "ok", srv.firing[net[n].arg.id])
     \/ Reply(n, "failed", None)
  /\ UNCHANGED <<ui, srv>>
ServeLoad(n) ==
  LET l == Listing(net[n].arg.tab, net[n].arg.hidden) IN
  /\ Waiting(n) /\ net[n].stage = "load"
  /\ \/ Reply(n, "ok", l)
     \/ Reply(n, "failed", IF net[n].arg.hidden THEN WithoutOpen(l)
                                                ELSE Nothing)
  /\ UNCHANGED <<ui, srv>>

-----------------------------------------------------------------------------
(* The screen: a spinner while loading, the message alone after an error,  *)
(* the board otherwise, under the dialog when that is open.                *)

OnBoard == ~ui.loading /\ ~ui.error /\ ui.modal = None
InModal == ~ui.loading /\ ~ui.error /\ ui.modal # None

FilterButtons == {"public", "private", "group", "unhide"}
Column(r) == IF r.status = "resolved" THEN "resolved"
             ELSE IF r.assigned THEN "assigned" ELSE "unassigned"
HiddenCard(r) == r.status = "resolved" /\ r.hide
CardButtons(r) ==
  {"open"}
    \cup (IF MayUpdate /\ Column(r) = "unassigned" THEN {"assign"} ELSE {})
    \cup (IF MayUpdate /\ Column(r) = "assigned" THEN {"resolve"} ELSE {})
    \cup (IF HiddenCard(r) THEN {"unhide"} ELSE {})
    \cup (IF MayUpdate /\ r.status = "resolved" /\ ~r.hide
          THEN {"hide"} ELSE {})
    \cup (IF MayUpdate THEN {"drag"} ELSE {})
Card(i, button) == /\ OnBoard /\ ui.shown[i] # None
                   /\ button \in CardButtons(ui.shown[i])
(* The columns are drop targets; each shows the cards of its state, and    *)
(* the resolved one compacts the hidden ones below.                        *)
InColumn(c) == {i \in Incidents : ui.shown[i] # None /\ Column(ui.shown[i]) = c}

-----------------------------------------------------------------------------
(* Loads: loadData numbers them, and applies only the latest one begun.    *)

BeginLoad(u) == [u EXCEPT !.request = @ + 1, !.loading = TRUE, !.error = FALSE]
Filter(u) == Start(BeginLoad(u), "load", "load",
                   Load(u.tab, u.showHidden, u.request + 1))
SetTab(tab) == OnBoard /\ tab # ui.tab /\ Filter([ui EXCEPT !.tab = tab])
ToggleHidden == OnBoard /\ Filter([ui EXCEPT !.showHidden = ~@])

(* The end of a handler: `finally' takes the card out of the dropping ones.*)
StillDropping(u, t) == u
Released(u, t) == [u EXCEPT !.dropping = @ \ {t.arg.id}]
Noted(u, t) == [u EXCEPT !.failed = @ \/ t.st = "failed"]

DeliverLoad(n) ==
  LET t == net[n]
      u == IF t.arg.request = ui.request
           THEN [ui EXCEPT !.shown = t.ans, !.of = t.arg.tab,
                           !.loading = FALSE, !.overtaken = {}]
           ELSE ui IN
  /\ Back(n) /\ t.stage = "load"
  /\ ui' = Noted(Released(u, t), t)
  /\ Finish(n) /\ UNCHANGED srv

-----------------------------------------------------------------------------
(* The handlers of the board.  Each keeps the filters of the render it     *)
(* began in for the refresh at its end.                                    *)

Change(i, to) == [id |-> i, tab |-> ui.tab, hidden |-> ui.showHidden,
                  to |-> to, request |-> 0]
Resolving(to) == IF to.status = "resolved" THEN "check" ELSE "update"
Opened(i, r) == [ui EXCEPT !.modal = i, !.row = r, !.draft[i] = r]
Closed(u) == [u EXCEPT !.modal = None, !.row = None]

(* A card is dropped on a column: To Do clears the assignee, Assigned asks *)
(* for one when there is none, Resolved first asks whether the alert fires.*)
Drop(i, column) ==
  /\ Card(i, "drag")
  /\ LET r == ui.shown[i]
         to == CASE column = "unassigned" ->
                      [Same EXCEPT !.assigned = FALSE, !.status = "open"]
                 [] column = "assigned" -> [Same EXCEPT !.status = "open"]
                 [] column = "resolved" -> [Same EXCEPT !.status = "resolved"]
     IN IF column = "assigned" /\ ~r.assigned
        THEN /\ ui' = Opened(i, r)
             /\ UNCHANGED <<srv, net>>
        ELSE Start([ui EXCEPT !.dropping = @ \cup {i}], "drop",
                   Resolving(to), Change(i, to))
QuickResolve(i) ==
  /\ Card(i, "resolve")
  /\ Start([ui EXCEPT !.dropping = @ \cup {i}], "drop", "check",
           Change(i, [Same EXCEPT !.status = "resolved"]))
HideIncident(i) ==
  /\ Card(i, IF ui.shown[i] # None /\ ui.shown[i].hide THEN "unhide" ELSE "hide")
  /\ Start([ui EXCEPT !.dropping = @ \cup {i}], "hide", "update",
           Change(i, [Same EXCEPT !.hide = ~ui.shown[i].hide]))

(* The dialog opens on a draft of what the card shows. *)
OpenModal(i) == /\ Card(i, "open")
                /\ ui' = Opened(i, ui.shown[i])
                /\ UNCHANGED <<srv, net>>
CloseModal == /\ InModal
              /\ ui' = Closed(ui)
              /\ UNCHANGED <<srv, net>>
Edits == {[Same EXCEPT !.status = "open"]}
           \cup {[Same EXCEPT !.assigned = b] : b \in BOOLEAN}
           \cup {[Same EXCEPT !.hide = b] : b \in BOOLEAN}
EditDraft(p) == /\ InModal
                /\ ui' = [ui EXCEPT !.draft[ui.modal] = Patched(@, p)]
                /\ UNCHANGED <<srv, net>>
(* "Resolved" in the dialog asks first whether the alert fires. *)
ChooseResolved == /\ InModal /\ ui.draft[ui.modal].status # "resolved"
                  /\ Start(ui, "choose", "check", Change(ui.modal, Same))
(* What the draft has not is the incident's, but for the assignee, which   *)
(* is then left out.                                                       *)
Payload == [Patched(ui.row, ui.draft[ui.modal])
            EXCEPT !.assigned = ui.draft[ui.modal].assigned]
SaveIncident == /\ InModal /\ MayUpdate
                /\ Start(ui, "save", Resolving(Payload),
                         Change(ui.modal, Payload))
AddNote == /\ InModal /\ MayUpdate
           /\ Start(ui, "note", "note", Change(ui.modal, Same))

-----------------------------------------------------------------------------
(* Their answers. *)

(* ensureCanResolveIncident: an alert that fires stops the handler with    *)
(* the message; a check that fails lets it go on.                          *)
DeliverCheck(n) ==
  LET t == net[n]
      blocked == t.st = "ok" /\ t.ans IN
  /\ Back(n) /\ t.stage = "check"
  /\ IF blocked
     THEN /\ ui' = [Released(ui, t) EXCEPT !.error = TRUE]
          /\ Finish(n)
     ELSE IF t.op = "choose"
     THEN /\ ui' = [ui EXCEPT !.draft[t.arg.id].status = "resolved"]
          /\ Finish(n)
     ELSE /\ UNCHANGED ui
          /\ Continue(n, "update", t.arg)
  /\ UNCHANGED srv

(* An update that failed leaves its message in place of the page; one that *)
(* succeeded closes the dialog, which forgets the draft of the incident it *)
(* saved, and loads the board with the filters its handler began with.     *)
DeliverUpdate(n) ==
  LET t == net[n]
      u == IF t.op = "save" THEN [Closed(ui) EXCEPT !.draft[t.arg.id] = Same]
           ELSE ui IN
  /\ Back(n) /\ t.stage = "update"
  /\ IF t.st = "failed"
     THEN /\ ui' = Noted([Released(ui, t) EXCEPT !.error = TRUE], t)
          /\ Finish(n)
     ELSE /\ ui' = BeginLoad(IF t.op = "drop" THEN Released(u, t) ELSE u)
          /\ Continue(n, "load", [t.arg EXCEPT !.request = ui'.request])
  /\ UNCHANGED srv

(* A note that was added opens the dialog on the row it answers with and,  *)
(* with no number to tell how old that is, puts it in the place of the     *)
(* card's, while there is one.  A failure is told, and changes nothing.    *)
WithRow(u, i, r) ==
  IF u.shown[i] = None THEN u
  ELSE [u EXCEPT !.shown[i] = r,
                 !.overtaken = IF r = srv.row[i] THEN @ \ {i} ELSE @ \cup {i}]
DeliverNote(n) ==
  LET t == net[n] IN
  /\ Back(n) /\ t.stage = "note"
  /\ ui' = IF t.st = "ok"
           THEN [WithRow(ui, t.arg.id, t.ans) EXCEPT !.modal = t.arg.id,
                                                     !.row = t.ans]
           ELSE ui
  /\ Finish(n) /\ UNCHANGED srv

-----------------------------------------------------------------------------
Clicks == \/ ToggleHidden \/ CloseModal \/ ChooseResolved \/ SaveIncident \/ AddNote
          \/ \E tab \in Tabs : SetTab(tab)
          \/ \E p \in Edits : EditDraft(p)
          \/ \E i \in Incidents :
               \/ QuickResolve(i) \/ HideIncident(i) \/ OpenModal(i)
               \/ \E c \in Columns : Drop(i, c)
ServeSlot(n) == \/ ServeUpdate(n) \/ ServeNote(n)
                \/ ServeCheck(n) \/ ServeLoad(n)
DeliverSlot(n) == \/ DeliverLoad(n) \/ DeliverCheck(n)
                  \/ DeliverUpdate(n) \/ DeliverNote(n)
Next == \/ Clicks
        \/ \E n \in Slots : ServeSlot(n) \/ DeliverSlot(n)
        \/ \E i \in Incidents : AlertChanges(i)

Fairness == \A n \in Slots : WF_vars(ServeSlot(n)) /\ WF_vars(DeliverSlot(n))
Spec == Init /\ [][Next]_vars /\ Fairness

-----------------------------------------------------------------------------
(* While no request has failed, a board on which nothing is under way      *)
(* shows what the service would list for the visibility the board was      *)
(* loaded with: no older load overwrites a newer one.  The only older row  *)
(* a card can have is one that a note was added to, and that was changed   *)
(* before the note's answer came.                                          *)
SettledBoardIsCurrent ==
  Settled /\ ~ui.failed /\ ~ui.error =>
    \A i \in Incidents :
      ui.shown[i] # None =>
        /\ ui.shown[i] = srv.row[i] \/ i \in ui.overtaken
        /\ Visibility[i] = ui.of

(* The spinner goes away, and no card stays marked as being updated.       *)
Busy == ui.loading \/ ui.dropping # {}
=============================================================================
