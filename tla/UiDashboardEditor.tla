------------------------- MODULE UiDashboardEditor -------------------------
(***************************************************************************)
(* The dashboard editor of pages/GrafanaPage.jsx with                      *)
(* components/grafana/DashboardEditorModal.jsx: the form and the JSON text,*)
(* the conflict between them, and the saving of a dashboard, which may ask *)
(* first whether its datasource is to be shared the same way.  The lists   *)
(* under it are UiGrafana.                                                 *)
(***************************************************************************)
EXTENDS UiPage

CONSTANTS Dashboards,             \* dashboards that can be edited
          Datasources, Syncable,  \* Syncable: owned and not the default one
          Groups

(* What the module takes for granted of its constants. *)
ConstantsFit == /\ Syncable \subseteq Datasources
                /\ None \notin Dashboards \cup Datasources

Maybe(S) == S \cup {None}
Sharings == [visibility : {"private", "tenant"}, groups : {{}}]
              \cup [visibility : {"group"}, groups : SUBSET Groups]
Private == [visibility |-> "private", groups |-> {}]
Tabs == {"form", "json"}
(* The text: no panels and no title yet, a dashboard, or no JSON at all.   *)
Texts == {"blank", "dashboard", "bad"}

(* What a save captures of the render it began in, and the question it     *)
(* answers (0 when none was asked).                                        *)
Saves == [editing : Maybe(Dashboards), datasource : Maybe(Datasources),
          sharing : Sharings, bad : BOOLEAN, sync : BOOLEAN,
          confirmed : BOOLEAN, prompt : 0..MaxStarts]

UiType == [open : BOOLEAN, editing : Maybe(Dashboards), titled : BOOLEAN,
           tab : Tabs, text : Texts, of : Maybe(Dashboards),
           jsonError : BOOLEAN, uploaded : BOOLEAN, conflict : BOOLEAN,
           datasource : Maybe(Datasources), sharing : Sharings,
           known : [Datasources -> Sharings], prompt : Maybe(Saves),
           skip : BOOLEAN, starts : 0..MaxStarts]
SrvType == [saved : [0..MaxStarts -> Nat], synced : SUBSET (0..MaxStarts),
            sharing : [Datasources -> Sharings]]
TypeOK == ui \in UiType /\ srv \in SrvType

Init == /\ ui = [open |-> FALSE, editing |-> None, titled |-> FALSE,
                 tab |-> "form", text |-> "blank", of |-> None,
                 jsonError |-> FALSE, uploaded |-> FALSE, conflict |-> FALSE,
                 datasource |-> None, sharing |-> Private,
                 known |-> [p \in Datasources |-> Private], prompt |-> None,
                 skip |-> FALSE, starts |-> 0]
        /\ srv = [saved |-> [n \in 0..MaxStarts |-> 0], synced |-> {},
                  sharing |-> ui.known]
        /\ net = Quiet

-----------------------------------------------------------------------------
(* The services: the dashboard, then the datasource, then the listings.    *)
Executed(t) ==
  CASE t.stage = "write" -> [srv EXCEPT !.saved[t.arg.prompt] = @ + 1]
    [] t.stage = "sync" ->
         [srv EXCEPT !.synced = @ \cup {t.arg.prompt},
                     !.sharing[t.arg.datasource] = t.arg.sharing]
    [] OTHER -> srv
Serve(n) ==
  LET t == net[n] IN
  /\ Waiting(n)
  /\ \/ srv' = Executed(t) /\ \E st \in {"ok", "failed"} : Reply(n, st, None)
     \/ UNCHANGED srv /\ Reply(n, "failed", None)
  /\ UNCHANGED ui

-----------------------------------------------------------------------------
(* Opening: a new dashboard is blank; of one that exists the text of the   *)
(* list is shown until the whole of it has been read.  A conflict that was *)
(* shown when the editor was closed is still shown.                        *)
Opened(d) ==
  [ui EXCEPT !.open = TRUE, !.editing = d, !.titled = d # None, !.tab = "form",
             !.text = IF d = None THEN "blank" ELSE "dashboard", !.of = d,
             !.jsonError = FALSE, !.uploaded = FALSE, !.datasource = None,
             !.sharing = Private]
Bare == ~ui.open /\ ui.prompt = None
OpenNew == Bare /\ ui' = Opened(None) /\ UNCHANGED <<srv, net>>
OpenEdit(d) == Bare /\ Start(Opened(d), "read", "read", [dashboard |-> d])
(* Whatever the editor shows by then, it gets the text that was read.      *)
DeliverRead(n) ==
  LET t == net[n] IN
  /\ Back(n) /\ t.stage = "read"
  /\ ui' = IF t.st = "failed" THEN ui
           ELSE [ui EXCEPT !.text = "dashboard", !.of = t.arg.dashboard,
                           !.jsonError = FALSE, !.uploaded = FALSE]
  /\ Finish(n) /\ UNCHANGED srv

-----------------------------------------------------------------------------
(* The editor's controls. *)
In(tab) == ui.open /\ ui.prompt = None /\ ui.tab = tab
Edit(u) == ui' = u /\ UNCHANGED <<srv, net>>
SetTab(tab) == ui.open /\ ui.prompt = None /\ tab # ui.tab
                 /\ Edit([ui EXCEPT !.tab = tab])
SetTitle == In("form") /\ ~ui.titled /\ Edit([ui EXCEPT !.titled = TRUE])
ChooseDatasource(p) == /\ ui.open /\ ui.prompt = None /\ p # ui.datasource
                       /\ Edit([ui EXCEPT !.datasource = p])
SetSharing(s) ==
  /\ ui.open /\ ui.prompt = None /\ s # ui.sharing
  /\ s.visibility # ui.sharing.visibility => s.groups = {}
  /\ Edit([ui EXCEPT !.sharing = s])
ApplyTemplate == In("json") /\ Edit([ui EXCEPT !.text = "dashboard", !.of = None,
                                       !.jsonError = FALSE, !.uploaded = FALSE])
UploadFile(text) == In("json") /\ Edit([ui EXCEPT !.text = text, !.of = None,
                                          !.jsonError = FALSE, !.uploaded = TRUE])
TypeJson(text) == In("json") /\ text # ui.text /\ Edit([ui EXCEPT !.text = text])
CloseEditor == ui.open /\ ui.prompt = None /\ Edit([ui EXCEPT !.open = FALSE])

-----------------------------------------------------------------------------
(* Saving. *)

(* _jsonLooksMeaningful: there is something in the text a save of the form *)
(* would lose.                                                             *)
Meaningful == ui.text # "blank" \/ ui.uploaded \/ ui.editing # None
CanSave == /\ ui.open /\ ui.prompt = None /\ ui.datasource # None
           /\ IF ui.tab = "form" THEN ui.titled ELSE ~ui.jsonError

Now(bad) == [editing |-> ui.editing, datasource |-> ui.datasource,
             sharing |-> ui.sharing, bad |-> bad, sync |-> FALSE,
             confirmed |-> FALSE, prompt |-> 0]
NeedsSync == /\ ui.datasource \in Syncable
             /\ ui.sharing # ui.known[ui.datasource]
(* saveDashboard as the editor calls it: the question comes first, then    *)
(* the text is parsed, then the dashboard is created or updated.           *)
SaveDashboard(u, bad) ==
  IF u.datasource = None THEN Edit(u)
  ELSE IF NeedsSync
  THEN /\ ui.starts < MaxStarts
       /\ Edit([u EXCEPT !.starts = @ + 1,
                  !.prompt = [Now(bad) EXCEPT !.prompt = ui.starts + 1]])
  ELSE IF bad THEN Edit([u EXCEPT !.jsonError = TRUE])
  ELSE Start([u EXCEPT !.jsonError = FALSE], "save", "write", Now(FALSE))
Save ==
  /\ CanSave
  /\ IF ui.tab = "form" /\ Meaningful
     THEN ~ui.conflict /\ Edit([ui EXCEPT !.conflict = TRUE])
     ELSE SaveDashboard(ui, ui.tab = "json" /\ ui.text = "bad")
(* "Fresh Start" and "Update JSON" make a new text, "Cancel Edit" does not.*)
InConflict == In("form") /\ ui.conflict
ResolveConflict ==
  /\ InConflict
  /\ SaveDashboard([ui EXCEPT !.conflict = FALSE, !.text = "dashboard"], FALSE)
CancelConflict == InConflict /\ Edit([ui EXCEPT !.conflict = FALSE])

-----------------------------------------------------------------------------
(* The question whether the datasource is to be shared as the dashboard.   *)
(* "No" and every other way to close it save the dashboard alone, unless   *)
(* skipConfirmDialogCancelRef says that it has been answered.              *)
Begun(u, save) == IF save.bad THEN Edit([u EXCEPT !.jsonError = TRUE])
                  ELSE Start([u EXCEPT !.jsonError = FALSE], "save", "write", save)
Unasked(u) == [u EXCEPT !.prompt = None, !.skip = FALSE]
(* Escape closes the editor under the question too.                        *)
ClosePrompt(escape) ==
  LET u == [Unasked(ui) EXCEPT !.open = @ /\ ~escape] IN
  /\ ui.prompt # None
  /\ IF ui.skip THEN Edit(u) ELSE Begun(u, ui.prompt)
(* "Yes": the dialog waits for the save, and stays open meanwhile.  A text *)
(* that does not parse ends the save, and the dialog, at once.             *)
ConfirmPrompt ==
  /\ ui.prompt # None
  /\ IF ui.prompt.bad THEN Edit([Unasked(ui) EXCEPT !.jsonError = TRUE])
     ELSE Start([ui EXCEPT !.skip = TRUE, !.jsonError = FALSE], "save", "write",
                [ui.prompt EXCEPT !.sync = TRUE, !.confirmed = TRUE])

(* The confirmed save is over: the dialog's handler closes the dialog it   *)
(* was rendered with, and saves again if the answer was consumed meanwhile.*)
Over(n, u, t) ==
  IF ~t.arg.confirmed THEN ui' = u /\ Finish(n)
  ELSE /\ ui' = Unasked(u)
       /\ IF ui.skip THEN Finish(n)
          ELSE Continue(n, "write", [t.arg EXCEPT !.sync = FALSE,
                                                  !.confirmed = FALSE])
(* The write failed: the editor stays open.  It succeeded: the datasource  *)
(* follows where that was the answer, and the editor closes.               *)
DeliverWrite(n) ==
  LET t == net[n] IN
  /\ Back(n) /\ t.stage = "write"
  /\ IF t.st = "ok" /\ t.arg.sync
     THEN UNCHANGED ui /\ Continue(n, "sync", t.arg)
     ELSE Over(n, IF t.st = "ok" THEN [ui EXCEPT !.open = FALSE] ELSE ui, t)
  /\ UNCHANGED srv
(* A sync that failed is reported, and no more than that; the load that    *)
(* follows tells the page how the datasource is shared.                    *)
DeliverSync(n) ==
  LET t == net[n] IN
  /\ Back(n) /\ t.stage = "sync"
  /\ Over(n, [ui EXCEPT !.open = FALSE, !.known = srv.sharing], t)
  /\ UNCHANGED srv

-----------------------------------------------------------------------------
Clicks == \/ OpenNew \/ SetTitle \/ ApplyTemplate \/ CloseEditor \/ Save
          \/ ResolveConflict \/ CancelConflict \/ ConfirmPrompt
          \/ \E d \in Dashboards : OpenEdit(d)
          \/ \E tab \in Tabs : SetTab(tab)
          \/ \E p \in Datasources : ChooseDatasource(p)
          \/ \E s \in Sharings : SetSharing(s)
          \/ \E text \in {"dashboard", "bad"} : UploadFile(text) \/ TypeJson(text)
          \/ \E escape \in BOOLEAN : ClosePrompt(escape)
DeliverSlot(n) == DeliverRead(n) \/ DeliverWrite(n) \/ DeliverSync(n)
Next == Clicks \/ \E n \in Slots : Serve(n) \/ DeliverSlot(n)

Fairness == \A n \in Slots : WF_vars(Serve(n)) /\ WF_vars(DeliverSlot(n))
Spec == Init /\ [][Next]_vars /\ Fairness

-----------------------------------------------------------------------------
(* However the question was answered, and whatever failed, the datasource  *)
(* is shared anew only after the dashboard of that answer was saved.       *)
SyncFollowsSave == \A p \in srv.synced : srv.saved[p] > 0

(* One answer to the question saves the dashboard once.                    *)
AnswerSavesOnce == \A p \in 1..MaxStarts : srv.saved[p] <= 1
=============================================================================
