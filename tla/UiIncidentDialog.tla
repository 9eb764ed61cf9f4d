------------------------- MODULE UiIncidentDialog -------------------------
(***************************************************************************)
(* The dialog of the incident board (pages/IncidentBoardPage.jsx): its     *)
(* tabs, the assignee, the notes, and the Jira ticket with the projects of *)
(* the chosen integration and the comments, for a user who may update      *)
(* incidents.  The board under it and the saving of the draft are          *)
(* UiIncidents.                                                            *)
(***************************************************************************)
EXTENDS UiPage

CONSTANTS Incidents,
          Integrations, Default,  \* Jira integrations; the first of the list
          Users, Me,              \* users the incident may be assigned to
          MayRead                 \* the user has read:users

(* What the module takes for granted of its constants. *)
ConstantsFit == /\ Default \in Integrations
                /\ Me \in Users
                /\ MayRead \in BOOLEAN

Tabs == {"details", "assignment", "jira", "notes"}
Maybe(S) == S \cup {None}

(* A project is named by the integration it belongs to.  `project' is the  *)
(* draft's, `projects' the list the dialog offers, `comments' the incident *)
(* whose comments it shows, `linked' the draft's ticket.                   *)
UiType == [modal : Maybe(Incidents), tab : Tabs, assignee : Maybe(Users),
           note : BOOLEAN, linked : BOOLEAN,
           integration : Integrations, project : Maybe(Integrations),
           projects : Maybe(Integrations), comments : Maybe(Incidents),
           commentsLoading : BOOLEAN, creating : SUBSET Incidents,
           listed : [Incidents -> BOOLEAN], starts : 0..MaxStarts]
SrvType == [tickets : [Incidents -> Nat], notes : [Incidents -> Nat]]
TypeOK == ui \in UiType /\ srv \in SrvType

-----------------------------------------------------------------------------
(* openIncidentModal: the draft takes the incident's values and the first  *)
(* integration, whose projects are listed, and the comments are loaded.    *)
Arg(i, j) == [id |-> i, integration |-> j, opening |-> FALSE]
Opened(u, i) == [u EXCEPT !.modal = i, !.tab = "details", !.assignee = None,
                          !.note = FALSE, !.linked = u.listed[i],
                          !.integration = Default, !.commentsLoading = TRUE]
ListProjects(i) == Task("projects", "projects",
                        [Arg(i, Default) EXCEPT !.opening = TRUE])
ListComments(i) == Task("comments", "comments", Arg(i, Default))

(* The user has just opened the dialog on an incident. *)
Fresh == [modal |-> None, tab |-> "details", assignee |-> None,
          note |-> FALSE, linked |-> FALSE, integration |-> Default,
          project |-> None, projects |-> None, comments |-> None,
          commentsLoading |-> FALSE, creating |-> {},
          listed |-> [i \in Incidents |-> FALSE], starts |-> 0]
Init == \E i \in Incidents :
          /\ ui = Opened(Fresh, i)
          /\ srv = [tickets |-> [k \in Incidents |-> 0],
                    notes |-> [k \in Incidents |-> 0]]
          /\ net = [Quiet EXCEPT ![1] = ListProjects(i),
                                 ![2] = ListComments(i)]

-----------------------------------------------------------------------------
(* The service; its answer is read by the refresh alone. *)

Serve(n) ==
  LET t == net[n] IN
  /\ Waiting(n)
  /\ \/ /\ srv' = CASE t.stage = "create" ->
                         [srv EXCEPT !.tickets[t.arg.id] = @ + 1]
                    [] t.stage = "note" ->
                         [srv EXCEPT !.notes[t.arg.id] = @ + 1]
                    [] OTHER -> srv
        /\ Reply(n, "ok", [i \in Incidents |-> srv.tickets[i] > 0])
     \/ Reply(n, "failed", None) /\ UNCHANGED srv
  /\ UNCHANGED ui

-----------------------------------------------------------------------------
OpenModal(i) ==
  LET slots == CHOOSE p \in Free \X Free : p[1] < p[2] IN
  /\ ui.modal = None /\ Cardinality(Free) > 1 /\ ui.starts < MaxStarts
  /\ ui' = [Opened(ui, i) EXCEPT !.starts = @ + 1]
  /\ net' = [net EXCEPT ![slots[1]] = ListProjects(i),
                        ![slots[2]] = ListComments(i)]
  /\ UNCHANGED srv

In(tab) == ui.modal # None /\ ui.tab = tab
SetTab(tab) == /\ ui.modal # None /\ tab # ui.tab
               /\ ui' = [ui EXCEPT !.tab = tab]
               /\ UNCHANGED <<srv, net>>
CloseModal == /\ ui.modal # None
              /\ ui' = [ui EXCEPT !.modal = None]
              /\ UNCHANGED <<srv, net>>

(* The assignment tab: "Assign to me", "Unassigned" and the users found.   *)
Assign(u) == /\ In("assignment") /\ MayRead /\ u # ui.assignee
             /\ ui' = [ui EXCEPT !.assignee = u]
             /\ UNCHANGED <<srv, net>>

(* The notes tab: a note is typed or quoted, and cleared. *)
EditNote == /\ In("notes")
            /\ ui' = [ui EXCEPT !.note = ~@]
            /\ UNCHANGED <<srv, net>>
AddNote == /\ In("notes") /\ ui.note
           /\ Start(ui, "note", "note", Arg(ui.modal, ui.integration))

(* The Jira tab: another integration clears the project and lists its own. *)
ChooseIntegration(j) ==
  /\ In("jira") /\ j # ui.integration
  /\ Start([ui EXCEPT !.integration = j, !.project = None],
           "projects", "projects", Arg(ui.modal, j))
ButtonAlone == ui.modal # None
CanCreate == ui.modal \notin ui.creating
CreateJira == /\ In("jira") /\ CanCreate
              /\ ui.project # None \/ ui.projects # None
              /\ Start([ui EXCEPT !.creating = @ \cup {ui.modal}],
                       "create", "create", Arg(ui.modal, ui.integration))

-----------------------------------------------------------------------------
(* The answers.  Nothing asks whether the dialog still shows the incident. *)

(* The list the dialog opened with keeps a project that is in it, and sets *)
(* the project alone; the list of a chosen integration sets both.  The     *)
(* issue types, listed next, are left out.                                 *)
DeliverProjects(n) ==
  LET t == net[n]
      mine == ui.modal = t.arg.id IN
  /\ Back(n) /\ t.stage = "projects"
  /\ IF t.st = "failed"
     THEN ui' = [ui EXCEPT !.projects = None]
     ELSE ui' = [ui EXCEPT !.projects = t.arg.integration,
                   !.project = IF mine THEN t.arg.integration ELSE @,
                   !.integration = IF mine /\ ~t.arg.opening
                                   THEN t.arg.integration ELSE @]
  /\ Finish(n) /\ UNCHANGED srv

(* loadJiraComments, alone or as a step of another handler. *)
Comments(u, t) == [u EXCEPT !.comments = IF t.st = "ok" THEN t.arg.id ELSE None,
                            !.commentsLoading = FALSE]
DeliverComments(n) ==
  LET t == net[n] IN
  /\ Back(n) /\ t.stage = "comments"
  /\ ui' = Comments(ui, t)
  /\ IF t.op = "create" THEN Continue(n, "refresh", t.arg) ELSE Finish(n)
  /\ UNCHANGED srv

(* A note that was added opens the dialog on its incident again, whatever  *)
(* the dialog shows by then, and the board has the row of its answer.      *)
DeliverNote(n) ==
  LET t == net[n] IN
  /\ Back(n) /\ t.stage = "note"
  /\ IF t.st = "ok"
     THEN /\ ui' = [ui EXCEPT !.modal = t.arg.id,
                      !.note = IF ui.modal = t.arg.id THEN FALSE ELSE @,
                      !.listed[t.arg.id] = t.ans[t.arg.id],
                      !.commentsLoading = TRUE]
          /\ Continue(n, "comments", t.arg)
     ELSE /\ UNCHANGED ui
          /\ Finish(n)
  /\ UNCHANGED srv

(* A ticket is linked in the draft; the comments and the board follow, and *)
(* `finally' frees the button.                                             *)
Freed(u, t) == [u EXCEPT !.creating = @ \ {t.arg.id}]
DeliverCreate(n) ==
  LET t == net[n] IN
  /\ Back(n) /\ t.stage = "create"
  /\ IF t.st = "ok"
     THEN /\ ui' = [ui EXCEPT !.linked = IF ui.modal = t.arg.id THEN TRUE ELSE @,
                              !.commentsLoading = TRUE]
          /\ Continue(n, "comments", t.arg)
     ELSE /\ ui' = Freed(ui, t)
          /\ Finish(n)
  /\ UNCHANGED srv
DeliverRefresh(n) ==
  LET t == net[n] IN
  /\ Back(n) /\ t.stage = "refresh"
  /\ ui' = Freed(IF t.st = "ok"
                 THEN [ui EXCEPT !.listed = t.ans] ELSE ui, t)
  /\ Finish(n) /\ UNCHANGED srv

-----------------------------------------------------------------------------
Clicks == \/ CloseModal \/ EditNote \/ AddNote \/ CreateJira
          \/ \E i \in Incidents : OpenModal(i)
          \/ \E tab \in Tabs : SetTab(tab)
          \/ \E u \in Maybe(Users) : Assign(u)
          \/ \E j \in Integrations : ChooseIntegration(j)
DeliverSlot(n) == DeliverProjects(n) \/ DeliverComments(n) \/ DeliverNote(n)
                  \/ DeliverCreate(n) \/ DeliverRefresh(n)
Next == Clicks \/ \E n \in Slots : Serve(n) \/ DeliverSlot(n)

Fairness == \A n \in Slots : WF_vars(Serve(n)) /\ WF_vars(DeliverSlot(n))
Spec == Init /\ [][Next]_vars /\ Fairness

-----------------------------------------------------------------------------
(* Closing the dialog, opening it again and changing tabs never lets a     *)
(* second ticket be requested for an incident while the handler of the     *)
(* first has not finished.                                                 *)
OneTicketAtATime ==
  \A m, n \in Slots :
    net[m].op = "create" /\ net[n].op = "create"
      /\ net[m].arg.id = net[n].arg.id => m = n

(* The Jira button is offered again, and the comments stop loading.        *)
Busy == ui.creating # {} \/ ui.commentsLoading
=============================================================================
