------------------------- MODULE UiOperationsProofs -------------------------
(***************************************************************************)
(* Proofs about UiOperations, page by page: each page has an inductive     *)
(* invariant of its own, and that of a behaviour is that of its page.      *)
(***************************************************************************)
EXTENDS UiOperations, UiOrder, FiniteSetTheorems, TLAPS

-----------------------------------------------------------------------------
(* The dialog of an incident: one ticket at a time. *)

(* What a handler at an await carries. *)
DialogArgs == [id : Incidents, integration : Integrations, opening : BOOLEAN]
DialogStages == {"projects", "comments", "note", "create", "refresh"}
DialogTasks == [op : DialogStages, stage : DialogStages,
                st : {"sent", "ok", "failed"}, arg : DialogArgs,
                ans : Dialog!Maybe([Incidents -> BOOLEAN])]

(* A list that came is one; only creating a ticket goes on to "create" and *)
(* "refresh", the two stages whose answer frees the button.                *)
DialogFits(t) ==
  /\ t.st = "ok" => t.ans \in [Incidents -> BOOLEAN]
  /\ t.stage \in {"create", "refresh"} => t.op = "create"
DialogHandlersFit ==
  /\ net \in [Slots -> DialogTasks \cup {Dialog!NoTask}]
  /\ \A n \in Slots : DialogFits(net[n])

(* The incident of a handler that creates a ticket has its button busy.    *)
ButtonHeld ==
  \A n \in Slots : net[n].op = "create" => net[n].arg.id \in ui.creating

DialogInv == /\ Dialog!TypeOK /\ DialogHandlersFit
             /\ ButtonHeld /\ Dialog!OneTicketAtATime

(* What the invariant says of the parts of the state.                      *)
LEMMA DialogState ==
  ASSUME DialogInv
  PROVE 
        /\ ui \in Dialog!UiType /\ srv \in Dialog!SrvType
        /\ net \in [Slots -> DialogTasks \cup {Dialog!NoTask}]
        /\ Dialog!NoTask.st = "idle" /\ Dialog!NoTask.op = "none"
        /\ Dialog!NoTask.stage = "none"
        /\ \A n \in Slots : net[n].st # "idle" => net[n] \in DialogTasks
  BY DEF DialogInv, Dialog!TypeOK, DialogHandlersFit, Dialog!NoTask

(* What the handlers of the dialog capture.                                *)
LEMMA DialogArgFacts ==
  ASSUME NEW i \in Incidents, NEW j \in Integrations
  PROVE  Dialog!Arg(i, j) \in DialogArgs /\ Dialog!Arg(i, j).id = i
  BY DEF Dialog!Arg, DialogArgs

(* A handler of the dialog is a task that fits its name.                   *)
LEMMA DialogTaskFacts ==
  ASSUME NEW op \in DialogStages, NEW stage \in DialogStages,
         NEW arg \in DialogArgs,
         stage \in {"create", "refresh"} => op = "create"
  PROVE 
        /\ Dialog!Task(op, stage, arg) \in DialogTasks
        /\ DialogFits(Dialog!Task(op, stage, arg))
        /\ Dialog!Task(op, stage, arg).op = op
        /\ Dialog!Task(op, stage, arg).arg = arg
  BY DEF Dialog!Task, DialogTasks, DialogFits, Dialog!Maybe

(* A slot that is free fits too.                                           *)
LEMMA DialogNoTask ==
  /\ DialogFits(Dialog!NoTask)
  /\ Dialog!NoTask \in DialogTasks \cup {Dialog!NoTask}
  /\ Dialog!NoTask.op = "none"
  BY DEF DialogFits, Dialog!NoTask

(***************************************************************************)
(* Handlers that begin or go on: one slot gets a task, of a ticket only    *)
(* when the button was free before and is held after.                      *)
(***************************************************************************)
LEMMA DialogSlotStep ==
  ASSUME DialogInv, ui' \in Dialog!UiType, srv' \in Dialog!SrvType,
         NEW k, NEW t \in DialogTasks \cup {Dialog!NoTask}, DialogFits(t),
         net' = [net EXCEPT ![k] = t],
         ui.creating \subseteq ui'.creating,
         t.op = "create" => t.arg.id \in ui'.creating,
         t.op = "create" => \/ t.arg.id \notin ui.creating
                            \/ /\ k \in Slots /\ net[k].op = "create"
                               /\ net[k].arg.id = t.arg.id
  PROVE  DialogInv'
<1> USE DEF DialogInv
<1>1. Dialog!TypeOK'
  BY DEF Dialog!TypeOK, Dialog!UiType, Dialog!SrvType
<1>2. DialogHandlersFit'
  BY DEF DialogHandlersFit
<1>3. ButtonHeld'
  BY DEF DialogHandlersFit, ButtonHeld
<1>4. Dialog!OneTicketAtATime'
  BY DEF DialogHandlersFit, ButtonHeld, Dialog!OneTicketAtATime
<1> QED BY <1>1, <1>2, <1>3, <1>4

(* The handler of a slot ends, and may free the button of its incident. *)
LEMMA DialogFinishStep ==
  ASSUME DialogInv, ui' \in Dialog!UiType, srv' = srv, NEW n \in Slots,
         Dialog!Finish(n),
         \/ ui'.creating = ui.creating
         \/ /\ net[n].op = "create"
            /\ ui'.creating = ui.creating \ {net[n].arg.id}
  PROVE  DialogInv'
<1> USE DEF DialogInv
<1>1. Dialog!TypeOK'
  BY DEF DialogInv, Dialog!TypeOK, Dialog!UiType, Dialog!SrvType
<1>2. net' = [net EXCEPT ![n] = Dialog!NoTask] /\ Dialog!NoTask.op # "create"
  BY DialogNoTask DEF Dialog!Finish
<1>3. DialogHandlersFit'
  BY <1>2, DialogNoTask DEF DialogHandlersFit
<1>4. ButtonHeld'
  BY <1>2 DEF DialogHandlersFit, ButtonHeld, Dialog!OneTicketAtATime
<1>5. Dialog!OneTicketAtATime'
  BY <1>2 DEF DialogHandlersFit, Dialog!OneTicketAtATime
<1> QED BY <1>1, <1>3, <1>4, <1>5
(* Opening the dialog frees and takes no button.                           *)
LEMMA DialogOpened ==
  ASSUME Dialog!ConstantsFit, NEW u \in Dialog!UiType, NEW i \in Incidents
  PROVE  /\ Dialog!Opened(u, i) \in Dialog!UiType
         /\ Dialog!Opened(u, i).creating = u.creating
         /\ Dialog!Opened(u, i).starts = u.starts
  BY DEF Dialog!ConstantsFit, Dialog!Opened, Dialog!UiType, Dialog!Tabs,
     Dialog!Maybe

(* The two handlers the dialog opens with. *)
LEMMA DialogListsFit ==
  ASSUME Dialog!ConstantsFit, NEW i \in Incidents
  PROVE 
        /\ Dialog!ListProjects(i) \in DialogTasks
        /\ DialogFits(Dialog!ListProjects(i))
        /\ Dialog!ListProjects(i).op # "create"
        /\ Dialog!ListComments(i) \in DialogTasks
        /\ DialogFits(Dialog!ListComments(i))
        /\ Dialog!ListComments(i).op # "create"
<1>1. /\ Dialog!Arg(i, FirstIntegration) \in DialogArgs
      /\ [Dialog!Arg(i, FirstIntegration) EXCEPT !.opening = TRUE]
           \in DialogArgs
  BY DEF Dialog!ConstantsFit, Dialog!Arg, DialogArgs
<1> QED BY <1>1, DialogTaskFacts DEF Dialog!ListProjects, Dialog!ListComments,
   DialogStages

(* Slots that get a handler which creates no ticket. *)
Quieter(g, f) ==
  /\ g \in [Slots -> DialogTasks \cup {Dialog!NoTask}]
  /\ \A n \in Slots : DialogFits(g[n]) /\ (g[n].op # "create" \/ g[n] = f[n])

(* One more slot is taken by a handler that creates no ticket.             *)
LEMMA QuieterSlot ==
  ASSUME NEW f, NEW g, Quieter(g, f), NEW k, NEW t \in DialogTasks,
         DialogFits(t), t.op # "create"
  PROVE  Quieter([g EXCEPT ![k] = t], f)
<1> DEFINE h == [g EXCEPT ![k] = t]
<1>1. h \in [Slots -> DialogTasks \cup {Dialog!NoTask}]
  BY DEF Quieter
<1>2. ASSUME NEW n \in Slots
      PROVE  h[n] = t \/ h[n] = g[n]
  BY DEF Quieter
<1> HIDE DEF h
<1>3. ASSUME NEW n \in Slots
      PROVE  DialogFits(h[n]) /\ (h[n].op # "create" \/ h[n] = f[n])
  BY <1>2 DEF Quieter
<1>4. Quieter(h, f)
  BY <1>1, <1>3 DEF Quieter
<1> QED BY <1>4 DEF h

(* What is quieter has typed handlers still, and the same tickets.         *)
LEMMA QuieterSlots ==
  ASSUME NEW f \in [Slots -> DialogTasks \cup {Dialog!NoTask}],
         \A n \in Slots : DialogFits(f[n]),
         NEW j, NEW k, NEW s \in DialogTasks, NEW t \in DialogTasks,
         DialogFits(s), DialogFits(t), s.op # "create", t.op # "create"
  PROVE  Quieter([f EXCEPT ![j] = s, ![k] = t], f)
<1> DEFINE g == [f EXCEPT ![j] = s]
<1>1. Quieter(f, f)
  BY DEF Quieter
<1>2. Quieter(g, f)
  BY <1>1, QuieterSlot
<1>3. [f EXCEPT ![j] = s, ![k] = t] = [g EXCEPT ![k] = t]
  OBVIOUS
<1> HIDE DEF g
<1> QED BY <1>2, <1>3, QuieterSlot

(* The dialog opens with the two loads of its incident.                    *)
LEMMA DialogInit ==
  Dialog!BoundsFit /\ Dialog!ConstantsFit /\ Dialog!Init => DialogInv
<1> SUFFICES ASSUME Dialog!BoundsFit, Dialog!ConstantsFit, Dialog!Init
             PROVE  DialogInv
  OBVIOUS
<1>1. PICK i \in Incidents :
        /\ ui = Dialog!Opened(Dialog!Fresh, i)
        /\ srv = [tickets |-> [k \in Incidents |-> 0],
                  notes |-> [k \in Incidents |-> 0]]
        /\ net = [Dialog!Quiet EXCEPT ![1] = Dialog!ListProjects(i),
                                      ![2] = Dialog!ListComments(i)]
  BY DEF Dialog!Init
<1>2. Dialog!Fresh \in Dialog!UiType
  BY DEF Dialog!Fresh, Dialog!UiType, Dialog!Maybe, Dialog!Tabs, Dialog!BoundsFit,
     Dialog!ConstantsFit
<1>3. Dialog!TypeOK
  <2>1. ui \in Dialog!UiType
    BY <1>1, <1>2, DialogOpened
  <2>2. srv \in Dialog!SrvType
    BY <1>1 DEF Dialog!SrvType
  <2> QED BY <2>1, <2>2 DEF Dialog!TypeOK
<1>4. /\ Dialog!Quiet \in [Slots -> DialogTasks \cup {Dialog!NoTask}]
      /\ \A n \in Slots : Dialog!Quiet[n] = Dialog!NoTask
  BY DEF Dialog!Quiet
<1>5. /\ net \in [Slots -> DialogTasks \cup {Dialog!NoTask}]
      /\ \A n \in Slots :
           /\ DialogFits(net[n])
           /\ net[n].op # "create" \/ net[n] = Dialog!NoTask
  <2>1. \A n \in Slots : DialogFits(Dialog!Quiet[n])
    BY <1>4, DialogNoTask
  <2>2. Quieter(net, Dialog!Quiet)
    BY <1>1, <1>4, <2>1, DialogListsFit, QuieterSlots
  <2> QED BY <1>4, <2>2 DEF Quieter
<1>6. \A n \in Slots : net[n].op # "create"
  BY <1>5, DialogNoTask
<1> QED BY <1>3, <1>5, <1>6 DEF DialogInv, DialogHandlersFit, ButtonHeld,
   Dialog!OneTicketAtATime

(***************************************************************************)
(* The clicks.                                                             *)
(***************************************************************************)
LEMMA DialogOpenStep ==
  ASSUME Dialog!BoundsFit, Dialog!ConstantsFit, DialogInv,
         NEW i \in Incidents, Dialog!OpenModal(i)
  PROVE  DialogInv'
<1> DEFINE slots == CHOOSE p \in Dialog!Free \X Dialog!Free : p[1] < p[2]
           u == Dialog!Opened(ui, i)
<1>1. /\ ui' = [u EXCEPT !.starts = @ + 1] /\ ui.starts < MaxStarts
      /\ net' = [net EXCEPT ![slots[1]] = Dialog!ListProjects(i),
                            ![slots[2]] = Dialog!ListComments(i)]
      /\ srv' = srv
  BY DEF Dialog!OpenModal
<1> HIDE DEF slots
<1>2. u \in Dialog!UiType /\ u.creating = ui.creating /\ u.starts = ui.starts
  BY DialogState, DialogOpened
<1> HIDE DEF u
<1>3. ui' \in Dialog!UiType /\ ui'.creating = ui.creating
  BY <1>1, <1>2 DEF Dialog!UiType, Dialog!BoundsFit
<1>4. Dialog!TypeOK'
  BY <1>1, <1>3, DialogState DEF Dialog!TypeOK, Dialog!UiType, Dialog!SrvType
<1>5. /\ net' \in [Slots -> DialogTasks \cup {Dialog!NoTask}]
      /\ \A n \in Slots :
           /\ DialogFits(net'[n])
           /\ net'[n].op # "create" \/ net'[n] = net[n]
  <2>1. /\ net \in [Slots -> DialogTasks \cup {Dialog!NoTask}]
        /\ \A n \in Slots : DialogFits(net[n])
    BY DEF DialogInv, DialogHandlersFit
  <2>2. Quieter(net', net)
    BY <1>1, <2>1, DialogListsFit, QuieterSlots
  <2> QED BY <2>2 DEF Quieter
<1>6. DialogHandlersFit'
  BY <1>5 DEF DialogHandlersFit, DialogFits
<1>7. ButtonHeld' /\ Dialog!OneTicketAtATime'
  BY <1>3, <1>5 DEF DialogInv, ButtonHeld, Dialog!OneTicketAtATime
<1> QED BY <1>4, <1>6, <1>7 DEF DialogInv

(* A handler begins that creates no ticket. *)
LEMMA DialogStartStep ==
  ASSUME Dialog!BoundsFit, Dialog!ConstantsFit, DialogInv,
         NEW u \in Dialog!UiType, u.creating = ui.creating,
         u.starts = ui.starts,
         NEW stage \in {"projects", "note"}, NEW arg \in DialogArgs,
         Dialog!Start(u, stage, stage, arg)
  PROVE  DialogInv'
<1>1. ui' \in Dialog!UiType /\ ui'.creating = ui.creating /\ srv' = srv
  BY DEF Dialog!Start, Dialog!UiType, Dialog!BoundsFit
<1>2. net' = [net EXCEPT ![Dialog!FirstFree] = Dialog!Task(stage, stage, arg)]
  BY DEF Dialog!Start, Dialog!Begin
<1>3. /\ Dialog!Task(stage, stage, arg) \in DialogTasks
      /\ DialogFits(Dialog!Task(stage, stage, arg))
      /\ Dialog!Task(stage, stage, arg).op # "create"
  BY DialogTaskFacts DEF DialogStages
<1> QED BY <1>1, <1>2, <1>3, DialogState, DialogSlotStep

(* "Create" is offered while the button is free, and takes it.             *)
LEMMA DialogCreateStep ==
  ASSUME Dialog!BoundsFit, Dialog!ConstantsFit, DialogInv, Dialog!CreateJira
  PROVE  DialogInv'
<1> DEFINE i == ui.modal
           arg == Dialog!Arg(i, ui.integration)
           u == [ui EXCEPT !.creating = @ \cup {i}]
<1>1. /\ i \in Incidents /\ i \notin ui.creating /\ ui.integration \in Integrations
  BY DialogState DEF Dialog!CreateJira, Dialog!In, Dialog!CanCreate, Dialog!UiType,
     Dialog!Maybe
<1>2. /\ ui' = [u EXCEPT !.starts = @ + 1] /\ srv' = srv /\ ui.starts < MaxStarts
      /\ net' = [net EXCEPT ![Dialog!FirstFree] =
                              Dialog!Task("create", "create", arg)]
  BY DEF Dialog!CreateJira, Dialog!Start, Dialog!Begin
<1>3. arg \in DialogArgs /\ arg.id = i
  BY <1>1, DialogArgFacts
<1> HIDE DEF arg, i
<1>4. u \in Dialog!UiType /\ u.starts = ui.starts /\ u.creating = ui.creating \cup {i}
  BY <1>1, DialogState DEF Dialog!UiType
<1> HIDE DEF u
<1>5. ui' \in Dialog!UiType /\ ui'.creating = ui.creating \cup {i}
  BY <1>2, <1>4 DEF Dialog!UiType, Dialog!BoundsFit
<1>6. /\ Dialog!Task("create", "create", arg) \in DialogTasks
      /\ DialogFits(Dialog!Task("create", "create", arg))
      /\ Dialog!Task("create", "create", arg).arg.id = i
  BY <1>3, DialogTaskFacts DEF DialogStages
<1> QED BY <1>1, <1>2, <1>5, <1>6, DialogState, DialogSlotStep

(* What is only typed, chosen or closed leaves the handlers alone. *)
LEMMA DialogTabStep ==
  ASSUME DialogInv, ui' \in Dialog!UiType, ui'.creating = ui.creating,
         UNCHANGED <<srv, net>>
  PROVE  DialogInv'
<1>1. Dialog!TypeOK'
  BY DialogState DEF Dialog!TypeOK, Dialog!UiType, Dialog!SrvType
<1> QED BY <1>1 DEF DialogInv, DialogHandlersFit, DialogFits, ButtonHeld,
   Dialog!OneTicketAtATime

(* What the user clicks in the dialog.                                     *)
LEMMA DialogClickStep ==
  ASSUME Dialog!BoundsFit, Dialog!ConstantsFit, DialogInv, Dialog!Clicks
  PROVE  DialogInv'
<1>1. CASE Dialog!CloseModal
  BY <1>1, DialogState, DialogTabStep DEF Dialog!CloseModal, Dialog!UiType,
     Dialog!Maybe
<1>2. CASE Dialog!EditNote
  BY <1>2, DialogState, DialogTabStep DEF Dialog!EditNote, Dialog!UiType
<1>3. ASSUME NEW tab \in Dialog!Tabs, Dialog!SetTab(tab)
      PROVE  DialogInv'
  BY <1>3, DialogState, DialogTabStep DEF Dialog!SetTab, Dialog!UiType
<1>4. ASSUME NEW u \in Dialog!Maybe(Assignees), Dialog!Assign(u)
      PROVE  DialogInv'
  BY <1>4, DialogState, DialogTabStep DEF Dialog!Assign, Dialog!UiType
<1>5. CASE Dialog!AddNote
  <2>1. ui.modal \in Incidents /\ ui.integration \in Integrations
    BY <1>5, DialogState DEF Dialog!AddNote, Dialog!In, Dialog!UiType, Dialog!Maybe
  <2> QED BY <1>5, <2>1, DialogArgFacts, DialogState, DialogStartStep DEF
     Dialog!AddNote
<1>6. ASSUME NEW j \in Integrations, Dialog!ChooseIntegration(j)
      PROVE  DialogInv'
  <2> DEFINE u == [ui EXCEPT !.integration = j, !.project = None]
  <2>1. ui.modal \in Incidents
    BY <1>6, DialogState DEF Dialog!ChooseIntegration, Dialog!In, Dialog!UiType,
       Dialog!Maybe
  <2>2. u \in Dialog!UiType /\ u.creating = ui.creating /\ u.starts = ui.starts
    BY DialogState DEF Dialog!UiType, Dialog!Maybe
  <2>3. Dialog!Start(u, "projects", "projects", Dialog!Arg(ui.modal, j))
    BY <1>6 DEF Dialog!ChooseIntegration
  <2> HIDE DEF u
  <2> QED BY <2>1, <2>2, <2>3, DialogArgFacts, DialogStartStep
<1> QED BY <1>1, <1>2, <1>3, <1>4, <1>5, <1>6, DialogOpenStep,
   DialogCreateStep DEF Dialog!Clicks

(***************************************************************************)
(* The service answers the handler of a slot.                              *)
(***************************************************************************)
LEMMA DialogServeStep ==
  ASSUME DialogInv, NEW n \in Slots, Dialog!Serve(n)
  PROVE  DialogInv'
<1> DEFINE t == net[n]
           list == [i \in Incidents |-> srv.tickets[i] > 0]
<1>1. /\ t \in DialogTasks /\ DialogFits(t) /\ t.arg \in DialogArgs
      /\ t.arg.id \in Incidents
  BY DialogState DEF Dialog!Serve, Dialog!Waiting, DialogTasks, DialogArgs,
     DialogInv, DialogHandlersFit
<1>2. /\ ui' = ui
      /\ \/ Dialog!Reply(n, "ok", list)
         \/ Dialog!Reply(n, "failed", None)
  BY DEF Dialog!Serve
<1>3. srv' \in Dialog!SrvType
  <2>1. \/ srv' = srv
        \/ srv' = [srv EXCEPT !.tickets[t.arg.id] = @ + 1]
        \/ srv' = [srv EXCEPT !.notes[t.arg.id] = @ + 1]
    BY DEF Dialog!Serve
  <2> QED BY <1>1, <2>1, DialogState DEF Dialog!SrvType
<1>4. ASSUME NEW st \in {"ok", "failed"},
             NEW ans \in Dialog!Maybe([Incidents -> BOOLEAN]),
             st = "ok" => ans \in [Incidents -> BOOLEAN], Dialog!Reply(n, st, ans)
      PROVE  DialogInv'
  <2> DEFINE r == [t EXCEPT !.st = st, !.ans = ans]
  <2>1. net' = [net EXCEPT ![n] = r]
    BY <1>4, DialogState DEF Dialog!Reply
  <2>2. r \in DialogTasks /\ DialogFits(r) /\ r.op = t.op /\ r.arg = t.arg
    BY <1>1, <1>4 DEF DialogTasks, DialogFits
  <2>3. t.op = "create" => t.arg.id \in ui.creating
    BY DEF DialogInv, ButtonHeld
  <2> HIDE DEF r
  <2> QED BY <1>2, <1>3, <2>1, <2>2, <2>3, DialogState, DialogSlotStep
<1>5. list \in [Incidents -> BOOLEAN]
  BY DialogState DEF Dialog!SrvType
<1> QED BY <1>2, <1>4, <1>5 DEF Dialog!Maybe

(***************************************************************************)
(* The answers.                                                            *)
(***************************************************************************)
LEMMA DialogGoOnStep ==
  ASSUME DialogInv, NEW n \in Slots, net[n] \in DialogTasks,
         ui' \in Dialog!UiType,
         ui'.creating = ui.creating, srv' = srv, NEW stage \in DialogStages,
         stage \in {"create", "refresh"} => net[n].op = "create",
         Dialog!Continue(n, stage, net[n].arg)
  PROVE  DialogInv'
<1> DEFINE r == Dialog!Task(net[n].op, stage, net[n].arg)
<1>1. net[n].op \in DialogStages /\ net[n].arg \in DialogArgs
  BY DEF DialogTasks
<1>2. net' = [net EXCEPT ![n] = r]
  BY DialogState DEF Dialog!Continue
<1>3. r \in DialogTasks /\ DialogFits(r) /\ r.op = net[n].op /\ r.arg = net[n].arg
  BY <1>1, DialogTaskFacts
<1>4. net[n].op = "create" => net[n].arg.id \in ui.creating
  BY DEF DialogInv, ButtonHeld
<1> HIDE DEF r
<1> QED BY <1>2, <1>3, <1>4, DialogState, DialogSlotStep

(* The answers, one case for each request that is awaited.                 *)
LEMMA DialogDeliverStep ==
  ASSUME DialogInv, NEW n \in Slots, Dialog!DeliverSlot(n)
  PROVE  DialogInv'
<1> DEFINE t == net[n]
<1>1. /\ t \in DialogTasks /\ DialogFits(t) /\ srv' = srv
      /\ t.arg.id \in Incidents /\ t.arg.integration \in Integrations
      /\ t.arg.opening \in BOOLEAN /\ t.st \in {"sent", "ok", "failed"}
  <2>1. Dialog!Back(n) /\ srv' = srv
    BY DEF Dialog!DeliverSlot, Dialog!DeliverProjects, Dialog!DeliverComments,
       Dialog!DeliverNote, Dialog!DeliverCreate,
           Dialog!DeliverRefresh
  <2>2. t \in DialogTasks /\ DialogFits(t)
    BY <2>1, DialogState DEF Dialog!Back, DialogInv, DialogHandlersFit
  <2> QED BY <2>1, <2>2 DEF DialogTasks, DialogArgs
<1>2. CASE Dialog!DeliverProjects(n)
  <2>1. ui' \in Dialog!UiType /\ ui'.creating = ui.creating
    <3> DEFINE mine == ui.modal = t.arg.id
               project == IF mine THEN t.arg.integration ELSE ui.project
               integration == IF mine /\ ~t.arg.opening THEN t.arg.integration
                              ELSE ui.integration
    <3>1. \/ ui' = [ui EXCEPT !.projects = None]
          \/ ui' = [ui EXCEPT !.projects = t.arg.integration, !.project = project,
                              !.integration = integration]
      BY <1>2, DialogState DEF Dialog!DeliverProjects, Dialog!UiType
    <3>2. project \in Dialog!Maybe(Integrations) /\ integration \in Integrations
      BY <1>1, DialogState DEF Dialog!UiType, Dialog!Maybe
    <3> HIDE DEF project, integration
    <3> QED BY <1>1, <3>1, <3>2, DialogState DEF Dialog!UiType, Dialog!Maybe
  <2> QED BY <1>1, <1>2, <2>1, DialogFinishStep DEF Dialog!DeliverProjects
<1>3. CASE Dialog!DeliverComments(n)
  <2>1. ui' \in Dialog!UiType /\ ui'.creating = ui.creating
    <3> DEFINE comments == IF t.st = "ok" THEN t.arg.id ELSE None
    <3>1. ui' = [ui EXCEPT !.comments = comments, !.commentsLoading = FALSE]
      BY <1>3 DEF Dialog!DeliverComments, Dialog!Comments
    <3>2. comments \in Dialog!Maybe(Incidents)
      BY <1>1 DEF Dialog!Maybe
    <3> HIDE DEF comments
    <3> QED BY <3>1, <3>2, DialogState DEF Dialog!UiType
  <2>2. CASE t.op = "create"
    BY <1>1, <1>3, <2>1, <2>2, DialogGoOnStep DEF Dialog!DeliverComments,
       DialogStages
  <2>3. CASE t.op # "create"
    BY <1>1, <1>3, <2>1, <2>3, DialogFinishStep DEF Dialog!DeliverComments
  <2> QED BY <2>2, <2>3
<1>4. CASE Dialog!DeliverNote(n)
  <2>1. CASE t.st = "ok"
    <3> DEFINE note == IF ui.modal = t.arg.id THEN FALSE ELSE ui.note
               listed == [ui.listed EXCEPT ![t.arg.id] = t.ans[t.arg.id]]
    <3>1. /\ ui' = [ui EXCEPT !.modal = t.arg.id, !.note = note,
                              !.listed = listed, !.commentsLoading = TRUE]
          /\ Dialog!Continue(n, "comments", t.arg)
      BY <1>4, <2>1, DialogState DEF Dialog!DeliverNote, Dialog!UiType
    <3>2. note \in BOOLEAN /\ listed \in [Incidents -> BOOLEAN]
      BY <1>1, <2>1, DialogState DEF Dialog!UiType, DialogFits
    <3> HIDE DEF note, listed
    <3>3. ui' \in Dialog!UiType /\ ui'.creating = ui.creating
      BY <1>1, <3>1, <3>2, DialogState DEF Dialog!UiType, Dialog!Maybe
    <3> QED BY <1>1, <3>1, <3>3, DialogGoOnStep DEF DialogStages
  <2>2. CASE t.st # "ok"
    BY <1>1, <1>4, <2>2, DialogState, DialogFinishStep DEF Dialog!DeliverNote
  <2> QED BY <2>1, <2>2
<1>5. CASE Dialog!DeliverCreate(n)
  <2>1. t.op = "create"
    BY <1>1, <1>5 DEF Dialog!DeliverCreate, DialogFits
  <2>2. CASE t.st = "ok"
    <3> DEFINE linked == IF ui.modal = t.arg.id THEN TRUE ELSE ui.linked
    <3>1. /\ ui' = [ui EXCEPT !.linked = linked, !.commentsLoading = TRUE]
          /\ Dialog!Continue(n, "comments", t.arg)
      BY <1>5, <2>2, DialogState DEF Dialog!DeliverCreate, Dialog!UiType
    <3>2. linked \in BOOLEAN
      BY DialogState DEF Dialog!UiType
    <3> HIDE DEF linked
    <3>3. ui' \in Dialog!UiType /\ ui'.creating = ui.creating
      BY <3>1, <3>2, DialogState DEF Dialog!UiType
    <3> QED BY <1>1, <3>1, <3>3, DialogGoOnStep DEF DialogStages
  <2>3. CASE t.st # "ok"
    <3>1. ui' = [ui EXCEPT !.creating = ui.creating \ {t.arg.id}] /\ Dialog!Finish(n)
      BY <1>5, <2>3, DialogState DEF Dialog!DeliverCreate, Dialog!Freed,
         Dialog!UiType
    <3>2. ui' \in Dialog!UiType /\ ui'.creating = ui.creating \ {t.arg.id}
      BY <3>1, DialogState DEF Dialog!UiType
    <3> QED BY <1>1, <2>1, <3>1, <3>2, DialogFinishStep
  <2> QED BY <2>2, <2>3
<1>6. CASE Dialog!DeliverRefresh(n)
  <2>1. t.op = "create" /\ Dialog!Finish(n)
    BY <1>1, <1>6 DEF Dialog!DeliverRefresh, DialogFits
  <2> DEFINE u == IF t.st = "ok" THEN [ui EXCEPT !.listed = t.ans] ELSE ui
  <2>2. u \in Dialog!UiType /\ u.creating = ui.creating
    BY <1>1, DialogState DEF Dialog!UiType, DialogFits
  <2>3. ui' = [u EXCEPT !.creating = @ \ {t.arg.id}]
    BY <1>6 DEF Dialog!DeliverRefresh, Dialog!Freed
  <2> HIDE DEF u
  <2>4. ui' \in Dialog!UiType /\ ui'.creating = ui.creating \ {t.arg.id}
    BY <2>2, <2>3 DEF Dialog!UiType
  <2> QED BY <1>1, <2>1, <2>4, DialogFinishStep
<1> QED BY <1>2, <1>3, <1>4, <1>5, <1>6 DEF Dialog!DeliverSlot

(* Every step of the dialog keeps its invariant.                           *)
LEMMA DialogNext ==
  Dialog!BoundsFit /\ Dialog!ConstantsFit /\ DialogInv
    /\ [Dialog!Next]_(Dialog!vars) => DialogInv'
<1> SUFFICES ASSUME Dialog!BoundsFit, Dialog!ConstantsFit, DialogInv,
                    [Dialog!Next]_(Dialog!vars)
             PROVE  DialogInv'
  OBVIOUS
<1>1. CASE UNCHANGED Dialog!vars
  BY <1>1, DialogState, DialogTabStep DEF Dialog!vars
<1> QED BY <1>1, DialogClickStep, DialogServeStep, DialogDeliverStep DEF
   Dialog!Next

(* What the page's invariant says of the properties.                       *)
LEMMA DialogTells == DialogInv => Dialog!TypeOK /\ Dialog!OneTicketAtATime
  BY DEF DialogInv

-----------------------------------------------------------------------------
(* The query of a rule: the metric names are loaded once at a time.        *)

QueryArgs == [scope : Keys, request : Nat]
QueryTasks ==
  {t \in [op : {"none", "names"}, stage : {"none", "names"},
          st : {"idle", "sent", "ok", "failed"},
          arg : QueryArgs \cup {None}, ans : BOOLEAN \cup {None}] :
     /\ t.st # "idle" => t.arg \in QueryArgs
     /\ t.st \in {"ok", "failed"} => t.ans \in BOOLEAN}

(* While a load waits, it is the only one and the editor says it loads.    *)
LoadKnown ==
  \A m, n \in Slots : net[m].st # "idle" /\ net[n].st # "idle"
                        => m = n /\ ui.namesLoading
QueryInv == Query!TypeOK /\ net \in [Slots -> QueryTasks] /\ LoadKnown

(* The handlers of the query builder are typed.                            *)
LEMMA QueryTaskTypes ==
  /\ Query!NoTask \in QueryTasks /\ Query!NoTask.st = "idle"
  /\ \A arg \in QueryArgs :
       /\ Query!Task("names", "names", arg) \in QueryTasks
       /\ Query!Task("names", "names", arg).st = "sent"
  BY DEF QueryTasks, Query!NoTask, Query!Task

(***************************************************************************)
(* Steps by what they do to the loads: none, the first, the last.          *)
(***************************************************************************)
LEMMA QueryStays ==
  ASSUME QueryInv, ui' \in Query!UiType, srv' = srv, net' = net,
         ui'.namesLoading = ui.namesLoading
  PROVE  QueryInv'
  BY DEF QueryInv, Query!TypeOK, LoadKnown

(* A load of names begins in a slot that is free.                          *)
LEMMA QueryBegins ==
  ASSUME QueryInv, ~ui.namesLoading, ui' \in Query!UiType, ui'.namesLoading,
         srv' = srv, NEW arg \in QueryArgs,
         Query!Begin("names", "names", arg)
  PROVE  QueryInv'
<1>1. PICK i : net' = [net EXCEPT ![i] = Query!Task("names", "names", arg)]
  BY DEF Query!Begin
<1>2. net' \in [Slots -> QueryTasks]
  BY <1>1, QueryTaskTypes DEF QueryInv
<1>3. \A n \in Slots : net'[n].st # "idle" => n = i
  BY <1>1 DEF QueryInv, LoadKnown
<1> QED BY <1>2, <1>3 DEF QueryInv, Query!TypeOK, LoadKnown

(* A load of names goes on, or its slot is freed.                          *)
LEMMA QueryGoesOn ==
  ASSUME QueryInv, NEW n \in Slots, net[n].st # "idle",
         ui' \in Query!UiType, srv' = srv, NEW t \in QueryTasks,
         t.st # "idle" => ui'.namesLoading,
         net' = [net EXCEPT ![n] = t]
  PROVE  QueryInv'
<1>1. net' \in [Slots -> QueryTasks]
  BY DEF QueryInv
<1>2. \A m \in Slots : net'[m].st # "idle" => m = n /\ t.st # "idle"
  BY DEF QueryInv, LoadKnown
<1> QED BY <1>1, <1>2 DEF QueryInv, Query!TypeOK, LoadKnown

(***************************************************************************)
(* What the effects of the editor make of its state.                       *)
(***************************************************************************)
LEMMA PreviewAgainType ==
  ASSUME NEW u \in Query!UiType, ui \in Query!UiType
  PROVE  /\ Query!PreviewAgain(u) \in Query!UiType
         /\ Query!PreviewAgain(u).starts = u.starts
         /\ Query!PreviewAgain(u).namesLoading = u.namesLoading
<1> DEFINE late == IF u.preview = "ok" THEN ui.expr ELSE u.late
           v == [u EXCEPT !.late = late]
<1>1. late \in Query!Maybe(Query!Texts)
  BY DEF Query!UiType, Query!Maybe
<1>2. \/ Query!PreviewAgain(u) = [v EXCEPT !.preview = "due"]
      \/ Query!PreviewAgain(u) = [v EXCEPT !.preview = "idle", !.shown = None,
                                           !.previewing = FALSE]
  BY DEF Query!PreviewAgain
<1> HIDE DEF late
<1>3. /\ v \in Query!UiType
      /\ v.starts = u.starts /\ v.namesLoading = u.namesLoading
  BY <1>1 DEF Query!UiType
<1> HIDE DEF v
<1>4. CASE Query!PreviewAgain(u) = [v EXCEPT !.preview = "due"]
  BY <1>3, <1>4 DEF Query!UiType
<1>5. CASE Query!PreviewAgain(u) = [v EXCEPT !.preview = "idle", !.shown = None,
                                             !.previewing = FALSE]
  BY <1>3, <1>5 DEF Query!UiType, Query!Maybe
<1> QED BY <1>2, <1>4, <1>5

(* What is read for a label and its values leaves the page typed.          *)
LEMMA ReadsTypes ==
  ASSUME NEW u \in Query!UiType
  PROVE  /\ Query!ReadLabels(u) \in Query!UiType
         /\ Query!ReadLabels(u).starts = u.starts
         /\ Query!ReadLabels(u).namesLoading = u.namesLoading
         /\ Query!ReadValues(u) \in Query!UiType
         /\ Query!ReadValues(u).starts = u.starts
         /\ Query!ReadValues(u).namesLoading = u.namesLoading
<1> DEFINE labels == u.mode = "promql" /\ u.labels = None
           values == /\ u.mode = "promql" /\ u.context = "labelValue"
                     /\ u.values = None
<1>1. labels \in BOOLEAN /\ values \in BOOLEAN
  OBVIOUS
<1>2. /\ Query!ReadLabels(u) = [u EXCEPT !.labelsRead = labels]
      /\ Query!ReadValues(u) = [u EXCEPT !.valuesRead = values]
  BY Zenon DEF Query!ReadLabels, Query!ReadValues
<1> HIDE DEF labels, values
<1> QED BY <1>1, <1>2 DEF Query!UiType

(* The text is written anew from the rows.                                 *)
LEMMA ComposedType ==
  ASSUME NEW u \in Query!UiType
  PROVE  /\ Query!Composed(u) \in Query!UiType
         /\ Query!Composed(u).starts = u.starts
         /\ Query!Composed(u).namesLoading = u.namesLoading
<1>1. Query!Composite(u) \in Query!Texts
  BY DEF Query!Composite, Query!UiType, Query!Texts
<1> QED BY <1>1 DEF Query!Composed, Query!UiType

(* What a load of names sets before it waits.                              *)
LEMMA BeginNamesType ==
  ASSUME NEW u \in Query!UiType
  PROVE  /\ Query!BeginNames(u) \in Query!UiType
         /\ Query!BeginNames(u).starts = u.starts
         /\ Query!BeginNames(u).namesLoading
         /\ Query!NamesArg(u) \in QueryArgs
<1>1. u.request + 1 \in Nat /\ u.scope \in Keys
  BY DEF Query!UiType
<1>2. Query!NamesArg(u) \in QueryArgs
  BY <1>1 DEF Query!NamesArg, QueryArgs
<1> QED BY <1>1, <1>2 DEF Query!BeginNames, Query!UiType

(* An edit of the builder keeps the page typed.                            *)
LEMMA QueryEditKeeps ==
  ASSUME Query!BoundsFit, QueryInv, NEW u \in Query!UiType,
         u.starts = ui.starts, u.namesLoading = ui.namesLoading, Query!Edit(u)
  PROVE  QueryInv'
<1> DEFINE v == [u EXCEPT !.starts = @ + 1]
<1>1. v \in Query!UiType /\ v.namesLoading = ui.namesLoading
  BY DEF Query!Edit, Query!UiType, Query!BoundsFit
<1>2. /\ srv' = srv
      /\ \/ /\ Query!LoadsNames(v) /\ ui' = Query!BeginNames(v)
            /\ Query!Begin("names", "names", Query!NamesArg(v))
         \/ ui' = v /\ net' = net
  BY DEF Query!Edit
<1> HIDE DEF v
<1>3. CASE /\ Query!LoadsNames(v) /\ ui' = Query!BeginNames(v)
           /\ Query!Begin("names", "names", Query!NamesArg(v))
  <2>1. ~ui.namesLoading
    BY <1>1, <1>3 DEF Query!LoadsNames
  <2> QED BY <1>1, <1>2, <1>3, <2>1, BeginNamesType, QueryBegins
<1>4. CASE ui' = v /\ net' = net
  BY <1>1, <1>2, <1>4, QueryStays
<1> QED BY <1>2, <1>3, <1>4

(***************************************************************************)
(* The rows of the builder.                                                *)
(***************************************************************************)
LEMMA RowsTypes ==
  ASSUME NEW rows
  PROVE  rows \in Query!BoundedSeq(Query!Rows, MaxRows)
           <=> \E m \in 0..MaxRows : rows \in [1..m -> Query!Rows]
  BY DEF Query!BoundedSeq

(* The rows are sequences of a bounded length.                             *)
LEMMA RowsAreSeqs ==
  ASSUME Query!ConstantsFit, NEW rows
  PROVE  rows \in Query!BoundedSeq(Query!Rows, MaxRows)
           <=> rows \in Seq(Query!Rows) /\ Len(rows) <= MaxRows
<1>1. ASSUME rows \in Query!BoundedSeq(Query!Rows, MaxRows)
      PROVE  rows \in Seq(Query!Rows) /\ Len(rows) <= MaxRows
  <2>1. PICK m \in 0..MaxRows : rows \in [1..m -> Query!Rows]
    BY <1>1, RowsTypes
  <2> QED BY <2>1 DEF Query!ConstantsFit
<1>2. ASSUME rows \in Seq(Query!Rows), Len(rows) <= MaxRows
      PROVE  rows \in Query!BoundedSeq(Query!Rows, MaxRows)
  <2>1. Len(rows) \in 0..MaxRows /\ rows \in [1..Len(rows) -> Query!Rows]
    BY <1>2 DEF Query!ConstantsFit
  <2> QED BY <2>1, RowsTypes
<1> QED BY <1>1, <1>2

(* A row changed or taken out leaves rows within the bound.                *)
LEMMA RowChanges ==
  ASSUME Query!ConstantsFit, NEW rows \in Query!BoundedSeq(Query!Rows, MaxRows)
  PROVE  /\ \A i, row : row \in Query!Rows =>
              [rows EXCEPT ![i] = row] \in Query!BoundedSeq(Query!Rows, MaxRows)
         /\ Len(rows) < MaxRows =>
              Append(rows, "blank") \in Query!BoundedSeq(Query!Rows, MaxRows)
         /\ <<"blank">> \in Query!BoundedSeq(Query!Rows, MaxRows)
         /\ \A i \in DOMAIN rows :
              Query!RemoveAt(rows, i) \in Query!BoundedSeq(Query!Rows, MaxRows)
<1>1. rows \in Seq(Query!Rows) /\ Len(rows) <= MaxRows /\ "blank" \in Query!Rows
  BY RowsAreSeqs DEF Query!Rows
<1>2. ASSUME NEW i, NEW row \in Query!Rows
      PROVE  [rows EXCEPT ![i] = row] \in Query!BoundedSeq(Query!Rows, MaxRows)
  <2>1. PICK m \in 0..MaxRows : rows \in [1..m -> Query!Rows]
    BY RowsTypes
  <2>2. [rows EXCEPT ![i] = row] \in [1..m -> Query!Rows]
    BY <2>1
  <2> QED BY <2>2, RowsTypes
<1>3. Len(rows) < MaxRows =>
        Append(rows, "blank") \in Query!BoundedSeq(Query!Rows, MaxRows)
  <2> DEFINE longer == Append(rows, "blank")
  <2>1. longer \in Seq(Query!Rows) /\ Len(longer) = Len(rows) + 1
    BY <1>1
  <2> HIDE DEF longer
  <2>2. Len(rows) < MaxRows => Len(longer) <= MaxRows
    BY <1>1, <2>1 DEF Query!ConstantsFit
  <2>3. Len(rows) < MaxRows
          => longer \in Query!BoundedSeq(Query!Rows, MaxRows)
    BY <2>1, <2>2, RowsAreSeqs
  <2> QED BY <2>3 DEF longer
<1>4. <<"blank">> \in Query!BoundedSeq(Query!Rows, MaxRows)
  <2> DEFINE one == <<"blank">>
  <2>1. one \in Seq(Query!Rows) /\ Len(one) = 1
    BY <1>1
  <2> HIDE DEF one
  <2>2. 1 <= MaxRows
    BY DEF Query!ConstantsFit
  <2>3. one \in Query!BoundedSeq(Query!Rows, MaxRows)
    BY <2>1, <2>2, RowsAreSeqs
  <2> QED BY <2>3 DEF one
<1>5. ASSUME NEW i \in DOMAIN rows
      PROVE  Query!RemoveAt(rows, i) \in Query!BoundedSeq(Query!Rows, MaxRows)
  <2> DEFINE before == SubSeq(rows, 1, i - 1)
             after == SubSeq(rows, i + 1, Len(rows))
  <2>1. i \in 1..Len(rows)
    BY <1>1
  <2>2. before \in Seq(Query!Rows) /\ Len(before) = i - 1
    BY <1>1, <2>1
  <2>3. after \in Seq(Query!Rows) /\ Len(after) = Len(rows) - i
    BY <1>1, <2>1
  <2>4. Query!RemoveAt(rows, i) = before \o after
    BY DEF Query!RemoveAt
  <2> HIDE DEF before, after
  <2>5. before \o after \in Seq(Query!Rows) /\ Len(before \o after) = Len(rows) - 1
    BY <1>1, <2>1, <2>2, <2>3
  <2>6. Len(before \o after) <= MaxRows
    BY <1>1, <2>5 DEF Query!ConstantsFit
  <2> QED BY <2>4, <2>5, <2>6, RowsAreSeqs
<1> QED BY <1>2, <1>3, <1>4, <1>5

(***************************************************************************)
(* The clicks, the answers and the page itself.                            *)
(***************************************************************************)
LEMMA QueryInitInv ==
  Query!BoundsFit /\ Query!ConstantsFit /\ Query!Init => QueryInv
<1> SUFFICES ASSUME Query!BoundsFit, Query!ConstantsFit, Query!Init
             PROVE  QueryInv
  OBVIOUS
<1>1. PICK scope \in Keys : ui = Query!Fresh(scope)
  BY DEF Query!Init
<1> DEFINE one == <<"blank">>
<1>2. one \in Query!BoundedSeq(Query!Rows, MaxRows)
  <2>1. one \in [1..1 -> Query!Rows] /\ 1 \in 0..MaxRows
    BY DEF Query!Rows, Query!ConstantsFit
  <2> QED BY <2>1, RowsTypes
<1>3. ui = [mode |-> "promql", expr |-> "short", context |-> "metric",
            scope |-> scope, rows |-> one, names |-> None,
            namesLoading |-> TRUE, namesError |-> FALSE, request |-> 1,
            labels |-> None, labelsRead |-> TRUE, values |-> None,
            valuesRead |-> FALSE, shown |-> None, previewing |-> FALSE,
            preview |-> "idle", late |-> None, starts |-> 0]
  BY <1>1 DEF Query!Fresh
<1> HIDE DEF one
<1>4. ui \in Query!UiType
  BY <1>2, <1>3 DEF Query!UiType, Query!Texts, Query!Contexts, Query!Maybe,
     Query!BoundsFit
<1>5. [scope |-> ui.scope, request |-> 1] \in QueryArgs
  BY <1>4 DEF QueryArgs, Query!UiType
<1>6. /\ net \in [Slots -> QueryTasks]
      /\ \A n \in Slots : net[n].st # "idle" => n = 1
  BY <1>5, QueryTaskTypes DEF Query!Init, Query!Quiet
<1> QED BY <1>3, <1>4, <1>6
        DEF QueryInv, Query!TypeOK, Query!SrvType, LoadKnown, Query!Init

(* What the user clicks and types in the builder.                          *)
LEMMA QueryClicks ==
  ASSUME Query!BoundsFit, Query!ConstantsFit, QueryInv, Query!Clicks
  PROVE  QueryInv'
<1>1. ui \in Query!UiType
  BY DEF QueryInv, Query!TypeOK
<1>2. ASSUME NEW e \in Query!Texts, NEW c \in Query!Contexts,
             Query!SetExpr(e, c)
      PROVE  QueryInv'
  <2> DEFINE u == [ui EXCEPT !.expr = e, !.context = c]
             v == Query!PreviewAgain(Query!ReadValues(u))
  <2>1. u \in Query!UiType
        /\ u.starts = ui.starts /\ u.namesLoading = ui.namesLoading
    BY <1>1 DEF Query!UiType
  <2>2. Query!Edit(v)
    BY <1>2 DEF Query!SetExpr
  <2> HIDE DEF u
  <2>3. v \in Query!UiType
        /\ v.starts = ui.starts /\ v.namesLoading = ui.namesLoading
    BY <1>1, <2>1, ReadsTypes, PreviewAgainType
  <2> HIDE DEF v
  <2> QED BY <2>2, <2>3, QueryEditKeeps
<1>3. ASSUME NEW rows \in Query!BoundedSeq(Query!Rows, MaxRows)
      PROVE  /\ [ui EXCEPT !.rows = rows] \in Query!UiType
             /\ [ui EXCEPT !.rows = rows].starts = ui.starts
             /\ [ui EXCEPT !.rows = rows].namesLoading = ui.namesLoading
  BY <1>1 DEF Query!UiType
<1>4. ui.rows \in Query!BoundedSeq(Query!Rows, MaxRows)
  BY <1>1 DEF Query!UiType
<1>5. ASSUME NEW s \in Keys, Query!ChooseScope(s) PROVE QueryInv'
  <2> DEFINE u == [ui EXCEPT !.scope = s]
             v == Query!PreviewAgain(Query!ReadValues(Query!ReadLabels(u)))
  <2>1. u \in Query!UiType
        /\ u.starts = ui.starts /\ u.namesLoading = ui.namesLoading
    BY <1>1 DEF Query!UiType
  <2>2. Query!Edit(v)
    BY <1>5 DEF Query!ChooseScope
  <2> HIDE DEF u
  <2>3. v \in Query!UiType
        /\ v.starts = ui.starts /\ v.namesLoading = ui.namesLoading
    BY <1>1, <2>1, ReadsTypes, PreviewAgainType
  <2> HIDE DEF v
  <2> QED BY <2>2, <2>3, QueryEditKeeps
<1>6. ASSUME NEW mode \in {"promql", "builder"}, Query!SetMode(mode)
      PROVE  QueryInv'
  <2> DEFINE u == [ui EXCEPT !.mode = mode]
             v == Query!PreviewAgain(Query!ReadValues(Query!ReadLabels(
                                                       Query!Composed(u))))
  <2>1. u \in Query!UiType
        /\ u.starts = ui.starts /\ u.namesLoading = ui.namesLoading
    BY <1>1 DEF Query!UiType
  <2>2. Query!Edit(v)
    BY <1>6 DEF Query!SetMode
  <2> HIDE DEF u
  <2>3. v \in Query!UiType
        /\ v.starts = ui.starts /\ v.namesLoading = ui.namesLoading
    BY <1>1, <2>1, ComposedType, ReadsTypes, PreviewAgainType
  <2> HIDE DEF v
  <2> QED BY <2>2, <2>3, QueryEditKeeps
<1>7. CASE \E e \in {"short", "one", "two"}, c \in Query!Contexts :
             Query!TypeExpr(e, c)
  BY <1>2, <1>7 DEF Query!TypeExpr, Query!Texts
<1>8. CASE \E e \in {"one", "two"} : Query!ApplySuggestion(e)
  BY <1>1, <1>2, <1>8
     DEF Query!ApplySuggestion, Query!Texts, Query!Contexts, Query!UiType
<1>9. CASE Query!PickMetric
  <2>1. CASE Query!SetExpr("two", "metric")
    BY <1>2, <2>1 DEF Query!Texts, Query!Contexts
  <2>2. CASE \E to \in {"complete", "metric"} :
               Query!Edit([ui EXCEPT !.rows[Query!BlankRow] = to])
    <3>1. PICK to \in {"complete", "metric"} :
            Query!Edit([ui EXCEPT !.rows[Query!BlankRow] = to])
      BY <2>2
    <3> DEFINE rows == [ui.rows EXCEPT ![Query!BlankRow] = to]
    <3>2. rows \in Query!BoundedSeq(Query!Rows, MaxRows)
      BY <1>4, RowChanges DEF Query!Rows
    <3>3. Query!Edit([ui EXCEPT !.rows = rows])
      BY <3>1
    <3> HIDE DEF rows
    <3> QED BY <1>3, <3>2, <3>3, QueryEditKeeps
  <2> QED BY <1>9, <2>1, <2>2 DEF Query!PickMetric
<1>10. CASE Query!RefreshNames
  <2> DEFINE u == Query!BeginNames(ui)
  <2>1. u \in Query!UiType /\ u.starts = ui.starts /\ u.namesLoading
    BY <1>1, BeginNamesType
  <2>2. /\ ui' = [u EXCEPT !.starts = @ + 1] /\ srv' = srv
        /\ ui.starts < MaxStarts /\ ~ui.namesLoading
        /\ Query!Begin("names", "names", Query!NamesArg(ui))
    BY <1>10 DEF Query!RefreshNames
  <2> HIDE DEF u
  <2>3. ui' \in Query!UiType /\ ui'.namesLoading
    BY <2>1, <2>2 DEF Query!UiType, Query!BoundsFit
  <2> QED BY <1>1, <2>2, <2>3, BeginNamesType, QueryBegins
<1>11. CASE Query!AddRow
  <2> DEFINE rows == Append(ui.rows, "blank")
  <2>1. rows \in Query!BoundedSeq(Query!Rows, MaxRows)
    BY <1>4, <1>11, RowChanges DEF Query!AddRow
  <2>2. Query!Edit([ui EXCEPT !.rows = rows])
    BY <1>11 DEF Query!AddRow
  <2> HIDE DEF rows
  <2> QED BY <1>3, <2>1, <2>2, QueryEditKeeps
<1>12. ASSUME NEW i, NEW row \in Query!Rows, Query!UpdateRow(i, row)
       PROVE  QueryInv'
  <2> DEFINE rows == [ui.rows EXCEPT ![i] = row]
             u == [ui EXCEPT !.rows = rows]
  <2>1. rows \in Query!BoundedSeq(Query!Rows, MaxRows)
    BY <1>4, RowChanges
  <2>2. Query!Edit(Query!Composed(u))
    BY <1>12 DEF Query!UpdateRow
  <2> HIDE DEF rows
  <2>3. u \in Query!UiType
        /\ u.starts = ui.starts /\ u.namesLoading = ui.namesLoading
    BY <1>3, <2>1
  <2> HIDE DEF u
  <2> QED BY <2>2, <2>3, ComposedType, QueryEditKeeps
<1>13. ASSUME NEW i, Query!RemoveRow(i) PROVE QueryInv'
  <2> DEFINE rows == IF Len(ui.rows) = 1 THEN <<"blank">>
                     ELSE Query!RemoveAt(ui.rows, i)
             u == [ui EXCEPT !.rows = rows]
  <2>1. rows \in Query!BoundedSeq(Query!Rows, MaxRows)
    BY <1>4, <1>13, RowChanges DEF Query!RemoveRow
  <2>2. Query!Edit(Query!Composed(u))
    BY <1>13 DEF Query!RemoveRow
  <2> HIDE DEF rows
  <2>3. u \in Query!UiType
        /\ u.starts = ui.starts /\ u.namesLoading = ui.namesLoading
    BY <1>3, <2>1
  <2> HIDE DEF u
  <2> QED BY <2>2, <2>3, ComposedType, QueryEditKeeps
<1> QED BY <1>5, <1>6, <1>7, <1>8, <1>9, <1>10, <1>11, <1>12, <1>13
        DEF Query!Clicks

(* What is read for the rows comes, and the preview.                       *)
LEMMA QueryReads ==
  ASSUME QueryInv, Query!Reads
  PROVE  QueryInv'
<1>1. ui \in Query!UiType
  BY DEF QueryInv, Query!TypeOK
<1>2. srv' = srv /\ net' = net
  BY DEF Query!Reads, Query!DeliverLabels, Query!DeliverValues,
     Query!EvaluateDue, Query!Evaluate, Query!ShowPreview, Query!ShowLate
<1>3. CASE Query!DeliverLabels
  BY <1>1, <1>2, <1>3, QueryStays
     DEF Query!DeliverLabels, Query!UiType, Query!Maybe
<1>4. CASE Query!DeliverValues
  BY <1>1, <1>2, <1>4, QueryStays
     DEF Query!DeliverValues, Query!UiType, Query!Maybe
<1>5. CASE Query!EvaluateDue \/ Query!Evaluate
  BY <1>1, <1>2, <1>5, QueryStays
     DEF Query!EvaluateDue, Query!Evaluate, Query!UiType
<1>6. CASE Query!ShowPreview \/ Query!ShowLate
  BY <1>1, <1>2, <1>6, QueryStays
     DEF Query!ShowPreview, Query!ShowLate, Query!UiType, Query!Maybe
<1> QED BY <1>3, <1>4, <1>5, <1>6 DEF Query!Reads

(* The names are answered, or their request fails.                         *)
LEMMA QueryServes ==
  ASSUME QueryInv, NEW n \in Slots, Query!ServeNames(n)
  PROVE  QueryInv'
<1>1. PICK st \in {"ok", "failed"} :
        Query!Reply(n, st, srv[net[n].arg.scope])
  BY DEF Query!ServeNames
<1> DEFINE ans == srv[net[n].arg.scope]
           t == [net[n] EXCEPT !.st = st, !.ans = ans]
<1>2. net[n] \in QueryTasks /\ net[n].st = "sent" /\ ui' = ui /\ srv' = srv
  BY DEF QueryInv, Query!ServeNames, Query!Waiting
<1>3. ans \in BOOLEAN
  BY <1>2 DEF QueryInv, Query!TypeOK, Query!SrvType, QueryTasks, QueryArgs
<1>4. ui.namesLoading
  BY <1>2 DEF QueryInv, LoadKnown
<1>5. net' = [net EXCEPT ![n] = t]
  BY <1>1 DEF Query!Reply
<1> HIDE DEF ans
<1>6. t \in QueryTasks
  BY <1>2, <1>3 DEF QueryTasks
<1> HIDE DEF t
<1> QED BY <1>2, <1>4, <1>5, <1>6, QueryGoesOn
        DEF QueryInv, Query!TypeOK

(* The answered names are shown, and the next load may begin.              *)
LEMMA QueryDelivers ==
  ASSUME QueryInv, NEW n \in Slots, Query!DeliverNames(n)
  PROVE  QueryInv'
<1> DEFINE t == net[n]
           names == IF t.st = "ok" /\ t.ans THEN t.arg.scope ELSE None
           failed == t.st = "failed"
           v == [ui EXCEPT !.names = names, !.namesError = failed,
                           !.namesLoading = FALSE]
           again == [Query!BeginNames(v) EXCEPT !.request = ui.request]
           next == Query!Task(t.op, "names", [t.arg EXCEPT !.scope = ui.scope])
<1>1. /\ t \in QueryTasks /\ t.st \in {"ok", "failed"} /\ t.arg \in QueryArgs
      /\ ui \in Query!UiType /\ srv' = srv
  BY DEF QueryInv, Query!TypeOK, Query!DeliverNames, Query!Back, QueryTasks
<1>2. names \in Query!Maybe(Keys) /\ failed \in BOOLEAN
  BY <1>1 DEF QueryArgs, Query!Maybe
<1>3. \/ ui' = ui /\ Query!Finish(n)
      \/ ui' = v /\ Query!Finish(n)
      \/ ui' = again /\ net' = [net EXCEPT ![n] = next]
  <2>1. v = [ui EXCEPT !.names = IF t.st = "ok" /\ t.ans THEN t.arg.scope
                                 ELSE None,
                       !.namesError = t.st = "failed", !.namesLoading = FALSE]
    BY Zenon
  <2> HIDE DEF v, names, failed
  <2> QED BY <2>1 DEF Query!DeliverNames, Query!Continue
<1> HIDE DEF names, failed
<1>4. v \in Query!UiType
  BY <1>1, <1>2 DEF Query!UiType
<1> HIDE DEF v
<1>5. again \in Query!UiType /\ again.namesLoading
  <2> DEFINE b == Query!BeginNames(v)
  <2>1. b \in Query!UiType /\ b.namesLoading /\ ui.request \in Nat
    BY <1>1, <1>4, BeginNamesType DEF Query!UiType
  <2> HIDE DEF b
  <2>2. [b EXCEPT !.request = ui.request] \in Query!UiType
        /\ [b EXCEPT !.request = ui.request].namesLoading
    BY <2>1 DEF Query!UiType
  <2> QED BY <2>2 DEF b
<1>6. t.op \in {"none", "names"} /\ [t.arg EXCEPT !.scope = ui.scope] \in QueryArgs
  BY <1>1 DEF QueryTasks, QueryArgs, Query!UiType
<1>7. next \in QueryTasks
  BY <1>6 DEF QueryTasks, Query!Task
<1>8. Query!Finish(n) => net' = [net EXCEPT ![n] = Query!NoTask]
  BY DEF Query!Finish
<1> HIDE DEF again, next
<1> QED BY <1>1, <1>3, <1>4, <1>5, <1>7, <1>8, QueryTaskTypes, QueryGoesOn

(* Every step of the builder keeps its invariant.                          *)
LEMMA QueryNext ==
  Query!BoundsFit /\ Query!ConstantsFit /\ QueryInv
    /\ [Query!Next]_(Query!vars) => QueryInv'
<1> SUFFICES ASSUME Query!BoundsFit, Query!ConstantsFit, QueryInv,
                    [Query!Next]_(Query!vars)
             PROVE  QueryInv'
  OBVIOUS
<1>1. CASE UNCHANGED Query!vars
  BY <1>1, QueryStays DEF Query!vars, QueryInv, Query!TypeOK
<1> QED BY <1>1, QueryClicks, QueryReads, QueryServes, QueryDelivers
        DEF Query!Next

(***************************************************************************)
(* So there never are two loads of the metric names.                       *)
(***************************************************************************)
LEMMA QueryTells == QueryInv => Query!TypeOK /\ Query!OneNamesLoad
  BY DEF QueryInv, LoadKnown, Query!OneNamesLoad
-----------------------------------------------------------------------------
(* The orders of cards.                                                    *)

(***************************************************************************)
(* A finite set of numbers has an i-th element for each i up to its size.  *)
(***************************************************************************)
LEMMA NthExists ==
  ASSUME NEW S \in SUBSET Nat, IsFiniteSet(S)
  PROVE  /\ Cardinality(S) \in Nat
         /\ \A i \in 1..Cardinality(S) :
              \E n \in S : Cardinality({m \in S : m <= n}) = i
<1> DEFINE upTo(n) == {m \in S : m <= n}
           rank == [n \in S |-> Cardinality(upTo(n))]
<1>1. Cardinality(S) \in Nat
  BY FS_CardinalityType
<1>2. ASSUME NEW n \in S PROVE rank[n] \in 1..Cardinality(S)
  <2>1. upTo(n) \in SUBSET S /\ n \in upTo(n) /\ upTo(n) # {}
    OBVIOUS
  <2> HIDE DEF upTo
  <2>2. IsFiniteSet(upTo(n)) /\ Cardinality(upTo(n)) <= Cardinality(S)
    BY <2>1, FS_Subset
  <2>3. Cardinality(upTo(n)) \in Nat
    BY <2>2, FS_CardinalityType
  <2>4. Cardinality(upTo(n)) # 0
    BY <2>1, <2>2, FS_EmptySet
  <2> QED BY <1>1, <2>2, <2>3, <2>4
<1>3. ASSUME NEW m \in S, NEW n \in S, m < n PROVE rank[m] # rank[n]
  <2>1. upTo(n) \in SUBSET S /\ upTo(m) \in SUBSET upTo(n)
    <3>1. \A x \in S : x <= m => x <= n
      BY <1>3
    <3> QED BY <3>1
  <2>2. n \in upTo(n) /\ n \notin upTo(m)
    BY <1>3
  <2> HIDE DEF upTo
  <2>3. IsFiniteSet(upTo(n)) /\ upTo(m) # upTo(n)
    BY <2>1, <2>2, FS_Subset
  <2>4. Cardinality(upTo(n)) # Cardinality(upTo(m))
    BY <2>1, <2>3, FS_Subset
  <2> QED BY <2>4
<1>4. \A m, n \in S : rank[m] = rank[n] => m = n
  BY <1>3
<1>5. rank \in Injection(S, 1..Cardinality(S))
  <2>1. rank \in [S -> 1..Cardinality(S)]
    BY <1>2
  <2> HIDE DEF rank
  <2> QED BY <1>4, <2>1 DEF Injection, IsInjective
<1>6. /\ IsFiniteSet(1..Cardinality(S))
      /\ Cardinality(1..Cardinality(S)) = Cardinality(S)
  BY <1>1, FS_Interval
<1> HIDE DEF rank
<1>7. rank \in Surjection(S, 1..Cardinality(S))
  BY <1>5, <1>6, FS_Injection
<1>8. \A i \in 1..Cardinality(S) : \E n \in S : rank[n] = i
  BY <1>7 DEF Surjection
<1> QED BY <1>1, <1>8 DEF rank

(***************************************************************************)
(* What is kept of an order is listed, and kept once.                      *)
(***************************************************************************)
LEMMA KeptFits ==
  ASSUME NEW All, NEW order \in Seq(All), NEW listed
  PROVE  /\ Kept(order, listed) \in Seq(listed)
         /\ IsInjective(Kept(order, listed))
<1> DEFINE firsts == {n \in DOMAIN order :
                        /\ order[n] \in listed
                        /\ \A m \in DOMAIN order :
                             order[m] = order[n] => n <= m}
           nth(i) == CHOOSE n \in firsts :
                       Cardinality({m \in firsts : m <= n}) = i
           kept == [i \in 1..Cardinality(firsts) |-> order[nth(i)]]
<1>1. Kept(order, listed) = kept
  BY DEF Kept
<1>2. firsts \in SUBSET Nat /\ firsts \in SUBSET (1..Len(order))
  OBVIOUS
<1>3. /\ \A n \in firsts : order[n] \in listed
      /\ \A m, n \in firsts : order[m] = order[n] => m = n
  BY <1>2
<1> HIDE DEF firsts
<1>4. IsFiniteSet(firsts)
  <2>1. IsFiniteSet(1..Len(order))
    BY FS_Interval
  <2> QED BY <1>2, <2>1, FS_Subset
<1>5. Cardinality(firsts) \in Nat
  BY <1>2, <1>4, NthExists
<1>6. \A i \in 1..Cardinality(firsts) :
        /\ nth(i) \in firsts
        /\ Cardinality({m \in firsts : m <= nth(i)}) = i
  BY <1>2, <1>4, NthExists
<1> HIDE DEF nth
<1>7. kept \in Seq(listed)
  <2>1. kept \in [1..Cardinality(firsts) -> listed]
    BY <1>3, <1>6
  <2> HIDE DEF kept
  <2> QED BY <1>5, <2>1
<1>8. \A i, j \in 1..Cardinality(firsts) : nth(i) = nth(j) => i = j
  BY <1>6
<1>9. \A i, j \in DOMAIN kept : kept[i] = kept[j] => i = j
  BY <1>3, <1>6, <1>8
<1> HIDE DEF kept
<1> QED BY <1>1, <1>7, <1>9 DEF IsInjective

(***************************************************************************)
(* A finite set can be listed.                                             *)
(***************************************************************************)
LEMMA SetToSeqFits ==
  ASSUME NEW S, IsFiniteSet(S)
  PROVE  SetToSeq(S) \in Seq(S) /\ Fits(SetToSeq(S), S)
<1> DEFINE n == Cardinality(S)
<1>1. n \in Nat /\ ExistsBijection(1..n, S)
  BY FS_CardinalityType
<1>2. PICK f \in Bijection(1..n, S) : TRUE
  BY <1>1 DEF ExistsBijection
<1>3. \E g \in [1..n -> S] : IsInjective(g)
  BY <1>2 DEF Bijection, Injection
<1>4. SetToSeq(S) \in [1..n -> S] /\ IsInjective(SetToSeq(S))
  BY <1>3 DEF SetToSeq
<1>5. SetToSeq(S) \in Injection(1..n, S)
  BY <1>4 DEF Injection, IsInjective
<1>6. IsFiniteSet(1..n) /\ Cardinality(1..n) = n
  BY <1>1, FS_Interval
<1>7. SetToSeq(S) \in Surjection(1..n, S)
  BY <1>5, <1>6, FS_Injection
<1>8. Range(SetToSeq(S)) = S
  BY <1>4, <1>7 DEF Range, Surjection
<1> QED BY <1>1, <1>4, <1>8 DEF Fits

(***************************************************************************)
(* An order put right fits what is listed, whatever it was before.         *)
(***************************************************************************)
LEMMA NormalizedFits ==
  ASSUME NEW All, NEW order \in Seq(All), NEW listed, IsFiniteSet(listed)
  PROVE  /\ NormalizedOrder(order, listed) \in Seq(listed)
         /\ Fits(NormalizedOrder(order, listed), listed)
<1> DEFINE kept == Kept(order, listed)
           rest == listed \ Range(kept)
           new == SetToSeq(rest)
<1>1. kept \in Seq(listed) /\ IsInjective(kept)
  BY KeptFits
<1>2. IsFiniteSet(rest)
  BY FS_Difference
<1>3. new \in Seq(rest) /\ Range(new) = rest /\ IsInjective(new)
  BY <1>2, SetToSeqFits DEF Fits
<1>4. NormalizedOrder(order, listed) = kept \o new
  BY DEF NormalizedOrder
<1> HIDE DEF kept, new
<1>5. new \in Seq(listed)
  BY <1>3
<1>6. /\ kept \o new \in Seq(listed)
      /\ Len(kept \o new) = Len(kept) + Len(new)
      /\ \A i \in 1..Len(kept) : (kept \o new)[i] = kept[i]
      /\ \A i \in Len(kept) + 1 .. Len(kept) + Len(new) :
           (kept \o new)[i] = new[i - Len(kept)]
  BY <1>1, <1>5
<1>7. Range(kept \o new) = listed
  <2>1. Range(kept \o new) \subseteq listed
    BY <1>6 DEF Range
  <2>2. ASSUME NEW x \in listed PROVE x \in Range(kept \o new)
    <3>1. CASE x \in Range(kept)
      <4>1. PICK i \in 1..Len(kept) : kept[i] = x
        BY <1>1, <3>1 DEF Range
      <4> QED BY <1>1, <1>5, <1>6, <4>1 DEF Range
    <3>2. CASE x \in Range(new)
      <4>1. PICK i \in 1..Len(new) : new[i] = x
        BY <1>5, <3>2 DEF Range
      <4>2. /\ Len(kept) + i \in Len(kept) + 1 .. Len(kept) + Len(new)
            /\ (Len(kept) + i) - Len(kept) = i
            /\ Len(kept) + i \in 1..Len(kept \o new)
        BY <1>1, <1>5, <1>6, <4>1
      <4>3. (kept \o new)[Len(kept) + i] = x
        BY <1>6, <4>1, <4>2
      <4> QED BY <1>6, <4>2, <4>3 DEF Range
    <3> QED BY <1>3, <3>1, <3>2
  <2> QED BY <2>1, <2>2
<1>8. IsInjective(kept \o new)
  <2> SUFFICES ASSUME NEW i \in 1..Len(kept \o new),
                      NEW j \in 1..Len(kept \o new),
                      (kept \o new)[i] = (kept \o new)[j]
               PROVE  i = j
    BY <1>6 DEF IsInjective
  <2>1. /\ \A k \in 1..Len(kept) : kept[k] \in Range(kept)
        /\ \A k \in 1..Len(new) : new[k] \notin Range(kept)
    BY <1>1, <1>3 DEF Range
  <2>2. CASE i <= Len(kept) /\ j <= Len(kept)
    BY <1>1, <1>6, <2>2 DEF IsInjective
  <2>3. CASE i > Len(kept) /\ j > Len(kept)
    <3>1. i - Len(kept) \in 1..Len(new) /\ j - Len(kept) \in 1..Len(new)
      BY <1>1, <1>5, <1>6, <2>3
    <3>2. new[i - Len(kept)] = new[j - Len(kept)]
      BY <1>1, <1>5, <1>6, <2>3
    <3>3. i - Len(kept) = j - Len(kept)
      BY <1>3, <1>5, <3>1, <3>2 DEF IsInjective
    <3> QED BY <1>1, <3>3
  <2>4. ASSUME NEW k \in 1..Len(kept \o new), NEW l \in 1..Len(kept \o new),
               k <= Len(kept), l > Len(kept),
               (kept \o new)[k] = (kept \o new)[l]
        PROVE  FALSE
    <3>1. k \in 1..Len(kept) /\ l - Len(kept) \in 1..Len(new)
      BY <1>1, <1>5, <1>6, <2>4
    <3>2. kept[k] = new[l - Len(kept)]
      BY <1>1, <1>5, <1>6, <2>4, <3>1
    <3> QED BY <2>1, <3>1, <3>2
  <2> QED BY <1>1, <2>2, <2>3, <2>4
<1> QED BY <1>4, <1>6, <1>7, <1>8 DEF Fits

(* A set of numbers that has any has a smallest one, when it is finite.    *)
LEMMA LeastExists ==
  ASSUME NEW S \in SUBSET Nat, IsFiniteSet(S), S # {}
  PROVE  \E n \in S : \A m \in S : n <= m
<1>1. Cardinality(S) \in Nat /\ Cardinality(S) # 0
  BY FS_CardinalityType, FS_EmptySet
<1>2. PICK n \in S : Cardinality({m \in S : m <= n}) = 1
  BY <1>1, NthExists
<1>3. IsFiniteSet({m \in S : m <= n})
  BY FS_Subset
<1>4. PICK x : {m \in S : m <= n} = {x}
  BY <1>2, <1>3, FS_Singleton
<1> QED BY <1>4

(* A handler that begins takes a slot in which nothing is under way.       *)
LEMMA FirstFreeIsFree ==
  ASSUME Shares!BoundsFit
  PROVE  /\ Shares!Free # {} => /\ Shares!FirstFree \in Slots
                                /\ net[Shares!FirstFree].st = "idle"
         /\ Alerts!Free # {} => /\ Alerts!FirstFree \in Slots
                                /\ net[Alerts!FirstFree].st = "idle"
         /\ Board!Free # {} => /\ Board!FirstFree \in Slots
                               /\ net[Board!FirstFree].st = "idle"
<1> DEFINE free == {i \in Slots : net[i].st = "idle"}
           first == CHOOSE i \in free : \A j \in free : i <= j
<1>1. free \in SUBSET Nat /\ free \in SUBSET Slots
  BY DEF Shares!BoundsFit
<1>2. IsFiniteSet(Slots)
  BY DEF Shares!BoundsFit, Shares!IsFiniteSet, IsFiniteSet
<1>3. IsFiniteSet(free)
  BY <1>1, <1>2, FS_Subset
<1>4. \A i \in free : net[i].st = "idle"
  OBVIOUS
<1>5. Shares!Free = free /\ Alerts!Free = free /\ Board!Free = free
  BY DEF Shares!Free, Alerts!Free, Board!Free
<1> HIDE DEF free
<1>6. /\ Shares!FirstFree = first /\ Alerts!FirstFree = first
      /\ Board!FirstFree = first
  BY <1>5 DEF Shares!FirstFree, Alerts!FirstFree, Board!FirstFree
<1>7. free # {} => first \in free
  <2>1. free # {} => \E i \in free : \A j \in free : i <= j
    BY <1>1, <1>3, LeastExists
  <2> QED BY <2>1
<1> HIDE DEF first
<1> QED BY <1>1, <1>4, <1>5, <1>6, <1>7

(***************************************************************************)
(* What a concatenation has at each place.                                 *)
(***************************************************************************)
LEMMA Joined ==
  ASSUME NEW All, NEW a \in Seq(All), NEW b \in Seq(All)
  PROVE  /\ a \o b \in Seq(All) /\ Len(a \o b) = Len(a) + Len(b)
         /\ \A k \in 1..Len(a) : (a \o b)[k] = a[k]
         /\ \A k \in 1..Len(a) + Len(b) :
              k > Len(a) => (a \o b)[k] = b[k - Len(a)]
  OBVIOUS

(***************************************************************************)
(* Dragging a card rearranges the order: nothing is lost or doubled.       *)
(***************************************************************************)
LEMMA MovedFits ==
  ASSUME NEW All, NEW order \in Seq(All), IsInjective(order),
         NEW source \in Range(order), NEW target \in Range(order)
  PROVE  /\ Moved(order, source, target) \in Seq(All)
         /\ Fits(Moved(order, source, target), Range(order))
<1> DEFINE indexOf(id) == CHOOSE n \in DOMAIN order : order[n] = id
           s == indexOf(source)
           t == indexOf(target)
           L == Len(order)
           rest == RemoveAt(order, s)
           moved == InsertAt(rest, t, source)
           from(k) == IF k = t THEN s
                      ELSE IF k < t THEN IF k < s THEN k ELSE k + 1
                      ELSE IF k - 1 < s THEN k - 1 ELSE k
           to(j) == IF j = s THEN t
                    ELSE IF j < s THEN IF j < t THEN j ELSE j + 1
                    ELSE IF j - 1 < t THEN j - 1 ELSE j
<1>1. Moved(order, source, target) = moved
  BY DEF Moved
<1>2. s \in 1..L /\ order[s] = source
  BY DEF Range
<1>3. t \in 1..L
  BY DEF Range
<1> HIDE DEF indexOf, s, t
<1>4. /\ rest \in Seq(All) /\ Len(rest) = L - 1
      /\ \A k \in 1..L - 1 : rest[k] = IF k < s THEN order[k] ELSE order[k + 1]
  <2> DEFINE before == SubSeq(order, 1, s - 1)
             after == SubSeq(order, s + 1, L)
  <2>1. /\ before \in Seq(All) /\ Len(before) = s - 1
        /\ \A k \in 1..s - 1 : before[k] = order[k]
    BY <1>2
  <2>2. /\ after \in Seq(All) /\ Len(after) = L - s
        /\ \A k \in 1..L - s : after[k] = order[s + k]
    BY <1>2
  <2>3. rest = before \o after
    BY DEF RemoveAt
  <2> HIDE DEF before, after, rest
  <2>4. /\ rest \in Seq(All) /\ Len(rest) = L - 1
        /\ \A k \in 1..L - 1 :
             rest[k] = IF k <= s - 1 THEN before[k] ELSE after[k - (s - 1)]
    BY <1>2, <2>1, <2>2, <2>3
  <2>5. ASSUME NEW k \in 1..L - 1, k >= s PROVE after[k - (s - 1)] = order[k + 1]
    <3>1. k - (s - 1) \in 1..L - s /\ s + (k - (s - 1)) = k + 1
      BY <1>2, <2>5
    <3> QED BY <2>2, <3>1
  <2> QED BY <1>2, <2>1, <2>4, <2>5
<1>5. source \in All
  BY <1>2
<1> HIDE DEF rest
<1>6. /\ moved \in Seq(All) /\ Len(moved) = L
      /\ \A k \in 1..L : moved[k] = IF k < t THEN rest[k]
                                    ELSE IF k = t THEN source ELSE rest[k - 1]
  <2> DEFINE before == SubSeq(rest, 1, t - 1)
             after == SubSeq(rest, t, L - 1)
             one == <<source>>
             front == before \o one
  <2>1. /\ before \in Seq(All) /\ Len(before) = t - 1
        /\ \A k \in 1..t - 1 : before[k] = rest[k]
    BY <1>3, <1>4
  <2>2. /\ after \in Seq(All) /\ Len(after) = L - t
        /\ \A k \in 1..L - t : after[k] = rest[t + k - 1]
    BY <1>3, <1>4
  <2>3. moved = front \o after
    BY <1>4 DEF InsertAt
  <2>4. one \in Seq(All) /\ Len(one) = 1 /\ one[1] = source
    BY <1>5
  <2> HIDE DEF before, after, moved, one
  <2>5. /\ front \in Seq(All) /\ Len(front) = t
        /\ \A k \in 1..t : front[k] = IF k < t THEN rest[k] ELSE source
    <3>1. /\ front \in Seq(All) /\ Len(front) = Len(before) + Len(one)
          /\ \A k \in 1..Len(before) : front[k] = before[k]
          /\ \A k \in 1..Len(before) + Len(one) :
               k > Len(before) => front[k] = one[k - Len(before)]
      BY <2>1, <2>4, Joined
    <3> HIDE DEF front
    <3>2. Len(front) = t /\ \A k \in 1..t - 1 : front[k] = before[k]
      BY <1>3, <2>1, <2>4, <3>1
    <3>3. front[t] = one[1]
      BY <1>3, <2>1, <2>4, <3>1
    <3> QED BY <1>3, <2>1, <2>4, <3>1, <3>2, <3>3
  <2> HIDE DEF front
  <2>6. /\ moved \in Seq(All) /\ Len(moved) = L
        /\ \A k \in 1..L :
             moved[k] = IF k <= t THEN front[k] ELSE after[k - t]
    <3>1. /\ moved \in Seq(All) /\ Len(moved) = Len(front) + Len(after)
          /\ \A k \in 1..Len(front) : moved[k] = front[k]
          /\ \A k \in 1..Len(front) + Len(after) :
               k > Len(front) => moved[k] = after[k - Len(front)]
      BY <2>2, <2>3, <2>5, Joined
    <3>2. Len(front) + Len(after) = L
      BY <1>3, <2>2, <2>5
    <3> QED BY <1>3, <2>5, <3>1, <3>2
  <2>7. ASSUME NEW k \in 1..L, k > t PROVE after[k - t] = rest[k - 1]
    <3>1. k - t \in 1..L - t /\ t + (k - t) - 1 = k - 1
      BY <1>3, <2>7
    <3> QED BY <2>2, <3>1
  <2> QED BY <1>3, <2>5, <2>6, <2>7
<1> HIDE DEF moved
<1>7. \A k \in 1..L : from(k) \in 1..L /\ moved[k] = order[from(k)]
  BY <1>2, <1>3, <1>4, <1>6
<1>8. \A j, k \in 1..L : from(j) = from(k) => j = k
  BY <1>2, <1>3
<1>9. \A j \in 1..L : to(j) \in 1..L /\ from(to(j)) = j
  BY <1>2, <1>3
<1> HIDE DEF from, to
<1>10. DOMAIN moved = 1..L /\ DOMAIN order = 1..L
  BY <1>6
<1>11. IsInjective(moved)
  BY <1>7, <1>8, <1>10 DEF IsInjective
<1>12. Range(moved) = Range(order)
  <2>1. \A k \in 1..L : moved[k] \in Range(order)
    BY <1>7, <1>10 DEF Range
  <2>2. \A j \in 1..L : order[j] = moved[to(j)] /\ to(j) \in 1..L
    BY <1>7, <1>9
  <2>3. \A j \in 1..L : order[j] \in Range(moved)
    BY <1>10, <2>2 DEF Range
  <2> QED BY <1>10, <2>1, <2>3 DEF Range
<1> QED BY <1>1, <1>6, <1>11, <1>12 DEF Fits

(***************************************************************************)
(* The three pages keep their orders by the same operators.                *)
(***************************************************************************)
LEMMA AlertsOrders ==
  \A order, listed, source, target :
    /\ Alerts!NormalizedOrder(order, listed) = NormalizedOrder(order, listed)
    /\ Alerts!Moved(order, source, target) = Moved(order, source, target)
    /\ Alerts!Fits(order, listed) <=> Fits(order, listed)
<1> SUFFICES ASSUME NEW order, NEW listed, NEW source, NEW target
             PROVE  /\ Alerts!NormalizedOrder(order, listed)
                          = NormalizedOrder(order, listed)
                    /\ Alerts!Moved(order, source, target)
                          = Moved(order, source, target)
                    /\ Alerts!Fits(order, listed) <=> Fits(order, listed)
  OBVIOUS
<1>1. Alerts!NormalizedOrder(order, listed) = NormalizedOrder(order, listed)
  BY Zenon DEF Alerts!NormalizedOrder, NormalizedOrder, Alerts!Kept, Kept,
     Alerts!Range, Range, Alerts!SetToSeq, SetToSeq, Alerts!IsInjective, IsInjective,
     Alerts!Cardinality, Cardinality
<1>2. Alerts!Moved(order, source, target) = Moved(order, source, target)
  BY Zenon DEF Alerts!Moved, Moved, Alerts!InsertAt, InsertAt, Alerts!RemoveAt, RemoveAt
<1>3. Alerts!Fits(order, listed) <=> Fits(order, listed)
  BY Zenon DEF Alerts!Fits, Fits, Alerts!Range, Range, Alerts!IsInjective, IsInjective
<1> QED BY <1>1, <1>2, <1>3

(* So do the integrations.                                                 *)
LEMMA ToolsOrders ==
  \A order, listed, source, target :
    /\ Tools!NormalizedOrder(order, listed) = NormalizedOrder(order, listed)
    /\ Tools!Moved(order, source, target) = Moved(order, source, target)
    /\ Tools!Fits(order, listed) <=> Fits(order, listed)
<1> SUFFICES ASSUME NEW order, NEW listed, NEW source, NEW target
             PROVE  /\ Tools!NormalizedOrder(order, listed)
                          = NormalizedOrder(order, listed)
                    /\ Tools!Moved(order, source, target)
                          = Moved(order, source, target)
                    /\ Tools!Fits(order, listed) <=> Fits(order, listed)
  OBVIOUS
<1>1. Tools!NormalizedOrder(order, listed) = NormalizedOrder(order, listed)
  BY Zenon DEF Tools!NormalizedOrder, NormalizedOrder, Tools!Kept, Kept,
     Tools!Range, Range, Tools!SetToSeq, SetToSeq, Tools!IsInjective, IsInjective,
     Tools!Cardinality, Cardinality
<1>2. Tools!Moved(order, source, target) = Moved(order, source, target)
  BY Zenon DEF Tools!Moved, Moved, Tools!InsertAt, InsertAt, Tools!RemoveAt, RemoveAt
<1>3. Tools!Fits(order, listed) <=> Fits(order, listed)
  BY Zenon DEF Tools!Fits, Fits, Tools!Range, Range, Tools!IsInjective, IsInjective
<1> QED BY <1>1, <1>2, <1>3

(* And the lists of Grafana.                                               *)
LEMMA GrafanaOrders ==
  \A order, listed, source, target :
    /\ Grafana!NormalizedOrder(order, listed) = NormalizedOrder(order, listed)
    /\ Grafana!Moved(order, source, target) = Moved(order, source, target)
    /\ Grafana!Fits(order, listed) <=> Fits(order, listed)
<1> SUFFICES ASSUME NEW order, NEW listed, NEW source, NEW target
             PROVE  /\ Grafana!NormalizedOrder(order, listed)
                          = NormalizedOrder(order, listed)
                    /\ Grafana!Moved(order, source, target)
                          = Moved(order, source, target)
                    /\ Grafana!Fits(order, listed) <=> Fits(order, listed)
  OBVIOUS
<1>1. Grafana!NormalizedOrder(order, listed) = NormalizedOrder(order, listed)
  BY Zenon DEF Grafana!NormalizedOrder, NormalizedOrder, Grafana!Kept, Kept,
     Grafana!Range, Range, Grafana!SetToSeq, SetToSeq, Grafana!IsInjective, IsInjective,
     Grafana!Cardinality, Cardinality
<1>2. Grafana!Moved(order, source, target) = Moved(order, source, target)
  BY Zenon DEF Grafana!Moved, Moved, Grafana!InsertAt, InsertAt, Grafana!RemoveAt, RemoveAt
<1>3. Grafana!Fits(order, listed) <=> Fits(order, listed)
  BY Zenon DEF Grafana!Fits, Fits, Grafana!Range, Range, Grafana!IsInjective, IsInjective
<1> QED BY <1>1, <1>2, <1>3
-----------------------------------------------------------------------------
(* Integrations: the order of the cards, and the timer of the question.    *)

ToolsArgs == [id : Tools!Items \cup {None}, hidden : BOOLEAN]
ToolsAnswers == [shown : SUBSET Tools!Items, hidden : SUBSET Tools!Items]
ToolsTasks ==
  {t \in [op : {"none", "load", "save", "test", "hide", "delete"},
          stage : {"none", "load", "save", "test", "hide", "unhide", "delete"},
          st : {"idle", "sent", "ok", "failed"},
          arg : ToolsArgs \cup {None}, ans : ToolsAnswers \cup {None}] :
     /\ t.st # "idle" => t.arg \in ToolsArgs
     /\ t.st # "idle" /\ t.stage = "save" => t.arg.id \in Tools!Items
     /\ t.st # "idle" /\ t.stage \in {"hide", "unhide"} =>
          t.arg.id \in Tools!Items \ MyItems
     /\ t.st \in {"ok", "failed"} /\ t.stage = "load" =>
          t.ans \in ToolsAnswers}

(* While the timer runs no other question is asked, so that the one it     *)
(* closes is the one it was started for.                                   *)
TimerKnown(u) == u.closing # None =>
                   u.suppressed /\ u.asked \in {u.closing, None}
ToolsShown(u) == /\ u \in Tools!UiType
                 /\ Tools!Fits(u.order, u.shown)
                 /\ TimerKnown(u)
ToolsInv == /\ ToolsShown(ui) /\ srv \in Tools!SrvType
            /\ net \in [Slots -> ToolsTasks]

(* The handlers of the integrations are typed.                             *)
LEMMA ToolsTaskTypes ==
  /\ Tools!NoTask \in ToolsTasks
  /\ \A arg \in ToolsArgs :
       /\ Tools!Task("load", "load", arg) \in ToolsTasks
       /\ Tools!Task("test", "test", arg) \in ToolsTasks
       /\ Tools!Task("delete", "delete", arg) \in ToolsTasks
       /\ arg.id \in Tools!Items =>
            Tools!Task("save", "save", arg) \in ToolsTasks
       /\ arg.id \in Tools!Items \ MyItems =>
            /\ Tools!Task("hide", "hide", arg) \in ToolsTasks
            /\ Tools!Task("hide", "unhide", arg) \in ToolsTasks
  BY DEF ToolsTasks, Tools!NoTask, Tools!Task

(***************************************************************************)
(* Steps by what they do to the handlers.                                  *)
(***************************************************************************)
LEMMA ToolsPuts ==
  ASSUME ToolsInv, ToolsShown(ui'), srv' \in Tools!SrvType,
         \/ net' = net
         \/ \E n, t : t \in ToolsTasks /\ net' = [net EXCEPT ![n] = t]
  PROVE  ToolsInv'
<1>1. net' \in [Slots -> ToolsTasks]
  BY DEF ToolsInv
<1> QED BY <1>1 DEF ToolsInv, ToolsShown, TimerKnown

(* A click that begins no handler.                                         *)
LEMMA ToolsEdits ==
  ASSUME ToolsInv, NEW u, ToolsShown(u), Tools!Edit(u)
  PROVE  ToolsInv'
<1>1. ui' = u /\ srv' = srv /\ net' = net
  BY DEF Tools!Edit
<1> QED BY <1>1, ToolsPuts DEF ToolsInv

(* A click that begins one.                                                *)
LEMMA ToolsStarts ==
  ASSUME Tools!BoundsFit, ToolsInv, NEW u, ToolsShown(u), u.starts = ui.starts,
         NEW op, NEW stage, NEW arg, Tools!Task(op, stage, arg) \in ToolsTasks,
         Tools!Start(u, op, stage, arg)
  PROVE  ToolsInv'
<1> DEFINE v == [u EXCEPT !.starts = @ + 1]
<1>1. /\ ui' = v /\ srv' = srv /\ ui.starts < MaxToolsStarts
      /\ \E n : net' = [net EXCEPT ![n] = Tools!Task(op, stage, arg)]
  BY DEF Tools!Start, Tools!Begin
<1>2. ToolsShown(v)
  BY <1>1 DEF ToolsShown, TimerKnown, Tools!UiType, Tools!BoundsFit
<1> HIDE DEF v
<1> QED BY <1>1, <1>2, ToolsPuts DEF ToolsInv

(***************************************************************************)
(* The clicks that leave the cards and the question alone.                 *)
(***************************************************************************)
ToolsAlike(u, v) == /\ v \in Tools!UiType
                    /\ v.order = u.order /\ v.shown = u.shown
                    /\ v.closing = u.closing /\ v.asked = u.asked
                    /\ v.suppressed = u.suppressed
(* Such a click keeps what the invariant says of the page.                 *)
LEMMA ToolsAlikeShown ==
  ASSUME NEW u, NEW v, ToolsShown(u), ToolsAlike(u, v)
  PROVE  ToolsShown(v)
  BY DEF ToolsShown, ToolsAlike, TimerKnown

(* The forms of the editors are typed.                                     *)
LEMMA ToolsForms ==
  ASSUME ToolsInv,
         \/ Tools!Cancel \/ Tools!FillForm \/ Tools!FillJiraForm
         \/ Tools!CloseTest
         \/ \E t \in Tools!Tabs : Tools!SetTab(t)
         \/ \E kind \in {"channel", "jira"} : Tools!OpenCreate(kind)
         \/ \E type \in {"webhook", "email"} : Tools!SetType(type)
         \/ \E g \in Teams : Tools!ToggleGroup(g)
         \/ \E i \in Tools!Items : Tools!OpenEdit(i)
  PROVE  ToolsInv'
<1>0. ui \in Tools!UiType /\ ToolsShown(ui)
  BY DEF ToolsInv, ToolsShown
<1>1. ASSUME NEW u, ToolsAlike(ui, u), Tools!Edit(u) PROVE ToolsInv'
  BY <1>0, <1>1, ToolsAlikeShown, ToolsEdits
<1>2. /\ Tools!NoForm \in [filled : BOOLEAN, type : {"webhook", "email"},
                           groups : SUBSET Teams]
      /\ [Tools!NoForm EXCEPT !.filled = TRUE] \in
           [filled : BOOLEAN, type : {"webhook", "email"}, groups : SUBSET Teams]
      /\ ui.form \in [filled : BOOLEAN, type : {"webhook", "email"},
                      groups : SUBSET Teams]
      /\ {"none", "channel", "jira"} = Tools!Editors
  BY <1>0 DEF Tools!NoForm, Tools!Editors, Tools!UiType
<1>3. CASE Tools!Cancel
  <2> DEFINE u == Tools!Closed(ui)
  <2>1. Tools!Edit(u)
    BY <1>3 DEF Tools!Cancel
  <2>2. ToolsAlike(ui, u)
    BY <1>0, <1>2 DEF ToolsAlike, Tools!Closed, Tools!UiType
  <2> HIDE DEF u
  <2> QED BY <1>1, <2>1, <2>2
<1>4. CASE Tools!FillForm \/ Tools!FillJiraForm
  <2> DEFINE form == [ui.form EXCEPT !.filled = TRUE]
             u == [ui EXCEPT !.form = form]
  <2>1. Tools!Edit([ui EXCEPT !.form.filled = TRUE])
    BY <1>4 DEF Tools!FillForm, Tools!FillJiraForm
  <2>2. Tools!Edit(u)
    BY <2>1
  <2>3. form \in [filled : BOOLEAN, type : {"webhook", "email"},
                  groups : SUBSET Teams]
    BY <1>2
  <2> HIDE DEF form
  <2>4. ToolsAlike(ui, u)
    BY <1>0, <2>3 DEF ToolsAlike, Tools!UiType
  <2> HIDE DEF u
  <2> QED BY <1>1, <2>2, <2>4
<1>5. CASE Tools!CloseTest
  <2> DEFINE u == [ui EXCEPT !.tested = FALSE]
  <2>1. ToolsAlike(ui, u)
    BY <1>0 DEF ToolsAlike, Tools!UiType
  <2>2. Tools!Edit(u)
    BY <1>5 DEF Tools!CloseTest
  <2> HIDE DEF u
  <2> QED BY <1>1, <2>1, <2>2
<1>6. ASSUME NEW t \in Tools!Tabs, Tools!SetTab(t) PROVE ToolsInv'
  <2> DEFINE u == [ui EXCEPT !.tab = t]
  <2>1. ToolsAlike(ui, u)
    BY <1>0 DEF ToolsAlike, Tools!UiType
  <2>2. Tools!Edit(u)
    BY <1>6 DEF Tools!SetTab, Tools!Edit
  <2> HIDE DEF u
  <2> QED BY <1>1, <2>1, <2>2
<1>7. ASSUME NEW kind \in {"channel", "jira"}, Tools!OpenCreate(kind)
      PROVE  ToolsInv'
  <2> DEFINE u == [ui EXCEPT !.editor = kind, !.form = Tools!NoForm]
  <2>1. ToolsAlike(ui, u)
    BY <1>0, <1>2 DEF ToolsAlike, Tools!UiType
  <2>2. Tools!Edit(u)
    BY <1>7 DEF Tools!OpenCreate
  <2> HIDE DEF u
  <2> QED BY <1>1, <2>1, <2>2
<1>8. ASSUME NEW type \in {"webhook", "email"}, Tools!SetType(type)
      PROVE  ToolsInv'
  <2> DEFINE form == [ui.form EXCEPT !.type = type, !.filled = FALSE]
             u == [ui EXCEPT !.form = form]
  <2>1. Tools!Edit([ui EXCEPT !.form.type = type, !.form.filled = FALSE])
    BY <1>8 DEF Tools!SetType
  <2>2. Tools!Edit(u)
    BY <1>0, <2>1 DEF Tools!UiType
  <2>3. form \in [filled : BOOLEAN, type : {"webhook", "email"},
                  groups : SUBSET Teams]
    BY <1>2
  <2> HIDE DEF form
  <2>4. ToolsAlike(ui, u)
    BY <1>0, <2>3 DEF ToolsAlike, Tools!UiType
  <2> HIDE DEF u
  <2> QED BY <1>1, <2>2, <2>4
<1>9. ASSUME NEW g \in Teams, Tools!ToggleGroup(g) PROVE ToolsInv'
  <2> DEFINE groups == IF g \in ui.form.groups THEN ui.form.groups \ {g}
                       ELSE ui.form.groups \cup {g}
             form == [ui.form EXCEPT !.groups = groups]
             u == [ui EXCEPT !.form = form]
  <2>1. Tools!Edit(u)
    BY <1>9 DEF Tools!ToggleGroup
  <2>2. groups \in SUBSET Teams
    BY <1>2
  <2> HIDE DEF groups
  <2>3. form \in [filled : BOOLEAN, type : {"webhook", "email"},
                  groups : SUBSET Teams]
    BY <1>2, <2>2
  <2> HIDE DEF form
  <2>4. ToolsAlike(ui, u)
    BY <1>0, <2>3 DEF ToolsAlike, Tools!UiType
  <2> HIDE DEF u
  <2> QED BY <1>1, <2>1, <2>4
<1>10. ASSUME NEW i \in Tools!Items, Tools!OpenEdit(i) PROVE ToolsInv'
  <2> DEFINE editor == IF i \in Channels THEN "channel" ELSE "jira"
             form == [Tools!NoForm EXCEPT !.filled = TRUE]
             u == [ui EXCEPT !.editor = editor, !.editing = i, !.form = form]
  <2>1. Tools!Edit(u)
    BY <1>10 DEF Tools!OpenEdit
  <2>2. editor \in Tools!Editors
    BY <1>2
  <2> HIDE DEF editor, form
  <2>3. form \in [filled : BOOLEAN, type : {"webhook", "email"},
                  groups : SUBSET Teams]
    BY <1>2 DEF form
  <2>4. ToolsAlike(ui, u)
    BY <1>0, <2>2, <2>3 DEF ToolsAlike, Tools!UiType
  <2> HIDE DEF u
  <2> QED BY <1>1, <2>1, <2>4
<1> QED BY <1>3, <1>4, <1>5, <1>6, <1>7, <1>8, <1>9, <1>10

(***************************************************************************)
(* The clicks that begin a handler, drag a card or ask a question.         *)
(***************************************************************************)
LEMMA ToolsHandlers ==
  ASSUME Tools!BoundsFit, ToolsInv,
         \/ Tools!ToggleShowHidden \/ Tools!ConfirmDelete
         \/ \E i \in Tools!Items :
              \/ Tools!SaveItem(i) \/ Tools!TestChannel(i) \/ Tools!ToggleHidden(i)
  PROVE  ToolsInv'
<1>1. ui \in Tools!UiType /\ ToolsShown(ui)
  BY DEF ToolsInv, ToolsShown
<1>2. \A i \in Tools!Items \cup {None} :
        Tools!Arg(i) \in ToolsArgs /\ Tools!Arg(i).id = i
  BY <1>1 DEF Tools!Arg, ToolsArgs, Tools!UiType
<1>3. CASE Tools!ToggleShowHidden
  <2> DEFINE v == [ui EXCEPT !.showHidden = ~@]
             u == Tools!BeginLoad(v)
             arg == Tools!Load(~ui.showHidden)
  <2>1. v \in Tools!UiType /\ ToolsAlike(ui, v) /\ v.starts = ui.starts
    <3> DEFINE b == ~ui.showHidden
    <3>1. b \in BOOLEAN /\ v = [ui EXCEPT !.showHidden = b]
      BY <1>1 DEF Tools!UiType
    <3> HIDE DEF b, v
    <3> QED BY <1>1, <3>1 DEF ToolsAlike, Tools!UiType
  <2>2. Tools!Start(u, "load", "load", arg)
    BY <1>3 DEF Tools!ToggleShowHidden
  <2>3. Tools!Task("load", "load", arg) \in ToolsTasks
    <3>1. arg \in ToolsArgs
      BY <1>1 DEF Tools!Load, ToolsArgs, Tools!UiType
    <3> QED BY <3>1, ToolsTaskTypes
  <2> HIDE DEF v, arg
  <2>4. ToolsAlike(ui, u) /\ u.starts = ui.starts
    BY <2>1 DEF ToolsAlike, Tools!BeginLoad, Tools!UiType, Tools!NoForm
  <2> HIDE DEF u
  <2> QED BY <1>1, <2>2, <2>3, <2>4, ToolsAlikeShown, ToolsStarts
<1>4. CASE Tools!ConfirmDelete
  <2> DEFINE u == [ui EXCEPT !.deleting = TRUE, !.suppressed = TRUE]
             arg == Tools!Arg(ui.asked)
  <2>1. ToolsShown(u) /\ u.starts = ui.starts
    BY <1>1 DEF ToolsShown, TimerKnown, Tools!UiType
  <2>2. Tools!Start(u, "delete", "delete", arg)
    BY <1>4 DEF Tools!ConfirmDelete
  <2>3. arg \in ToolsArgs
    BY <1>1, <1>2 DEF Tools!UiType
  <2>4. Tools!Task("delete", "delete", arg) \in ToolsTasks
    BY <2>3, ToolsTaskTypes
  <2> HIDE DEF u, arg
  <2> QED BY <2>1, <2>2, <2>4, ToolsStarts
<1>5. ASSUME NEW i \in Tools!Items, Tools!SaveItem(i) PROVE ToolsInv'
  <2>1. Tools!Start(ui, "save", "save", Tools!Arg(i))
    BY <1>5 DEF Tools!SaveItem
  <2>2. Tools!Task("save", "save", Tools!Arg(i)) \in ToolsTasks
    BY <1>2, ToolsTaskTypes
  <2> QED BY <1>1, <2>1, <2>2, ToolsStarts
<1>6. ASSUME NEW i \in Tools!Items, Tools!TestChannel(i) PROVE ToolsInv'
  <2>1. Tools!Start(ui, "test", "test", Tools!Arg(i))
    BY <1>6 DEF Tools!TestChannel
  <2>2. Tools!Task("test", "test", Tools!Arg(i)) \in ToolsTasks
    BY <1>2, ToolsTaskTypes
  <2> QED BY <1>1, <2>1, <2>2, ToolsStarts
<1>7. ASSUME NEW i \in Tools!Items, Tools!ToggleHidden(i) PROVE ToolsInv'
  <2>1. PICK stage \in {"hide", "unhide"} :
          Tools!Start(ui, "hide", stage, Tools!Arg(i))
    BY <1>7 DEF Tools!ToggleHidden
  <2>2. i \notin MyItems
    BY <1>7 DEF Tools!ToggleHidden, Tools!Card, Tools!ChannelButtons,
       Tools!JiraButtons, Tools!CanToggleHidden
  <2>3. Tools!Task("hide", stage, Tools!Arg(i)) \in ToolsTasks
    BY <1>2, <2>2, ToolsTaskTypes
  <2> QED BY <1>1, <2>1, <2>3, ToolsStarts
<1> QED BY <1>3, <1>4, <1>5, <1>6, <1>7

(* The question of a deletion, its answers and its timer.                  *)
LEMMA ToolsQuestions ==
  ASSUME ToolsInv,
         \/ Tools!CancelDelete \/ Tools!TimerCloses \/ Tools!SuppressionEnds
         \/ \E i \in Tools!Items : Tools!RequestDelete(i)
         \/ \E i \in Tools!Items, j \in Tools!Items : Tools!Reorder(i, j)
  PROVE  ToolsInv'
<1>1. ui \in Tools!UiType /\ TimerKnown(ui) /\ Tools!Fits(ui.order, ui.shown)
  BY DEF ToolsInv, ToolsShown
<1>2. CASE Tools!CancelDelete
  <2> DEFINE u == Tools!CloseSafely(ui)
  <2>1. ToolsShown(u)
    BY <1>1 DEF ToolsShown, TimerKnown, Tools!CloseSafely, Tools!UiType
  <2>2. Tools!Edit(u)
    BY <1>2 DEF Tools!CancelDelete
  <2> HIDE DEF u
  <2> QED BY <2>1, <2>2, ToolsEdits
<1>3. CASE Tools!TimerCloses
  <2> DEFINE u == [ui EXCEPT !.asked = None, !.closing = None]
  <2>1. ToolsShown(u)
    BY <1>1 DEF ToolsShown, TimerKnown, Tools!UiType
  <2>2. Tools!Edit(u)
    BY <1>3 DEF Tools!TimerCloses
  <2> HIDE DEF u
  <2> QED BY <2>1, <2>2, ToolsEdits
<1>4. CASE Tools!SuppressionEnds
  <2> DEFINE u == [ui EXCEPT !.suppressed = FALSE]
  <2>1. ToolsShown(u)
    BY <1>1, <1>4 DEF ToolsShown, TimerKnown, Tools!UiType, Tools!SuppressionEnds
  <2>2. Tools!Edit(u)
    BY <1>4 DEF Tools!SuppressionEnds
  <2> HIDE DEF u
  <2> QED BY <2>1, <2>2, ToolsEdits
<1>5. ASSUME NEW i \in Tools!Items, Tools!RequestDelete(i) PROVE ToolsInv'
  <2> DEFINE u == [ui EXCEPT !.asked = i]
  <2>1. ToolsShown(u)
    BY <1>1, <1>5 DEF ToolsShown, TimerKnown, Tools!UiType, Tools!RequestDelete
  <2>2. Tools!Edit(u)
    BY <1>5 DEF Tools!RequestDelete
  <2> HIDE DEF u
  <2> QED BY <2>1, <2>2, ToolsEdits
<1>6. ASSUME NEW i \in Tools!Items, NEW j \in Tools!Items, Tools!Reorder(i, j)
      PROVE  ToolsInv'
  <2> DEFINE order == Moved(ui.order, i, j)
             u == [ui EXCEPT !.order = order]
  <2>1. i \in ui.shown /\ j \in ui.shown
    BY <1>6 DEF Tools!Reorder, Tools!Card, Tools!Visible
  <2>2. /\ ui.order \in Seq(Tools!Items) /\ IsInjective(ui.order)
        /\ Range(ui.order) = ui.shown
    BY <1>1, ToolsOrders DEF Tools!UiType, Fits
  <2>3. order \in Seq(Tools!Items) /\ Fits(order, ui.shown)
    BY <2>1, <2>2, MovedFits
  <2>4. Tools!Edit(u)
    BY <1>6, ToolsOrders DEF Tools!Reorder, Tools!Edit
  <2> HIDE DEF order
  <2>5. Tools!Fits(order, ui.shown)
    BY <2>3, ToolsOrders
  <2>6. ToolsShown(u)
    BY <1>1, <2>3, <2>5 DEF ToolsShown, TimerKnown, Tools!UiType
  <2> HIDE DEF u
  <2> QED BY <2>4, <2>6, ToolsEdits
<1> QED BY <1>2, <1>3, <1>4, <1>5, <1>6

(***************************************************************************)
(* The service and the answers.                                            *)
(***************************************************************************)
LEMMA ToolsServes ==
  ASSUME ToolsInv, NEW n \in Slots, Tools!ServeSlot(n)
  PROVE  ToolsInv'
<1>1. /\ ui \in Tools!UiType /\ srv \in Tools!SrvType /\ net[n] \in ToolsTasks
      /\ net[n].st = "sent" /\ net[n].arg \in ToolsArgs
  BY DEF ToolsInv, ToolsShown, Tools!ServeSlot, Tools!ServeWrite,
     Tools!ServeLoad, Tools!Waiting, ToolsTasks
<1>2. ASSUME NEW st \in {"ok", "failed"}, NEW ans \in ToolsAnswers \cup {None},
             net[n].stage = "load" => ans \in ToolsAnswers
      PROVE  [net[n] EXCEPT !.st = st, !.ans = ans] \in ToolsTasks
  BY <1>1, <1>2 DEF ToolsTasks
<1>3. CASE Tools!ServeWrite(n)
  <2>1. /\ srv' = Tools!Written(net[n]) \/ srv' = srv
        /\ \E st \in {"ok", "failed"} :
             net' = [net EXCEPT ![n] = [net[n] EXCEPT !.st = st, !.ans = None]]
        /\ ui' = ui /\ net[n].stage # "load"
    BY <1>3 DEF Tools!ServeWrite, Tools!Reply
  <2>2. Tools!Written(net[n]) \in Tools!SrvType
    BY <1>1 DEF Tools!Written, Tools!SrvType, ToolsTasks, ToolsArgs
  <2> QED BY <1>1, <1>2, <2>1, <2>2, ToolsPuts DEF ToolsInv
<1>4. CASE Tools!ServeLoad(n)
  <2>1. PICK lost \in {{}, Channels, Tools!Items} :
          Tools!Reply(n, IF lost = {} THEN "ok" ELSE "failed",
                      [shown |-> Tools!Listing(net[n].arg.hidden) \ lost,
                       hidden |-> srv.hidden])
    BY <1>4 DEF Tools!ServeLoad
  <2> DEFINE st == IF lost = {} THEN "ok" ELSE "failed"
             ans == [shown |-> Tools!Listing(net[n].arg.hidden) \ lost,
                     hidden |-> srv.hidden]
  <2>2. ans \in ToolsAnswers
    BY <1>1 DEF ToolsAnswers, Tools!Listing, Tools!SrvType
  <2>3. st \in {"ok", "failed"}
    OBVIOUS
  <2>4. /\ ui' = ui /\ srv' = srv
        /\ net' = [net EXCEPT ![n] = [net[n] EXCEPT !.st = st, !.ans = ans]]
    BY <1>4, <2>1 DEF Tools!ServeLoad, Tools!Reply
  <2> HIDE DEF st, ans
  <2> QED BY <1>1, <1>2, <2>2, <2>3, <2>4, ToolsPuts DEF ToolsInv
<1> QED BY <1>3, <1>4 DEF Tools!ServeSlot

(* A failure leaves its message and changes nothing else.                  *)
LEMMA ToolsNoted ==
  ASSUME NEW u, ToolsShown(u), NEW t
  PROVE  ToolsShown(Tools!Noted(u, t))
<1> DEFINE failed == u.failed \/ t.st # "ok"
           v == [u EXCEPT !.failed = failed]
<1>1. failed \in BOOLEAN
  OBVIOUS
<1>2. Tools!Noted(u, t) = v
  BY Zenon DEF Tools!Noted
<1> HIDE DEF failed
<1>3. ToolsAlike(u, v)
  BY <1>1 DEF ToolsShown, ToolsAlike, Tools!UiType
<1> HIDE DEF v
<1> QED BY <1>2, <1>3, ToolsAlikeShown

(* The answer of a write: a message, or the load.                          *)
LEMMA ToolsWritesEnd ==
  ASSUME ToolsInv, NEW n \in Slots, Tools!DeliverWrite(n)
  PROVE  ToolsInv'
<1> DEFINE t == net[n]
           closed == IF t.op = "save" THEN Tools!Closed(ui) ELSE ui
           kept == [ui EXCEPT !.deleting = FALSE, !.suppressed = TRUE]
           tested == ui.tested \/ t.st = "ok"
           told == [ui EXCEPT !.tested = tested]
           over == CASE t.op = "delete" -> kept
                     [] t.op = "test" -> told
                     [] OTHER -> ui
           next == Tools!Task(t.op, "load", t.arg)
<1>1. /\ ui \in Tools!UiType /\ srv' = srv /\ t \in ToolsTasks
      /\ ToolsShown(ui) /\ srv \in Tools!SrvType /\ t.arg \in ToolsArgs
  BY DEF ToolsInv, ToolsShown, Tools!DeliverWrite, Tools!Back, ToolsTasks
<1>2. tested \in BOOLEAN
  OBVIOUS
<1>3. \/ ui' = Tools!BeginLoad(closed) /\ net' = [net EXCEPT ![n] = next]
      \/ ui' = Tools!Noted(over, t) /\ Tools!Finish(n)
  <2>1. told = [ui EXCEPT !.tested = ui.tested \/ t.st = "ok"]
    BY Zenon
  <2> HIDE DEF told, tested
  <2> QED BY <2>1 DEF Tools!DeliverWrite, Tools!Continue
<1> HIDE DEF tested
<1>4. ToolsShown(kept) /\ ToolsShown(told)
  BY <1>1, <1>2 DEF ToolsShown, TimerKnown, Tools!UiType
<1>5. over = kept \/ over = told \/ over = ui
  BY DEF over
<1>6. ToolsShown(closed)
  <2>1. ToolsAlike(ui, Tools!Closed(ui))
    BY <1>1 DEF Tools!Closed, ToolsAlike, Tools!UiType, Tools!Editors
  <2> QED BY <1>1, <2>1, ToolsAlikeShown
<1> HIDE DEF kept, told, over, closed
<1>7. ToolsShown(Tools!BeginLoad(closed))
  <2>1. ToolsAlike(closed, Tools!BeginLoad(closed))
    BY <1>6 DEF ToolsShown, Tools!BeginLoad, ToolsAlike, Tools!UiType, Tools!NoForm
  <2> QED BY <1>6, <2>1, ToolsAlikeShown
<1>8. ToolsShown(Tools!Noted(over, t))
  BY <1>1, <1>4, <1>5, ToolsNoted
<1>9. next \in ToolsTasks
  BY <1>1 DEF ToolsTasks, Tools!Task
<1> HIDE DEF next
<1> QED BY <1>1, <1>3, <1>7, <1>8, <1>9, ToolsTaskTypes, ToolsPuts
        DEF Tools!Finish

(* A load is shown, its order put right.                                   *)
LEMMA ToolsLoadsEnd ==
  ASSUME Tools!ConstantsFit, ToolsInv, NEW n \in Slots, Tools!DeliverLoad(n)
  PROVE  ToolsInv'
<1> DEFINE t == net[n]
           order == NormalizedOrder(ui.order, t.ans.shown)
           asked == IF ui.asked \in t.ans.shown THEN ui.asked ELSE None
           v == [ui EXCEPT !.shown = t.ans.shown, !.marked = t.ans.hidden,
                           !.order = order, !.loading = FALSE, !.asked = asked]
           w == [v EXCEPT !.deleting = FALSE, !.closing = ui.asked,
                          !.suppressed = TRUE]
           listed == Tools!Listed(IF t.op = "delete"
                                  THEN [Tools!CloseSafely(ui)
                                          EXCEPT !.deleting = FALSE]
                                  ELSE ui, t)
<1>1. /\ ui \in Tools!UiType /\ TimerKnown(ui) /\ srv' = srv
      /\ srv \in Tools!SrvType /\ t \in ToolsTasks /\ t.ans \in ToolsAnswers
  <2>1. t.st \in {"ok", "failed"} /\ t.stage = "load"
    BY DEF ToolsInv, Tools!DeliverLoad, Tools!Back, ToolsTasks
  <2> QED BY <2>1 DEF ToolsInv, ToolsShown, Tools!DeliverLoad, ToolsTasks
<1>2. ui' = Tools!Noted(listed, t) /\ Tools!Finish(n)
  BY DEF Tools!DeliverLoad
<1>3. /\ order \in Seq(t.ans.shown) /\ Fits(order, t.ans.shown)
      /\ order = Tools!NormalizedOrder(ui.order, t.ans.shown)
  <2>1. IsFiniteSet(t.ans.shown) /\ ui.order \in Seq(Tools!Items)
    <3>1. IsFiniteSet(Tools!Items)
      BY DEF Tools!ConstantsFit, Tools!IsFiniteSet, IsFiniteSet
    <3> QED BY <1>1, <3>1, FS_Subset DEF ToolsAnswers, Tools!UiType
  <2> QED BY <2>1, NormalizedFits, ToolsOrders
<1>4. listed = v \/ listed = w
  BY <1>1, <1>3 DEF Tools!Listed, Tools!CloseSafely, Tools!UiType
<1>5. /\ t.ans.shown \in SUBSET Tools!Items /\ t.ans.hidden \in SUBSET Tools!Items
      /\ order \in Seq(Tools!Items) /\ asked \in Tools!Items \cup {None}
      /\ asked \in {ui.asked, None} /\ Tools!Fits(order, t.ans.shown)
  BY <1>1, <1>3, ToolsOrders DEF ToolsAnswers, Tools!UiType
<1> HIDE DEF order, asked
<1>6. ToolsShown(v)
  BY <1>1, <1>5 DEF ToolsShown, TimerKnown, Tools!UiType
<1>7. ToolsShown(w)
  BY <1>1, <1>5 DEF ToolsShown, TimerKnown, Tools!UiType
<1> HIDE DEF v, w, listed
<1>8. ToolsShown(ui')
  BY <1>2, <1>4, <1>6, <1>7, ToolsNoted
<1> QED BY <1>1, <1>2, <1>8, ToolsTaskTypes, ToolsPuts DEF Tools!Finish

(***************************************************************************)
(* The page itself.                                                        *)
(***************************************************************************)
LEMMA ToolsInit ==
  Tools!BoundsFit /\ Tools!Init => ToolsInv
<1> SUFFICES ASSUME Tools!BoundsFit, Tools!Init PROVE ToolsInv
  OBVIOUS
<1>1. PICK tab \in {"private", "tenant"} :
        ui = [tab |-> tab, showHidden |-> FALSE, shown |-> {},
              marked |-> {}, order |-> <<>>, loading |-> TRUE,
              editor |-> "none", editing |-> None, form |-> Tools!NoForm,
              tested |-> FALSE, asked |-> None, deleting |-> FALSE,
              closing |-> None, suppressed |-> FALSE, starts |-> 0,
              failed |-> FALSE]
  BY DEF Tools!Init
<1>2. ui \in Tools!UiType
  BY <1>1 DEF Tools!UiType, Tools!Tabs, Tools!Editors, Tools!NoForm,
     Tools!BoundsFit
<1>3. Fits(<<>>, {})
  BY DEF Fits, Range, IsInjective
<1>4. ToolsShown(ui)
  BY <1>1, <1>2, <1>3, ToolsOrders DEF ToolsShown, TimerKnown
<1>5. srv \in Tools!SrvType
  BY DEF Tools!Init, Tools!SrvType
<1>6. Tools!Load(FALSE) \in ToolsArgs
  BY DEF Tools!Load, ToolsArgs
<1>7. net \in [Slots -> ToolsTasks]
  BY <1>6, ToolsTaskTypes DEF Tools!Init, Tools!Quiet
<1> QED BY <1>4, <1>5, <1>7 DEF ToolsInv

(* Every step of the integrations keeps their invariant.                   *)
LEMMA ToolsNext ==
  Tools!BoundsFit /\ Tools!ConstantsFit /\ ToolsInv
    /\ [Tools!Next]_(Tools!vars) => ToolsInv'
<1> SUFFICES ASSUME Tools!BoundsFit, Tools!ConstantsFit, ToolsInv,
                    [Tools!Next]_(Tools!vars)
             PROVE  ToolsInv'
  OBVIOUS
<1>1. CASE UNCHANGED Tools!vars
  BY <1>1, ToolsPuts DEF Tools!vars, ToolsInv
<1>2. CASE Tools!Clicks
  BY <1>2, ToolsForms, ToolsHandlers, ToolsQuestions DEF Tools!Clicks
<1>3. CASE Tools!TimerCloses \/ Tools!SuppressionEnds
  BY <1>3, ToolsQuestions
<1>4. ASSUME NEW n \in Slots, Tools!ServeSlot(n) \/ Tools!DeliverSlot(n)
      PROVE  ToolsInv'
  BY <1>4, ToolsServes, ToolsWritesEnd, ToolsLoadsEnd DEF Tools!DeliverSlot
<1> QED BY <1>1, <1>2, <1>3, <1>4 DEF Tools!Next

(* What the page's invariant says of the properties.                       *)
LEMMA ToolsTells ==
  ToolsInv => /\ Tools!TypeOK /\ Tools!OrderFitsItems
              /\ Tools!TimerClosesItsOwn
  BY DEF ToolsInv, ToolsShown, TimerKnown, Tools!TypeOK, Tools!OrderFitsItems,
     Tools!TimerClosesItsOwn
-----------------------------------------------------------------------------
(* The rule editor: the channels of a rule and the rules of a key.         *)

KeyLists == {c \in Seq(Keys \cup {None}) : IsInjective(c)}
FormArgs == [scopes : KeyLists, form : Form!Payloads]
ChannelsFit(form) ==
  \A c \in form.channels : Form!IsSelectable(c, form.visibility, form.groups)
FormTasks ==
  {t \in [op : {"none", "save", "channels", "test"},
          stage : {"none", "create", "update", "reload", "channels", "test"},
          st : {"idle", "sent", "ok", "failed"},
          arg : FormArgs \cup {None}, ans : {None}] :
     /\ t.st # "idle" \/ t.op = "save" => t.arg \in FormArgs
     /\ t.st # "idle" /\ t.stage \in {"create", "update"} =>
          t.op = "save" /\ t.arg.scopes # <<>>
     /\ t.op = "save" => t.stage # "test" /\ ChannelsFit(t.arg.form)}

(* What is selected can be selected, so that what is saved could be.       *)
FormShown(u) ==
  u \in Form!UiType /\ u.form.channels \subseteq Form!Selectable(u)

(* One rule is saved at a time.                                            *)
SavesKnown ==
  \A m, n \in Slots : net[m].op = "save" /\ net[n].op = "save"
                        => m = n /\ ui.saving

(* The rules saved for a key, and the keys a handler has still before it:  *)
(* for those none was saved yet.                                           *)
Saved(s) == srv.rules[s] + (IF srv.updated = s /\ s # None THEN 1 ELSE 0)
Ahead(t) ==
  LET left == IF t.st = "sent" THEN t.arg.scopes ELSE Tail(t.arg.scopes)
  IN t.stage \in {"create", "update"} /\ t.st \in {"sent", "ok"} =>
       \A i \in DOMAIN left : Saved(left[i]) = 0
RulesKnown ==
  ~ui.failed =>
    /\ \A s \in Keys \cup {None} : Saved(s) <= 1
    /\ ui.open /\ ~ui.saving => \A s \in Keys \cup {None} : Saved(s) = 0
    /\ \A n \in Slots : net[n].op = "save" => Ahead(net[n])
FormInv == /\ FormShown(ui) /\ srv \in Form!SrvType
           /\ net \in [Slots -> FormTasks]
           /\ SavesKnown /\ RulesKnown

(***************************************************************************)
(* The keys chosen are a list of keys with none twice, which the number of *)
(* keys bounds.                                                            *)
(***************************************************************************)
LEMMA KeyChoicesAre ==
  ASSUME Form!ConstantsFit, NEW c
  PROVE  c \in Form!KeyChoices <=> c \in Seq(Keys) /\ IsInjective(c)
<1>0. /\ Form!Cardinality(Keys) = Cardinality(Keys) /\ IsFiniteSet(Keys)
      /\ Form!IsInjective(c) <=> IsInjective(c)
  BY DEF Form!Cardinality, Cardinality, Form!IsInjective, IsInjective,
     Form!ConstantsFit, Form!IsFiniteSet, IsFiniteSet
<1>1. Cardinality(Keys) \in Nat
  BY <1>0, FS_CardinalityType
<1>2. ASSUME c \in Form!KeyChoices PROVE c \in Seq(Keys) /\ IsInjective(c)
  BY <1>0, <1>1, <1>2 DEF Form!KeyChoices, Form!BoundedSeq
<1>3. ASSUME c \in Seq(Keys), IsInjective(c) PROVE c \in Form!KeyChoices
  <2>1. c \in Injection(1..Len(c), Keys)
    BY <1>3 DEF Injection, IsInjective
  <2>2. Cardinality(1..Len(c)) = Len(c) /\ Len(c) \in Nat
    BY <1>3, FS_Interval
  <2>3. Len(c) \in 0..Cardinality(Keys)
    BY <1>0, <1>1, <2>1, <2>2, FS_Injection
  <2>4. c \in [1..Len(c) -> Keys]
    BY <1>3
  <2> QED BY <1>0, <1>3, <2>3, <2>4 DEF Form!KeyChoices, Form!BoundedSeq
<1> QED BY <1>2, <1>3

(* Keys that are ticked and unticked stay a list of keys, each once.       *)
LEMMA KeyChanges ==
  ASSUME Form!ConstantsFit, NEW c \in Form!KeyChoices, NEW k \in Keys
  PROVE  /\ <<>> \in Form!KeyChoices
         /\ ~Form!Contains(c, k) => Append(c, k) \in Form!KeyChoices
         /\ \A i \in DOMAIN c : Form!RemoveAt(c, i) \in Form!KeyChoices
<1>1. c \in Seq(Keys) /\ IsInjective(c)
  BY KeyChoicesAre
<1>2. <<>> \in Form!KeyChoices
  <2>1. <<>> \in Seq(Keys) /\ IsInjective(<<>>)
    BY DEF IsInjective
  <2> QED BY <2>1, KeyChoicesAre
<1>3. ASSUME ~Form!Contains(c, k) PROVE Append(c, k) \in Form!KeyChoices
  <2> DEFINE longer == Append(c, k)
  <2>1. /\ longer \in Seq(Keys) /\ DOMAIN longer = 1..Len(c) + 1
        /\ \A i \in 1..Len(c) : longer[i] = c[i]
        /\ longer[Len(c) + 1] = k
    BY <1>1
  <2>2. \A i \in 1..Len(c) : c[i] # k
    BY <1>3 DEF Form!Contains
  <2> HIDE DEF longer
  <2>3. IsInjective(longer)
    BY <1>1, <2>1, <2>2 DEF IsInjective
  <2> QED BY <2>1, <2>3, KeyChoicesAre DEF longer
<1>4. ASSUME NEW i \in DOMAIN c PROVE Form!RemoveAt(c, i) \in Form!KeyChoices
  <2> DEFINE before == SubSeq(c, 1, i - 1)
             after == SubSeq(c, i + 1, Len(c))
             rest == before \o after
  <2>1. i \in 1..Len(c)
    BY <1>1
  <2>2. /\ before \in Seq(Keys) /\ Len(before) = i - 1
        /\ \A j \in 1..i - 1 : before[j] = c[j]
    BY <1>1, <2>1
  <2>3. /\ after \in Seq(Keys) /\ Len(after) = Len(c) - i
        /\ \A j \in 1..Len(c) - i : after[j] = c[i + j]
    BY <1>1, <2>1
  <2>4. Form!RemoveAt(c, i) = rest
    BY DEF Form!RemoveAt
  <2> HIDE DEF before, after
  <2>5. /\ rest \in Seq(Keys) /\ Len(rest) = Len(before) + Len(after)
        /\ \A j \in 1..Len(before) : rest[j] = before[j]
        /\ \A j \in 1..Len(before) + Len(after) :
             j > Len(before) => rest[j] = after[j - Len(before)]
    BY <2>2, <2>3, Joined
  <2> HIDE DEF rest
  <2>6. /\ Len(rest) = Len(c) - 1
        /\ \A j \in 1..Len(c) - 1 : rest[j] = IF j < i THEN c[j] ELSE c[j + 1]
    <3>1. Len(rest) = Len(c) - 1
      BY <1>1, <2>1, <2>2, <2>3, <2>5
    <3>2. ASSUME NEW j \in 1..Len(c) - 1, j < i PROVE rest[j] = c[j]
      BY <1>1, <2>1, <2>2, <2>5, <3>2
    <3>3. ASSUME NEW j \in 1..Len(c) - 1, j >= i PROVE rest[j] = c[j + 1]
      <4>1. j - (i - 1) \in 1..Len(c) - i /\ i + (j - (i - 1)) = j + 1
        BY <1>1, <2>1, <3>3
      <4>2. j \in 1..Len(before) + Len(after) /\ j > Len(before)
        BY <1>1, <2>1, <2>2, <2>3, <3>3
      <4> QED BY <2>2, <2>3, <2>5, <4>1, <4>2
    <3> QED BY <2>1, <3>1, <3>2, <3>3
  <2>7. IsInjective(rest)
    <3>1. DOMAIN rest = 1..Len(c) - 1
      BY <2>5, <2>6
    <3>2. ASSUME NEW a \in 1..Len(c) - 1, NEW b \in 1..Len(c) - 1, rest[a] = rest[b]
          PROVE  a = b
      <4> DEFINE at(j) == IF j < i THEN j ELSE j + 1
      <4>1. /\ rest[a] = c[at(a)] /\ at(a) \in 1..Len(c)
            /\ rest[b] = c[at(b)] /\ at(b) \in 1..Len(c)
        BY <1>1, <2>1, <2>6
      <4>2. \A p, q \in 1..Len(c) : c[p] = c[q] => p = q
        BY <1>1 DEF IsInjective
      <4> HIDE DEF at
      <4>3. at(a) = at(b)
        BY <3>2, <4>1, <4>2
      <4> QED BY <2>1, <4>3 DEF at
    <3> QED BY <3>1, <3>2 DEF IsInjective
  <2> QED BY <2>4, <2>5, <2>7, KeyChoicesAre
<1> QED BY <1>2, <1>3, <1>4

(***************************************************************************)
(* The effects after a change, and the steps that only edit.               *)
(***************************************************************************)
LEMMA FormPruned ==
  ASSUME NEW u \in Form!UiType
  PROVE  /\ FormShown(Form!Pruned(u))
         /\ Form!Pruned(u).open = u.open /\ Form!Pruned(u).saving = u.saving
         /\ Form!Pruned(u).failed = u.failed
         /\ Form!Pruned(u).starts = u.starts
<1> DEFINE channels == u.form.channels \cap Form!Selectable(u)
           form == [u.form EXCEPT !.channels = channels]
           v == [u EXCEPT !.form = form]
<1>1. Form!Pruned(u) = v
  BY DEF Form!Pruned, Form!UiType
<1>2. u.form \in Form!Payloads
  BY DEF Form!UiType
<1>3. channels \in SUBSET Channels
  BY <1>2 DEF Form!Payloads
<1>4. form \in Form!Payloads
  BY <1>2, <1>3 DEF Form!Payloads
<1>5. v \in Form!UiType
  BY <1>4 DEF Form!UiType
<1>6. Form!Selectable(v) = Form!Selectable(u) /\ v.form.channels = channels
  BY <1>2 DEF Form!Selectable, Form!UiType, Form!Payloads
<1>7. /\ v.open = u.open /\ v.saving = u.saving /\ v.failed = u.failed
      /\ v.starts = u.starts
  BY DEF Form!UiType
<1> QED BY <1>1, <1>5, <1>6, <1>7 DEF FormShown

FormAlike(u) == /\ FormShown(u)
                /\ u.open => ui.open
                /\ u.saving = ui.saving /\ u.failed = ui.failed
(* What keeps the rules known, and the handlers as they are.               *)
LEMMA FormStays ==
  ASSUME FormInv, FormAlike(ui'), srv' = srv, net' = net
  PROVE  FormInv'
<1>1. SavesKnown'
  BY DEF FormInv, SavesKnown, FormAlike
<1>2. \A s : Saved(s)' = Saved(s)
  BY DEF Saved
<1>3. \A n \in Slots : Ahead(net[n])' <=> Ahead(net[n])
  BY DEF Ahead, Saved
<1>4. RulesKnown'
  BY <1>2, <1>3 DEF FormInv, RulesKnown, FormAlike
<1> QED BY <1>1, <1>4 DEF FormInv, FormAlike, FormShown, Form!Selectable

(* An edit of the form.                                                    *)
LEMMA FormEdits ==
  ASSUME FormInv, NEW u, FormAlike(u), Form!Edit(u)
  PROVE  FormInv'
<1>1. ui' = u /\ srv' = srv /\ net' = net
  BY DEF Form!Edit
<1>2. FormAlike(ui')
  BY <1>1
<1> QED BY <1>1, <1>2, FormStays

(***************************************************************************)
(* The steps of the editor.                                                *)
(***************************************************************************)
LEMMA FormSteps ==
  ASSUME Form!ConstantsFit, FormInv,
         \/ Form!NextStep \/ Form!PreviousStep \/ Form!NameRule
         \/ Form!ToggleAuto \/ Form!ApplyTemplate \/ Form!Cancel
         \/ Form!CloseResult
         \/ \E step \in 0..3 : Form!ClickStep(step)
         \/ \E k \in Keys : Form!ToggleScope(k)
  PROVE  FormInv'
<1>1. ui \in Form!UiType /\ ui.form.channels \subseteq Form!Selectable(ui)
  BY DEF FormInv, FormShown
<1>2. ASSUME NEW u \in Form!UiType, u.form = ui.form, u.known = ui.known,
             u.open => ui.open, u.saving = ui.saving, u.failed = ui.failed,
             Form!Edit(u)
      PROVE  FormInv'
  <2>1. FormAlike(u)
    BY <1>1, <1>2 DEF FormAlike, FormShown, Form!Selectable
  <2> QED BY <1>2, <2>1, FormEdits
<1>3. ASSUME NEW step \in 0..3, Form!Edit([ui EXCEPT !.step = step])
      PROVE  FormInv'
  <2> DEFINE u == [ui EXCEPT !.step = step]
  <2>1. /\ u \in Form!UiType /\ u.form = ui.form /\ u.known = ui.known
        /\ u.open = ui.open /\ u.saving = ui.saving /\ u.failed = ui.failed
    BY <1>1 DEF Form!UiType
  <2>2. Form!Edit(u)
    BY <1>3
  <2> HIDE DEF u
  <2> QED BY <1>2, <2>1, <2>2
<1>4. CASE Form!NextStep
  <2>1. ui.step + 1 \in 0..3 /\ Form!Edit([ui EXCEPT !.step = ui.step + 1])
    BY <1>1, <1>4 DEF Form!NextStep, Form!UiType
  <2> QED BY <1>3, <2>1
<1>5. CASE Form!PreviousStep
  <2>1. ui.step - 1 \in 0..3 /\ Form!Edit([ui EXCEPT !.step = ui.step - 1])
    BY <1>1, <1>5 DEF Form!PreviousStep, Form!UiType
  <2> QED BY <1>3, <2>1
<1>6. ASSUME NEW step \in 0..3, Form!ClickStep(step) PROVE FormInv'
  BY <1>3, <1>6 DEF Form!ClickStep
<1>7. CASE Form!NameRule
  <2> DEFINE u == [ui EXCEPT !.named = TRUE]
  <2>1. /\ u \in Form!UiType /\ u.form = ui.form /\ u.known = ui.known
        /\ u.open = ui.open /\ u.saving = ui.saving /\ u.failed = ui.failed
    BY <1>1 DEF Form!UiType
  <2>2. Form!Edit(u)
    BY <1>7 DEF Form!NameRule
  <2> HIDE DEF u
  <2> QED BY <1>2, <2>1, <2>2
<1>8. CASE Form!ApplyTemplate
  <2> DEFINE u == [ui EXCEPT !.expr = TRUE]
  <2>1. /\ u \in Form!UiType /\ u.form = ui.form /\ u.known = ui.known
        /\ u.open = ui.open /\ u.saving = ui.saving /\ u.failed = ui.failed
    BY <1>1 DEF Form!UiType
  <2>2. Form!Edit(u)
    BY <1>8 DEF Form!ApplyTemplate
  <2> HIDE DEF u
  <2> QED BY <1>2, <2>1, <2>2
<1>9. CASE Form!CloseResult
  <2> DEFINE u == [ui EXCEPT !.result = FALSE]
  <2>1. /\ u \in Form!UiType /\ u.form = ui.form /\ u.known = ui.known
        /\ u.open = ui.open /\ u.saving = ui.saving /\ u.failed = ui.failed
    BY <1>1 DEF Form!UiType
  <2>2. Form!Edit(u)
    BY <1>9 DEF Form!CloseResult
  <2> HIDE DEF u
  <2> QED BY <1>2, <2>1, <2>2
<1>10. ASSUME NEW auto \in BOOLEAN, NEW scopes \in Form!KeyChoices,
              Form!Edit([ui EXCEPT !.auto = auto, !.scopes = scopes])
       PROVE  FormInv'
  <2> DEFINE u == [ui EXCEPT !.auto = auto, !.scopes = scopes]
  <2>1. /\ u \in Form!UiType /\ u.form = ui.form /\ u.known = ui.known
        /\ u.open = ui.open /\ u.saving = ui.saving /\ u.failed = ui.failed
    BY <1>1 DEF Form!UiType
  <2>2. Form!Edit(u)
    BY <1>10
  <2> HIDE DEF u
  <2> QED BY <1>2, <2>1, <2>2
<1>11. CASE Form!ToggleAuto
  <2> DEFINE auto == ~ui.auto
  <2>1. auto \in BOOLEAN
    BY <1>1 DEF Form!UiType
  <2>2. <<>> \in Form!KeyChoices
    <3>1. <<>> \in Seq(Keys) /\ IsInjective(<<>>)
      BY DEF IsInjective
    <3> QED BY <3>1, KeyChoicesAre
  <2>3. Form!Edit([ui EXCEPT !.auto = auto, !.scopes = <<>>])
    BY <1>11 DEF Form!ToggleAuto
  <2> HIDE DEF auto
  <2> QED BY <1>10, <2>1, <2>2, <2>3
<1>12. ASSUME NEW k \in Keys, Form!ToggleScope(k) PROVE FormInv'
  <2> DEFINE place == CHOOSE n \in DOMAIN ui.scopes : ui.scopes[n] = k
             chosen == IF Form!Contains(ui.scopes, k)
                       THEN Form!RemoveAt(ui.scopes, place)
                       ELSE Append(ui.scopes, k)
             auto == chosen = <<>>
  <2>1. ui.scopes \in Form!KeyChoices
    BY <1>1 DEF Form!UiType
  <2>2. ui.scopes \in Seq(Keys)
    BY <2>1, KeyChoicesAre
  <2>3. Form!Contains(ui.scopes, k) => place \in DOMAIN ui.scopes
    BY <2>2 DEF Form!Contains
  <2> HIDE DEF place
  <2>4. chosen \in Form!KeyChoices
    BY <2>1, <2>3, KeyChanges
  <2>5. Form!Edit([ui EXCEPT !.scopes = chosen, !.auto = auto])
    BY <1>12, Zenon DEF Form!ToggleScope, place
  <2> HIDE DEF chosen
  <2>6. auto \in BOOLEAN
    OBVIOUS
  <2> HIDE DEF auto
  <2>7. [ui EXCEPT !.scopes = chosen, !.auto = auto]
          = [ui EXCEPT !.auto = auto, !.scopes = chosen]
    BY <1>1 DEF Form!UiType
  <2> QED BY <1>10, <2>4, <2>5, <2>6, <2>7
<1>13. CASE Form!Cancel
  <2> DEFINE u == [ui EXCEPT !.open = FALSE]
  <2>1. /\ u \in Form!UiType /\ u.form = ui.form /\ u.known = ui.known
        /\ ~u.open /\ u.saving = ui.saving /\ u.failed = ui.failed
    BY <1>1 DEF Form!UiType
  <2>2. FormAlike(u)
    BY <1>1, <2>1 DEF FormAlike, FormShown, Form!Selectable
  <2>3. ui' = u /\ srv' = srv /\ net' = net
    BY <1>13 DEF Form!Cancel
  <2> HIDE DEF u
  <2>4. FormAlike(ui')
    BY <2>2, <2>3
  <2> QED BY <2>3, <2>4, FormStays
<1> QED BY <1>4, <1>5, <1>6, <1>7, <1>8, <1>9, <1>11, <1>12, <1>13

(***************************************************************************)
(* The fields of the rule.                                                 *)
(***************************************************************************)
LEMMA FormFields ==
  ASSUME FormInv,
         \/ Form!AllChannels
         \/ \E l \in Labels : Form!AddLabel(l) \/ Form!RemoveLabel(l)
         \/ \E v \in Form!Visibilities : Form!SetVisibility(v)
         \/ \E g \in Teams : Form!ToggleGroup(g)
         \/ \E c \in Channels : Form!ToggleChannel(c)
  PROVE  FormInv'
<1>1. /\ ui \in Form!UiType /\ ui.form \in Form!Payloads
      /\ ui.form.channels \subseteq Form!Selectable(ui)
      /\ Form!Selectable(ui) \in SUBSET Channels
  BY DEF FormInv, FormShown, Form!UiType, Form!Selectable
<1>2. ASSUME NEW form \in Form!Payloads
      PROVE  LET u == [ui EXCEPT !.form = form]
             IN  /\ u \in Form!UiType /\ u.open = ui.open
                 /\ u.saving = ui.saving /\ u.failed = ui.failed
                 /\ u.form = form /\ u.known = ui.known
  BY <1>1 DEF Form!UiType
<1>3. ASSUME NEW channels \in SUBSET Form!Selectable(ui),
             Form!Edit([ui EXCEPT !.form.channels = channels])
      PROVE  FormInv'
  <2> DEFINE form == [ui.form EXCEPT !.channels = channels]
             u == [ui EXCEPT !.form = form]
  <2>1. form \in Form!Payloads
    BY <1>1 DEF Form!Payloads
  <2>2. /\ form.visibility = ui.form.visibility /\ form.groups = ui.form.groups
        /\ form.channels = channels
    BY <1>1 DEF Form!Payloads
  <2>3. Form!Edit(u)
    BY <1>3
  <2> HIDE DEF form
  <2>4. /\ u \in Form!UiType /\ u.open = ui.open
        /\ u.saving = ui.saving /\ u.failed = ui.failed
        /\ u.form = form /\ u.known = ui.known
    BY <1>2, <2>1
  <2> HIDE DEF u
  <2>5. FormAlike(u)
    BY <2>2, <2>4 DEF FormAlike, FormShown, Form!Selectable
  <2> QED BY <2>3, <2>5, FormEdits
<1>4. ASSUME NEW form \in Form!Payloads,
             Form!Edit(Form!Pruned([ui EXCEPT !.form = form]))
      PROVE  FormInv'
  <2> DEFINE u == [ui EXCEPT !.form = form]
             v == Form!Pruned(u)
  <2>1. u \in Form!UiType /\ u.open = ui.open
        /\ u.saving = ui.saving /\ u.failed = ui.failed
    BY <1>2
  <2>2. Form!Edit(v)
    BY <1>4
  <2> HIDE DEF u
  <2>3. FormAlike(v)
    BY <2>1, FormPruned DEF FormAlike
  <2> HIDE DEF v
  <2> QED BY <2>2, <2>3, FormEdits
<1>5. ASSUME NEW rows \in SUBSET Labels,
             Form!Edit(Form!Relabelled([ui EXCEPT !.rows = rows]))
      PROVE  FormInv'
  <2> DEFINE u == [ui EXCEPT !.rows = rows]
             labels == IF rows = {} THEN u.form.labels ELSE rows
             form == [u.form EXCEPT !.labels = labels]
             v == [u EXCEPT !.form = form]
  <2>1. /\ u \in Form!UiType /\ u.form = ui.form /\ u.known = ui.known
        /\ u.open = ui.open /\ u.saving = ui.saving /\ u.failed = ui.failed
        /\ u.rows = rows
    BY <1>1 DEF Form!UiType
  <2>2. Form!Edit(Form!Relabelled(u))
    BY <1>5
  <2> HIDE DEF u
  <2>3. labels \in SUBSET Labels
    BY <1>1, <2>1 DEF Form!Payloads
  <2>4. Form!Relabelled(u) = v
    BY <2>1 DEF Form!Relabelled, Form!UiType
  <2> HIDE DEF labels
  <2>5. /\ form \in Form!Payloads /\ form.visibility = ui.form.visibility
        /\ form.groups = ui.form.groups /\ form.channels = ui.form.channels
    BY <1>1, <2>1, <2>3 DEF Form!Payloads
  <2> HIDE DEF form
  <2>6. /\ v \in Form!UiType /\ v.form = form /\ v.known = ui.known
        /\ v.open = ui.open /\ v.saving = ui.saving /\ v.failed = ui.failed
    BY <2>1, <2>5 DEF Form!UiType
  <2> HIDE DEF v
  <2>7. FormAlike(v)
    BY <1>1, <2>5, <2>6 DEF FormAlike, FormShown, Form!Selectable
  <2> QED BY <2>2, <2>4, <2>7, FormEdits
<1>6. CASE Form!AllChannels
  <2>1. PICK channels \in {{}, Form!Selectable(ui)} :
          Form!Edit([ui EXCEPT !.form.channels = channels])
    BY <1>6 DEF Form!AllChannels
  <2> QED BY <1>3, <2>1
<1>7. ASSUME NEW l \in Labels, Form!AddLabel(l) \/ Form!RemoveLabel(l)
      PROVE  FormInv'
  <2>1. PICK rows \in {ui.rows \cup {l}, ui.rows \ {l}} :
          Form!Edit(Form!Relabelled([ui EXCEPT !.rows = rows]))
    BY <1>7 DEF Form!AddLabel, Form!RemoveLabel
  <2>2. rows \in SUBSET Labels
    BY <1>1, <2>1 DEF Form!UiType
  <2> QED BY <1>5, <2>1, <2>2
<1>8. ASSUME NEW v \in Form!Visibilities, Form!SetVisibility(v)
      PROVE  FormInv'
  <2> DEFINE groups == IF v = "group" THEN ui.form.groups ELSE {}
             form == [ui.form EXCEPT !.visibility = v, !.groups = groups]
  <2>1. groups \in SUBSET Teams
    BY <1>1 DEF Form!Payloads
  <2>2. Form!Edit(Form!Pruned([ui EXCEPT !.form = form]))
    <3>1. [ui EXCEPT !.form.visibility = v,
                     !.form.groups = IF v = "group" THEN @ ELSE {}]
            = [ui EXCEPT !.form = form]
      BY <1>1 DEF Form!UiType, Form!Payloads
    <3> QED BY <1>8, <3>1 DEF Form!SetVisibility
  <2> HIDE DEF groups
  <2>3. form \in Form!Payloads
    BY <1>1, <2>1 DEF Form!Payloads
  <2> HIDE DEF form
  <2> QED BY <1>4, <2>2, <2>3
<1>9. ASSUME NEW g \in Teams, Form!ToggleGroup(g) PROVE FormInv'
  <2> DEFINE groups == IF g \in ui.form.groups THEN ui.form.groups \ {g}
                       ELSE ui.form.groups \cup {g}
             form == [ui.form EXCEPT !.groups = groups]
  <2>1. groups \in SUBSET Teams
    BY <1>1 DEF Form!Payloads
  <2>2. Form!Edit(Form!Pruned([ui EXCEPT !.form = form]))
    BY <1>9 DEF Form!ToggleGroup
  <2> HIDE DEF groups
  <2>3. form \in Form!Payloads
    BY <1>1, <2>1 DEF Form!Payloads
  <2> HIDE DEF form
  <2> QED BY <1>4, <2>2, <2>3
<1>10. ASSUME NEW c \in Channels, Form!ToggleChannel(c) PROVE FormInv'
  <2> DEFINE channels == IF c \in ui.form.channels THEN ui.form.channels \ {c}
                         ELSE ui.form.channels \cup {c}
  <2>1. c \in Form!Selectable(ui) /\ Form!Edit([ui EXCEPT !.form.channels = channels])
    BY <1>10 DEF Form!ToggleChannel
  <2>2. channels \in SUBSET Form!Selectable(ui)
    BY <1>1, <2>1
  <2> HIDE DEF channels
  <2> QED BY <1>3, <2>1, <2>2
<1> QED BY <1>6, <1>7, <1>8, <1>9, <1>10

(***************************************************************************)
(* The handlers.  A slot that is put to another use keeps what is known of *)
(* the saves, when no new one begins and the rules do not change.          *)
(***************************************************************************)
LEMMA FormTaskTypes ==
  /\ Form!NoTask \in FormTasks /\ Form!NoTask.op = "none"
  /\ \A arg \in FormArgs :
       /\ Form!Task("channels", "channels", arg) \in FormTasks
       /\ Form!Task("test", "test", arg) \in FormTasks
       /\ ChannelsFit(arg.form) /\ arg.scopes # <<>> =>
            /\ Form!Task("save", "create", arg) \in FormTasks
            /\ Form!Task("save", "update", arg) \in FormTasks
  BY DEF FormTasks, Form!NoTask, Form!Task

(* A slot put to another use, the rules of the service unchanged.          *)
LEMMA FormPuts ==
  ASSUME FormInv, FormShown(ui'), ui'.open => ui.open, ui.failed => ui'.failed,
         srv' = srv, NEW n, NEW t \in FormTasks,
         net' = [net EXCEPT ![n] = t],
         \/ t.op # "save" /\ ui'.saving = ui.saving
         \/ t.op # "save" /\ ui'.failed /\ n \in Slots /\ net[n].op = "save"
         \/ t.op # "save" /\ ~ui'.open /\ n \in Slots /\ net[n].op = "save"
         \/ /\ t.op = "save" /\ ui'.saving
            /\ \A m \in Slots : net[m].op = "save" => m = n
            /\ ~ui'.failed => Ahead(t)
  PROVE  FormInv'
<1>1. net' \in [Slots -> FormTasks]
  BY DEF FormInv
<1>2. \A m \in Slots : net'[m] = IF m = n THEN t ELSE net[m]
  BY DEF FormInv
<1>3. SavesKnown'
  BY <1>2 DEF FormInv, SavesKnown
<1>4. \A s : Saved(s)' = Saved(s)
  BY DEF Saved
<1>5. \A m \in Slots : Ahead(net[m])' <=> IF m = n THEN Ahead(t)
                                          ELSE Ahead(net[m])
  <2>1. ASSUME NEW m \in Slots, NEW x, net'[m] = x
        PROVE  Ahead(net[m])' <=> Ahead(x)
    BY <2>1 DEF Ahead, Saved
  <2> QED BY <1>2, <2>1
<1>6. RulesKnown'
  <2> SUFFICES ASSUME ~ui'.failed
               PROVE  /\ \A s \in Keys \cup {None} : Saved(s)' <= 1
                      /\ ui'.open /\ ~ui'.saving
                           => \A s \in Keys \cup {None} : Saved(s)' = 0
                      /\ \A m \in Slots : net'[m].op = "save" => Ahead(net[m])'
    BY DEF RulesKnown
  <2>1. /\ \A s \in Keys \cup {None} : Saved(s) <= 1
        /\ ui.open /\ ~ui.saving => \A s \in Keys \cup {None} : Saved(s) = 0
        /\ \A m \in Slots : net[m].op = "save" => Ahead(net[m])
    BY DEF FormInv, RulesKnown
  <2>2. ui'.open /\ ~ui'.saving => \A s \in Keys \cup {None} : Saved(s)' = 0
    BY <1>4, <2>1
  <2>3. \A m \in Slots : net'[m].op = "save" => Ahead(net[m])'
    BY <1>2, <1>5, <2>1
  <2> QED BY <1>4, <2>1, <2>2, <2>3
<1> QED BY <1>1, <1>3, <1>6 DEF FormInv, FormShown, Form!Selectable

(* A handler that begins.                                                  *)
LEMMA FormStarted ==
  ASSUME Form!BoundsFit, NEW u, FormShown(u), ui.starts < MaxStarts,
         u.starts = ui.starts
  PROVE  LET v == [u EXCEPT !.starts = @ + 1]
         IN  /\ FormShown(v) /\ v.open = u.open /\ v.saving = u.saving
             /\ v.failed = u.failed
<1> DEFINE v == [u EXCEPT !.starts = @ + 1]
<1>1. /\ v \in Form!UiType /\ v.form = u.form /\ v.known = u.known
      /\ v.open = u.open /\ v.saving = u.saving /\ v.failed = u.failed
  BY DEF FormShown, Form!UiType, Form!BoundsFit
<1> HIDE DEF v
<1>2. FormShown(v)
  BY <1>1 DEF FormShown, Form!Selectable
<1> QED BY <1>1, <1>2 DEF v

(***************************************************************************)
(* The keys a rule is saved for are chosen ones, each once.                *)
(***************************************************************************)
LEMMA TargetsFit ==
  ASSUME Form!ConstantsFit, ui \in Form!UiType
  PROVE  Form!Targets \in KeyLists /\ Form!Targets # <<>>
<1>1. ui.scopes \in Seq(Keys) /\ IsInjective(ui.scopes) /\ Active \in Keys
  BY KeyChoicesAre DEF Form!UiType, Form!ConstantsFit
<1>2. \A x \in Keys \cup {None} : <<x>> \in KeyLists /\ <<x>> # <<>>
  BY DEF KeyLists, IsInjective
<1>3. ui.scopes \in KeyLists
  BY <1>1 DEF KeyLists
<1> QED BY <1>1, <1>2, <1>3 DEF Form!Targets

(* The buttons of the form that begin one.                                 *)
LEMMA FormHandlers ==
  ASSUME Form!BoundsFit, Form!ConstantsFit, FormInv,
         Form!RefreshChannels \/ Form!TestRule \/ Form!Submit
  PROVE  FormInv'
<1>1. ui \in Form!UiType /\ FormShown(ui)
  BY DEF FormInv, FormShown
<1>2. Form!NoArg \in FormArgs
  BY DEF Form!NoArg, FormArgs, KeyLists, IsInjective, Form!Empty, Form!Payloads,
     Form!Visibilities
<1>3. ASSUME NEW u, FormAlike(u), u.starts = ui.starts,
             NEW op \in {"channels", "test"}, Form!Start(u, op, op, Form!NoArg)
      PROVE  FormInv'
  <2> DEFINE v == [u EXCEPT !.starts = @ + 1]
             t == Form!Task(op, op, Form!NoArg)
  <2>1. PICK n : net' = [net EXCEPT ![n] = t]
    BY <1>3 DEF Form!Start, Form!Begin
  <2>2. ui' = v /\ srv' = srv /\ ui.starts < MaxStarts
    BY <1>3 DEF Form!Start
  <2>3. /\ FormShown(v) /\ v.open = u.open /\ v.saving = u.saving
        /\ v.failed = u.failed
    BY <1>3, <2>2, FormStarted DEF FormAlike
  <2>4. t \in FormTasks /\ t.op # "save"
    BY <1>2, FormTaskTypes DEF Form!Task
  <2> HIDE DEF v, t
  <2>5. /\ FormShown(ui') /\ ui'.saving = ui.saving
        /\ ui'.open => ui.open
        /\ ui'.failed = ui.failed
    BY <1>3, <2>2, <2>3 DEF FormAlike
  <2> QED BY <2>1, <2>2, <2>4, <2>5, FormPuts
<1>4. CASE Form!RefreshChannels
  BY <1>1, <1>3, <1>4 DEF Form!RefreshChannels, FormAlike
<1>5. CASE Form!TestRule
  <2> DEFINE u == [ui EXCEPT !.testing = TRUE]
  <2>1. /\ u \in Form!UiType /\ u.form = ui.form /\ u.known = ui.known
        /\ u.open = ui.open /\ u.saving = ui.saving /\ u.failed = ui.failed
        /\ u.starts = ui.starts
    BY <1>1 DEF Form!UiType
  <2>2. Form!Start(u, "test", "test", Form!NoArg)
    BY <1>5 DEF Form!TestRule
  <2> HIDE DEF u
  <2>3. FormAlike(u)
    BY <1>1, <2>1 DEF FormAlike, FormShown, Form!Selectable
  <2> QED BY <1>3, <2>1, <2>2, <2>3
<1>6. CASE Form!Submit
  <2> DEFINE u == [ui EXCEPT !.saving = TRUE]
             v == [u EXCEPT !.starts = @ + 1]
             arg == [scopes |-> Form!Targets, form |-> ui.form]
             stage == IF ui.id THEN "update" ELSE "create"
             t == Form!Task("save", stage, arg)
  <2>1. /\ u \in Form!UiType /\ u.form = ui.form /\ u.known = ui.known
        /\ u.open = ui.open /\ u.saving /\ u.failed = ui.failed
        /\ u.starts = ui.starts
    BY <1>1 DEF Form!UiType
  <2>2. FormShown(u)
    BY <1>1, <2>1 DEF FormShown, Form!Selectable
  <2>3. /\ ui.open /\ ~ui.saving /\ Form!Start(u, "save", stage, arg)
    BY <1>6 DEF Form!Submit, Form!At, Form!CanSubmit
  <2>4. PICK n : net' = [net EXCEPT ![n] = t]
    BY <2>3 DEF Form!Start, Form!Begin
  <2>5. ui' = v /\ srv' = srv /\ ui.starts < MaxStarts
    BY <2>3 DEF Form!Start
  <2> HIDE DEF u
  <2>6. FormShown(v) /\ v.open = u.open /\ v.saving /\ v.failed = u.failed
    BY <2>1, <2>2, <2>5, FormStarted
  <2>7. arg \in FormArgs /\ arg.scopes # <<>> /\ ChannelsFit(arg.form)
    <3>1. Form!Targets \in KeyLists /\ Form!Targets # <<>>
      BY <1>1, TargetsFit
    <3>2. ChannelsFit(ui.form)
      BY <1>1 DEF FormShown, Form!Selectable, ChannelsFit
    <3>3. ui.form \in Form!Payloads
      BY <1>1 DEF Form!UiType
    <3> QED BY <3>1, <3>2, <3>3 DEF FormArgs
  <2>8. t \in FormTasks /\ t.op = "save" /\ t.st = "sent" /\ t.arg = arg
    BY <2>7, FormTaskTypes DEF Form!Task
  <2>9. \A m \in Slots : net[m].op # "save"
    BY <2>3 DEF FormInv, SavesKnown
  <2>10. ~ui.failed => Ahead(t)
    <3>1. ~ui.failed => \A s \in Keys \cup {None} : Saved(s) = 0
      BY <2>3 DEF FormInv, RulesKnown
    <3>2. arg.scopes \in Seq(Keys \cup {None})
      BY <2>7 DEF FormArgs, KeyLists
    <3> HIDE DEF arg, t
    <3> QED BY <2>8, <3>1, <3>2 DEF Ahead
  <2> HIDE DEF v, t
  <2> QED BY <2>1, <2>3, <2>4, <2>5, <2>6, <2>8, <2>9, <2>10, FormPuts
<1> QED BY <1>4, <1>5, <1>6

(***************************************************************************)
(* The service: a rule is made for the first of the keys that are left.    *)
(***************************************************************************)
LEMMA FirstKey ==
  ASSUME NEW c \in KeyLists, c # <<>>
  PROVE  /\ Head(c) \in Keys \cup {None} /\ Tail(c) \in KeyLists
         /\ 1 \in DOMAIN c /\ c[1] = Head(c)
         /\ \A i \in DOMAIN Tail(c) :
              /\ i + 1 \in DOMAIN c /\ Tail(c)[i] = c[i + 1]
              /\ Tail(c)[i] # Head(c)
<1>1. c \in Seq(Keys \cup {None}) /\ IsInjective(c)
  BY DEF KeyLists
<1>2. /\ Tail(c) \in Seq(Keys \cup {None}) /\ 1 \in DOMAIN c /\ c[1] = Head(c)
      /\ \A i \in DOMAIN Tail(c) :
           i + 1 \in DOMAIN c /\ Tail(c)[i] = c[i + 1] /\ i \in 1..Len(Tail(c))
  BY <1>1
<1>3. \A i \in DOMAIN Tail(c) : c[i + 1] # c[1]
  <2>1. \A p, q \in DOMAIN c : c[p] = c[q] => p = q
    BY <1>1 DEF IsInjective
  <2>2. \A i \in DOMAIN Tail(c) : i + 1 # 1
    BY <1>2
  <2> QED BY <1>2, <2>1, <2>2
<1>4. IsInjective(Tail(c))
  <2> SUFFICES ASSUME NEW i \in DOMAIN Tail(c), NEW j \in DOMAIN Tail(c),
                      Tail(c)[i] = Tail(c)[j]
               PROVE  i = j
    BY DEF IsInjective
  <2>1. \A p, q \in DOMAIN c : c[p] = c[q] => p = q
    BY <1>1 DEF IsInjective
  <2>2. i + 1 = j + 1
    BY <1>2, <2>1
  <2> QED BY <1>2, <2>2
<1>5. Tail(c) \in KeyLists
  BY <1>2, <1>4 DEF KeyLists
<1> QED BY <1>1, <1>2, <1>3, <1>5

(* A rule is created or updated, which its handler knows of.               *)
LEMMA FormExecutes ==
  ASSUME FormInv, NEW n \in Slots, NEW t, net[n] = t, t.st = "sent",
         t.stage \in {"create", "update"},
         ui' = ui, srv' = Form!Executed(t), NEW st \in {"ok", "failed"},
         net' = [net EXCEPT ![n] = [t EXCEPT !.st = st, !.ans = None]]
  PROVE  FormInv'
<1> DEFINE c == t.arg.scopes
           h == Head(c)
           u == [t EXCEPT !.st = st, !.ans = None]
<1>1. /\ t \in FormTasks /\ t.op = "save" /\ c \in KeyLists /\ c # <<>>
      /\ srv \in Form!SrvType
  BY DEF FormInv, FormTasks, FormArgs
<1>2. u \in FormTasks /\ u.op = "save" /\ u.stage = t.stage /\ u.st = st
      /\ u.arg.scopes = c
  BY <1>1 DEF FormTasks
<1>3. ui.saving /\ \A m \in Slots : net[m].op = "save" => m = n
  BY <1>1 DEF FormInv, SavesKnown
<1>4. h \in Keys \cup {None}
  BY <1>1, FirstKey
<1> HIDE DEF u, h
<1>5. /\ srv' \in Form!SrvType
      /\ \/ /\ srv'.updated = srv.updated
            /\ \A s \in Keys \cup {None} :
                 srv'.rules[s] = srv.rules[s] + (IF s = h THEN 1 ELSE 0)
         \/ srv'.rules = srv.rules /\ srv'.updated = h
  <2>1. CASE t.stage = "create"
    <3>1. srv' = [srv EXCEPT !.rules[h] = @ + 1]
      BY <2>1 DEF Form!Executed, h
    <3> QED BY <1>1, <1>4, <3>1 DEF Form!SrvType
  <2>2. CASE t.stage = "update"
    <3>1. srv' = [srv EXCEPT !.updated = h]
      BY <2>2 DEF Form!Executed, h
    <3> QED BY <1>1, <1>4, <3>1 DEF Form!SrvType
  <2> QED BY <2>1, <2>2
<1>6. \A s \in Keys \cup {None} :
        /\ Saved(s) \in Nat /\ Saved(s)' \in Nat
        /\ s # h => Saved(s)' <= Saved(s)
        /\ Saved(s)' <= Saved(s) + 1
  BY <1>1, <1>5 DEF Saved, Form!SrvType
<1>7. \A m \in Slots : net'[m] = IF m = n THEN u ELSE net[m]
  BY DEF FormInv, u
<1>8. net' \in [Slots -> FormTasks]
  BY <1>2 DEF FormInv, u
<1>9. SavesKnown'
  BY <1>3, <1>7 DEF SavesKnown
<1>10. RulesKnown'
  <2> SUFFICES ASSUME ~ui.failed
               PROVE  /\ \A s \in Keys \cup {None} : Saved(s)' <= 1
                      /\ \A m \in Slots : net'[m].op = "save" => Ahead(net[m])'
    BY <1>3 DEF RulesKnown
  <2>1. /\ \A s \in Keys \cup {None} : Saved(s) <= 1
        /\ \A i \in DOMAIN c : Saved(c[i]) = 0
    BY <1>1 DEF FormInv, RulesKnown, Ahead
  <2>2. Saved(h) = 0
    BY <1>1, <2>1, FirstKey DEF h
  <2>3. \A i \in DOMAIN Tail(c) : Saved(Tail(c)[i])' = 0
    <3> SUFFICES ASSUME NEW i \in DOMAIN Tail(c) PROVE Saved(Tail(c)[i])' = 0
      OBVIOUS
    <3> DEFINE s == Tail(c)[i]
    <3>0. i + 1 \in DOMAIN c /\ s = c[i + 1] /\ s # h
      BY <1>1, FirstKey DEF h
    <3>1. s # h /\ s \in Keys \cup {None} /\ Saved(s) = 0
      <4>1. c \in Seq(Keys \cup {None})
        BY <1>1 DEF KeyLists
      <4> QED BY <2>1, <3>0, <4>1
    <3> HIDE DEF s
    <3>2. srv'.rules[s] + (IF srv'.updated = s /\ s # None THEN 1 ELSE 0) = 0
      BY <1>6, <3>1 DEF Saved
    <3> QED BY <3>2 DEF Saved, s
  <2>4. Ahead(net[n])'
    <3> DEFINE left == Tail(c)
    <3>1. net'[n].st # "sent" /\ Tail(net'[n].arg.scopes) = left
      BY <1>2, <1>7
    <3> HIDE DEF left
    <3>2. \A i \in DOMAIN left : Saved(left[i])' = 0
      BY <2>3 DEF left
    <3> QED BY <3>1, <3>2 DEF Ahead, Saved
  <2> QED BY <1>3, <1>6, <1>7, <2>1, <2>2, <2>4
<1> QED BY <1>5, <1>8, <1>9, <1>10 DEF FormInv, FormShown, Form!Selectable

(* The service answers the requests of the form.                           *)
LEMMA FormServes ==
  ASSUME FormInv, NEW n \in Slots, Form!Serve(n)
  PROVE  FormInv'
<1> DEFINE t == net[n]
<1>1. /\ t \in FormTasks /\ t.st = "sent" /\ ui' = ui /\ FormShown(ui)
  BY DEF FormInv, Form!Serve, Form!Waiting
<1>2. PICK st \in {"ok", "failed"} :
        /\ net' = [net EXCEPT ![n] = [t EXCEPT !.st = st, !.ans = None]]
        /\ \/ srv' = Form!Executed(t)
           \/ srv' = srv /\ st = "failed"
  BY DEF Form!Serve, Form!Reply
<1>3. CASE srv' = srv /\ (st = "failed" \/ t.stage \notin {"create", "update"})
  <2> DEFINE u == [t EXCEPT !.st = st, !.ans = None]
  <2>1. u \in FormTasks /\ u.op = t.op /\ Ahead(u)
    BY <1>1, <1>3 DEF FormTasks, Ahead
  <2>2. net' = [net EXCEPT ![n] = u]
    BY <1>2
  <2> HIDE DEF u
  <2>3. t.op = "save" => /\ ui.saving
                         /\ \A m \in Slots : net[m].op = "save" => m = n
    BY DEF FormInv, SavesKnown
  <2> QED BY <1>1, <1>3, <2>1, <2>2, <2>3, FormPuts
<1>4. CASE srv' = Form!Executed(t) /\ t.stage \notin {"create", "update"}
  <2>1. srv' = srv
    BY <1>4 DEF Form!Executed
  <2> QED BY <1>3, <1>4, <2>1
<1>5. CASE srv' = Form!Executed(t) /\ t.stage \in {"create", "update"}
  BY <1>1, <1>2, <1>5, FormExecutes
<1> QED BY <1>2, <1>3, <1>4, <1>5

(***************************************************************************)
(* The answers.                                                            *)
(***************************************************************************)
LEMMA FormNoted ==
  ASSUME NEW u, FormShown(u), NEW t
  PROVE  LET v == Form!Noted(u, t)
         IN  /\ FormShown(v) /\ v.open = u.open /\ v.saving = u.saving
             /\ u.failed \/ t.st = "failed" => v.failed
<1> DEFINE failed == u.failed \/ t.st = "failed"
           v == [u EXCEPT !.failed = failed]
<1>1. failed \in BOOLEAN
  OBVIOUS
<1>2. Form!Noted(u, t) = v
  BY Zenon DEF Form!Noted
<1>3. v \in Form!UiType
  <2> HIDE DEF failed
  <2> QED BY <1>1 DEF FormShown, Form!UiType
<1>4. /\ v.form = u.form /\ v.known = u.known
      /\ v.open = u.open /\ v.saving = u.saving /\ v.failed = failed
  <2> HIDE DEF failed
  <2> QED BY DEF FormShown, Form!UiType
<1> HIDE DEF v
<1>5. FormShown(v)
  BY <1>3, <1>4 DEF FormShown, Form!Selectable
<1> QED BY <1>2, <1>4, <1>5 DEF failed

(* The loop over the keys goes on to the next, or ends.                    *)
LEMMA FormSaves ==
  ASSUME FormInv, NEW n \in Slots, Form!DeliverSave(n)
  PROVE  FormInv'
<1> DEFINE t == net[n]
           rest == Tail(t.arg.scopes)
<1>1. /\ t \in FormTasks /\ t.st \in {"ok", "failed"} /\ srv' = srv
      /\ t.stage \in {"create", "update"} /\ t.op = "save"
      /\ t.arg \in FormArgs /\ t.arg.scopes # <<>> /\ t.arg.scopes \in KeyLists
      /\ ui \in Form!UiType /\ FormShown(ui)
  BY DEF FormInv, FormShown, Form!DeliverSave, Form!Back, FormTasks, FormArgs
<1>2. ui.saving /\ \A m \in Slots : net[m].op = "save" => m = n
  BY <1>1 DEF FormInv, SavesKnown
<1>3. CASE t.st = "failed"
  <2> DEFINE u == [ui EXCEPT !.saving = FALSE]
  <2>1. ui' = Form!Noted(u, t) /\ net' = [net EXCEPT ![n] = Form!NoTask]
    BY <1>3 DEF Form!DeliverSave, Form!Finish
  <2>2. /\ u \in Form!UiType /\ u.form = ui.form /\ u.known = ui.known
        /\ u.open = ui.open
    BY <1>1 DEF Form!UiType
  <2> HIDE DEF u
  <2>3. FormShown(u)
    BY <1>1, <2>2 DEF FormShown, Form!Selectable
  <2>4. FormShown(ui') /\ ui'.open = ui.open /\ ui'.failed
    BY <1>3, <2>1, <2>2, <2>3, FormNoted
  <2> QED BY <1>1, <2>1, <2>4, FormTaskTypes, FormPuts
<1>4. CASE t.st = "ok"
  <2> DEFINE stage == IF rest = <<>> THEN "reload" ELSE "create"
             arg == [t.arg EXCEPT !.scopes = rest]
             u == Form!Task(t.op, stage, arg)
  <2>1. ui' = ui /\ net' = [net EXCEPT ![n] = u]
    BY <1>4 DEF Form!DeliverSave, Form!Continue
  <2>2. rest \in KeyLists
    BY <1>1, FirstKey
  <2>3. arg \in FormArgs /\ arg.scopes = rest /\ arg.form = t.arg.form
    BY <1>1, <2>2 DEF FormArgs
  <2>4. ChannelsFit(arg.form)
    BY <1>1, <2>3 DEF FormTasks
  <2>5. u \in FormTasks
    BY <1>1, <2>3, <2>4 DEF FormTasks, Form!Task
  <2>6. u.op = "save" /\ u.st = "sent" /\ u.arg.scopes = rest
    BY <1>1, <2>3 DEF Form!Task
  <2>7. ~ui.failed => Ahead(u)
    <3>1. ~ui.failed => \A i \in DOMAIN rest : Saved(rest[i]) = 0
      BY <1>1, <1>4 DEF FormInv, RulesKnown, Ahead
    <3> HIDE DEF u, rest
    <3> QED BY <2>6, <3>1 DEF Ahead
  <2> HIDE DEF u
  <2> QED BY <1>1, <1>2, <2>1, <2>5, <2>6, <2>7, FormPuts
<1> QED BY <1>1, <1>3, <1>4

(* The answers to the form.                                                *)
LEMMA FormAnswers ==
  ASSUME FormInv, NEW n \in Slots, Form!DeliverReload(n) \/ Form!DeliverTest(n)
  PROVE  FormInv'
<1> DEFINE t == net[n]
<1>1. /\ t \in FormTasks /\ srv' = srv /\ ui \in Form!UiType /\ FormShown(ui)
      /\ srv \in Form!SrvType /\ net' = [net EXCEPT ![n] = Form!NoTask]
  BY DEF FormInv, FormShown, Form!DeliverReload, Form!DeliverTest, Form!Finish
<1>2. CASE Form!DeliverReload(n)
  <2> DEFINE listed == IF t.st = "ok" THEN srv.channels ELSE ui.known
             saving == IF t.op = "save" THEN FALSE ELSE ui.saving
             open == IF t.op = "save" THEN FALSE ELSE ui.open
             u == [ui EXCEPT !.known = listed, !.saving = saving, !.open = open]
             v == Form!Pruned(u)
  <2>1. ui' = Form!Noted(v, t)
    BY <1>2 DEF Form!DeliverReload
  <2>2. /\ listed \in SUBSET Channels /\ saving \in BOOLEAN /\ open \in BOOLEAN
        /\ t.op = "save" => ~open
        /\ t.op # "save" => open = ui.open /\ saving = ui.saving
    BY <1>1 DEF Form!UiType, Form!SrvType
  <2> HIDE DEF listed, saving, open
  <2>3. /\ u \in Form!UiType /\ u.open = open /\ u.saving = saving
        /\ u.failed = ui.failed
    BY <1>1, <2>2 DEF Form!UiType
  <2> HIDE DEF u
  <2>4. /\ FormShown(v) /\ v.open = open /\ v.saving = saving
        /\ v.failed = ui.failed
    BY <2>3, FormPruned
  <2> HIDE DEF v
  <2>5. /\ FormShown(ui') /\ ui'.open = open /\ ui'.saving = saving
        /\ ui.failed => ui'.failed
    BY <2>1, <2>4, FormNoted
  <2> QED BY <1>1, <2>2, <2>5, FormTaskTypes, FormPuts
<1>3. CASE Form!DeliverTest(n)
  <2> DEFINE u == [ui EXCEPT !.testing = FALSE, !.result = TRUE]
  <2>1. ui' = Form!Noted(u, t) /\ t.op # "save"
    BY <1>1, <1>3 DEF Form!DeliverTest, FormTasks
  <2>2. /\ u \in Form!UiType /\ u.form = ui.form /\ u.known = ui.known
        /\ u.open = ui.open /\ u.saving = ui.saving /\ u.failed = ui.failed
    BY <1>1 DEF Form!UiType
  <2> HIDE DEF u
  <2>3. FormShown(u)
    BY <1>1, <2>2 DEF FormShown, Form!Selectable
  <2>4. /\ FormShown(ui') /\ ui'.open = ui.open /\ ui'.saving = ui.saving
        /\ ui.failed => ui'.failed
    BY <2>1, <2>2, <2>3, FormNoted
  <2> QED BY <1>1, <2>4, FormTaskTypes, FormPuts
<1> QED BY <1>2, <1>3

(***************************************************************************)
(* The editor itself.                                                      *)
(***************************************************************************)
LEMMA FormInit ==
  Form!BoundsFit /\ Form!ConstantsFit /\ Form!Init => FormInv
<1> SUFFICES ASSUME Form!BoundsFit, Form!ConstantsFit, Form!Init PROVE FormInv
  OBVIOUS
<1>1. PICK known \in {{}, Channels} :
        ui \in {Form!Editing(FALSE, Form!Empty, known, <<>>),
                Form!Editing(TRUE, Form!Existing, known, <<Active>>)}
  BY DEF Form!Init
<1>2. ASSUME NEW id \in BOOLEAN, NEW form \in Form!Payloads,
             NEW scopes \in Form!KeyChoices
      PROVE  /\ FormShown(Form!Editing(id, form, known, scopes))
             /\ Form!Editing(id, form, known, scopes).starts = 0
  <2> DEFINE auto == scopes = <<>>
             u == [open |-> TRUE, id |-> id, step |-> 0, named |-> id,
                   expr |-> id, auto |-> auto, scopes |-> scopes,
                   rows |-> form.labels, form |-> form, known |-> known,
                   saving |-> FALSE, testing |-> FALSE, result |-> FALSE,
                   starts |-> 0, failed |-> FALSE]
  <2>1. Form!Editing(id, form, known, scopes) = Form!Pruned(u)
    BY Zenon DEF Form!Editing
  <2>2. auto \in BOOLEAN
    OBVIOUS
  <2> HIDE DEF auto
  <2>3. known \in SUBSET Channels /\ form.labels \in SUBSET Labels
    BY <1>1 DEF Form!Payloads
  <2>4. u \in Form!UiType /\ u.starts = 0
    BY <2>2, <2>3 DEF Form!UiType, Form!BoundsFit
  <2> HIDE DEF u
  <2> QED BY <2>1, <2>4, FormPruned
<1>3. Form!Empty \in Form!Payloads /\ Form!Existing \in Form!Payloads
  BY DEF Form!Empty, Form!Existing, Form!Payloads, Form!Visibilities
<1>4. <<>> \in Form!KeyChoices /\ <<Active>> \in Form!KeyChoices
  <2>1. /\ <<>> \in Seq(Keys) /\ IsInjective(<<>>)
        /\ <<Active>> \in Seq(Keys) /\ IsInjective(<<Active>>)
    BY DEF IsInjective, Form!ConstantsFit
  <2> QED BY <2>1, KeyChoicesAre
<1>5. FormShown(ui)
  BY <1>1, <1>2, <1>3, <1>4
<1>6. /\ srv = [rules |-> [s \in Keys \cup {None} |-> 0], updated |-> None,
                channels |-> Channels]
      /\ net = [i \in Slots |-> Form!NoTask]
  BY DEF Form!Init, Form!Quiet
<1>7. srv \in Form!SrvType /\ \A s \in Keys \cup {None} : Saved(s) = 0
  BY <1>6 DEF Form!SrvType, Saved
<1>8. net \in [Slots -> FormTasks] /\ \A n \in Slots : net[n].op # "save"
  BY <1>6, FormTaskTypes
<1> QED BY <1>5, <1>7, <1>8 DEF FormInv, SavesKnown, RulesKnown

(* Every step of the form keeps its invariant.                             *)
LEMMA FormNext ==
  Form!BoundsFit /\ Form!ConstantsFit /\ FormInv
    /\ [Form!Next]_(Form!vars) => FormInv'
<1> SUFFICES ASSUME Form!BoundsFit, Form!ConstantsFit, FormInv,
                    [Form!Next]_(Form!vars)
             PROVE  FormInv'
  OBVIOUS
<1>1. CASE UNCHANGED Form!vars
  BY <1>1, FormStays DEF Form!vars, FormInv, FormAlike
<1>2. CASE Form!Clicks
  BY <1>2, FormSteps, FormFields, FormHandlers DEF Form!Clicks
<1>3. ASSUME NEW n \in Slots, Form!Serve(n) \/ Form!DeliverSlot(n)
      PROVE  FormInv'
  BY <1>3, FormServes, FormSaves, FormAnswers DEF Form!DeliverSlot
<1> QED BY <1>1, <1>2, <1>3 DEF Form!Next

(* What the page's invariant says of the properties.                       *)
LEMMA FormTells ==
  FormInv => /\ Form!TypeOK /\ Form!RuleOncePerScope
             /\ Form!SavedChannelsFit
<1> SUFFICES ASSUME FormInv
             PROVE  /\ Form!TypeOK /\ Form!RuleOncePerScope
                    /\ Form!SavedChannelsFit
  OBVIOUS
<1>1. Form!TypeOK
  BY DEF FormInv, FormShown, Form!TypeOK
<1>2. Form!RuleOncePerScope
  BY DEF FormInv, RulesKnown, Saved, Form!RuleOncePerScope
<1>3. Form!SavedChannelsFit
  BY DEF FormInv, FormTasks, ChannelsFit, Form!SavedChannelsFit
<1> QED BY <1>1, <1>2, <1>3

-----------------------------------------------------------------------------
(* The dashboard editor: a datasource follows the dashboard.               *)

EditorArgs == Editor!Saves \cup [dashboard : Dashboards] \cup {None}
EditorTasks ==
  {t \in [op : {"none", "read", "save"},
          stage : {"none", "read", "write", "sync"},
          st : {"idle", "sent", "ok", "failed"},
          arg : EditorArgs, ans : {None}] :
     /\ t.stage = "read" => t.arg \in [dashboard : Dashboards]
     /\ t.stage \in {"write", "sync"} => t.arg \in Editor!Saves}

(* A save whose dashboard has been written: the datasource comes next, or  *)
(* nothing any more.                                                       *)
DashboardWritten(t) == t.stage = "sync" \/ (t.stage = "write" /\ t.st = "ok")
WrittenKnown == \A n \in Slots :
                  DashboardWritten(net[n]) => srv.saved[net[n].arg.prompt] > 0
EditorInv == /\ ui \in Editor!UiType /\ srv \in Editor!SrvType
             /\ net \in [Slots -> EditorTasks]
             /\ WrittenKnown /\ Editor!SyncFollowsSave

(***************************************************************************)
(* A slot put to another use, and a step that only edits.                  *)
(***************************************************************************)
LEMMA EditorPuts ==
  ASSUME EditorInv, ui' \in Editor!UiType, srv' = srv,
         NEW n, NEW t \in EditorTasks, net' = [net EXCEPT ![n] = t],
         DashboardWritten(t) => srv.saved[t.arg.prompt] > 0
  PROVE  EditorInv'
<1>1. net' \in [Slots -> EditorTasks]
  BY DEF EditorInv
<1>2. \A m \in Slots : net'[m] = IF m = n THEN t ELSE net[m]
  BY DEF EditorInv
<1>3. WrittenKnown'
  <2> SUFFICES ASSUME NEW m \in Slots, DashboardWritten(net'[m])
               PROVE  srv.saved[net'[m].arg.prompt] > 0
    BY DEF WrittenKnown, DashboardWritten
  <2> QED BY <1>2 DEF EditorInv, WrittenKnown
<1> QED BY <1>1, <1>3 DEF EditorInv, Editor!SyncFollowsSave

(* An edit of the form or of the text.                                     *)
LEMMA EditorEdits ==
  ASSUME EditorInv, NEW u \in Editor!UiType, Editor!Edit(u)
  PROVE  EditorInv'
<1>1. ui' = u /\ srv' = srv /\ net' = net
  BY DEF Editor!Edit
<1>2. WrittenKnown'
  BY <1>1 DEF EditorInv, WrittenKnown, DashboardWritten
<1> QED BY <1>1, <1>2 DEF EditorInv, Editor!SyncFollowsSave

(* A handler begins with a read of a dashboard or the write of one.        *)
LEMMA EditorStarts ==
  ASSUME Editor!BoundsFit, EditorInv, NEW u \in Editor!UiType,
         u.starts = ui.starts, NEW op, NEW stage, NEW arg,
         Editor!Start(u, op, stage, arg),
         \/ op = "read" /\ stage = "read" /\ arg \in [dashboard : Dashboards]
         \/ op = "save" /\ stage = "write" /\ arg \in Editor!Saves
  PROVE  EditorInv'
<1> DEFINE t == Editor!Task(op, stage, arg)
<1>1. PICK n : net' = [net EXCEPT ![n] = t]
  BY DEF Editor!Start, Editor!Begin
<1>2. /\ ui' = [u EXCEPT !.starts = @ + 1] /\ srv' = srv
      /\ ui.starts < MaxGrafanaStarts
  BY DEF Editor!Start
<1>3. ui' \in Editor!UiType
  BY <1>2 DEF Editor!UiType, Editor!BoundsFit
<1>4. t \in EditorTasks /\ ~DashboardWritten(t)
  BY DEF EditorTasks, EditorArgs, Editor!Task, DashboardWritten
<1> HIDE DEF t
<1> QED BY <1>1, <1>2, <1>3, <1>4, EditorPuts

(***************************************************************************)
(* The service: the write counts for the question that asked for it.       *)
(***************************************************************************)
LEMMA EditorServes ==
  ASSUME Editor!BoundsFit, EditorInv, NEW n \in Slots, Editor!Serve(n)
  PROVE  EditorInv'
<1> DEFINE t == net[n]
<1>0. MaxGrafanaStarts \in Nat
  BY DEF Editor!BoundsFit
<1>1. /\ t \in EditorTasks /\ t.st = "sent" /\ ui' = ui
      /\ srv \in Editor!SrvType /\ net \in [Slots -> EditorTasks]
  BY DEF EditorInv, Editor!Serve, Editor!Waiting
<1>2. PICK st \in {"ok", "failed"} :
        /\ net' = [net EXCEPT ![n] = [t EXCEPT !.st = st, !.ans = None]]
        /\ \/ srv' = Editor!Executed(t)
           \/ srv' = srv /\ st = "failed"
  BY DEF Editor!Serve, Editor!Reply
<1> DEFINE u == [t EXCEPT !.st = st, !.ans = None]
<1>3. /\ u \in EditorTasks /\ u.arg = t.arg /\ u.stage = t.stage /\ u.st = st
  BY <1>1 DEF EditorTasks
<1>4. net' \in [Slots -> EditorTasks]
      /\ \A m \in Slots : net'[m] = IF m = n THEN u ELSE net[m]
  BY <1>1, <1>2, <1>3
<1> HIDE DEF u
<1>5. t.stage = "sync" => srv.saved[t.arg.prompt] > 0
  BY DEF EditorInv, WrittenKnown, DashboardWritten
<1>6. /\ srv' \in Editor!SrvType
      /\ \A p \in 0..MaxGrafanaStarts : srv'.saved[p] >= srv.saved[p]
      /\ \A p \in srv'.synced \ srv.synced :
           t.stage = "sync" /\ p = t.arg.prompt
      /\ t.stage = "write" /\ srv' # srv => srv'.saved[t.arg.prompt] > 0
  <2>1. CASE srv' = srv
    BY <1>0, <1>1, <2>1 DEF Editor!SrvType
  <2>2. CASE srv' = Editor!Executed(t) /\ t.stage = "write"
    <3>1. srv' = [srv EXCEPT !.saved[t.arg.prompt] = @ + 1]
      BY <2>2 DEF Editor!Executed
    <3>2. t.arg.prompt \in 0..MaxGrafanaStarts
      BY <1>1, <2>2 DEF EditorTasks, Editor!Saves
    <3>3. srv.saved[t.arg.prompt] \in Nat
      BY <1>1, <3>2 DEF Editor!SrvType
    <3>4. srv.saved[t.arg.prompt] + 1 \in Nat
      BY <3>3
    <3>5. srv' \in Editor!SrvType
      BY <1>1, <3>1, <3>4 DEF Editor!SrvType
    <3>6. srv'.saved = [srv.saved EXCEPT ![t.arg.prompt] = @ + 1]
          /\ srv'.synced = srv.synced
      BY <1>1, <3>1 DEF Editor!SrvType
    <3>7. \A p \in 0..MaxGrafanaStarts :
            srv'.saved[p] = srv.saved[p] + (IF p = t.arg.prompt THEN 1 ELSE 0)
      BY <1>0, <1>1, <3>6 DEF Editor!SrvType
    <3>8. \A p \in 0..MaxGrafanaStarts : srv.saved[p] \in Nat
      BY <1>0, <1>1 DEF Editor!SrvType
    <3> QED BY <2>2, <3>2, <3>5, <3>6, <3>7, <3>8
  <2>3. CASE srv' = Editor!Executed(t) /\ t.stage = "sync"
    <3>1. srv' = [srv EXCEPT !.synced = @ \cup {t.arg.prompt},
                             !.sharing[t.arg.datasource] = t.arg.sharing]
      BY <2>3 DEF Editor!Executed
    <3>2. t.arg.prompt \in 0..MaxGrafanaStarts
          /\ t.arg.sharing \in Editor!Sharings
      BY <1>1, <2>3 DEF EditorTasks, Editor!Saves
    <3>3. srv' \in Editor!SrvType
      BY <1>1, <3>1, <3>2 DEF Editor!SrvType
    <3>4. /\ srv'.saved = srv.saved
          /\ srv'.synced = srv.synced \cup {t.arg.prompt}
      BY <1>1, <3>1 DEF Editor!SrvType
    <3>5. \A p \in 0..MaxGrafanaStarts : srv.saved[p] \in Nat
      BY <1>0, <1>1 DEF Editor!SrvType
    <3> QED BY <2>3, <3>3, <3>4, <3>5
  <2>4. CASE srv' = Editor!Executed(t) /\ t.stage \notin {"write", "sync"}
    <3>1. srv' = srv
      BY <2>4 DEF Editor!Executed
    <3> QED BY <2>1, <3>1
  <2> QED BY <1>2, <2>1, <2>2, <2>3, <2>4
<1>7. t.stage = "write" /\ st = "ok" => srv'.saved[t.arg.prompt] > 0
  <2> SUFFICES ASSUME t.stage = "write", st = "ok"
               PROVE  srv'.saved[t.arg.prompt] > 0
    OBVIOUS
  <2>1. srv' = [srv EXCEPT !.saved[t.arg.prompt] = @ + 1]
    BY <1>2 DEF Editor!Executed
  <2>2. t.arg.prompt \in 0..MaxGrafanaStarts
    BY <1>1 DEF EditorTasks, Editor!Saves
  <2> QED BY <1>0, <1>1, <2>1, <2>2 DEF Editor!SrvType
<1>8. \A p \in 0..MaxGrafanaStarts : srv.saved[p] > 0 => srv'.saved[p] > 0
  BY <1>0, <1>1, <1>6 DEF Editor!SrvType
<1>9. \A m \in Slots : DashboardWritten(net[m]) =>
        net[m].arg.prompt \in 0..MaxGrafanaStarts
  BY <1>1 DEF EditorTasks, Editor!Saves, DashboardWritten
<1>10. WrittenKnown'
  <2> SUFFICES ASSUME NEW m \in Slots, DashboardWritten(net'[m])
               PROVE  srv'.saved[net'[m].arg.prompt] > 0
    BY DEF WrittenKnown, DashboardWritten
  <2>1. CASE m = n
    <3>1. t.stage = "sync" => t.arg.prompt \in 0..MaxGrafanaStarts
      BY <1>9 DEF DashboardWritten
    <3> QED BY <1>3, <1>4, <1>5, <1>7, <1>8, <2>1, <3>1 DEF DashboardWritten
  <2>2. CASE m # n
    BY <1>4, <1>8, <1>9, <2>2 DEF EditorInv, WrittenKnown
  <2> QED BY <2>1, <2>2
<1>11. Editor!SyncFollowsSave'
  <2> SUFFICES ASSUME NEW p \in srv'.synced PROVE srv'.saved[p] > 0
    BY DEF Editor!SyncFollowsSave
  <2>1. CASE p \in srv.synced
    <3>1. p \in 0..MaxGrafanaStarts
      BY <1>0, <1>1, <2>1 DEF Editor!SrvType
    <3> QED BY <1>8, <2>1, <3>1 DEF EditorInv, Editor!SyncFollowsSave
  <2>2. CASE p \notin srv.synced
    <3>1. t.stage = "sync" /\ p = t.arg.prompt
      BY <1>6, <2>2
    <3>2. p \in 0..MaxGrafanaStarts
      BY <1>9, <3>1 DEF DashboardWritten
    <3> QED BY <1>5, <1>8, <3>1, <3>2
  <2> QED BY <2>1, <2>2
<1> QED BY <1>1, <1>4, <1>6, <1>10, <1>11 DEF EditorInv

(***************************************************************************)
(* The controls of the editor.                                             *)
(***************************************************************************)
LEMMA EditorControls ==
  ASSUME Editor!BoundsFit, EditorInv,
         \/ Editor!OpenNew \/ Editor!SetTitle \/ Editor!ApplyTemplate
         \/ Editor!CloseEditor \/ Editor!CancelConflict
         \/ \E d \in Dashboards : Editor!OpenEdit(d)
         \/ \E tab \in Editor!Tabs : Editor!SetTab(tab)
         \/ \E p \in Datasources : Editor!ChooseDatasource(p)
         \/ \E s \in Editor!Sharings : Editor!SetSharing(s)
         \/ \E text \in {"dashboard", "bad"} :
              Editor!UploadFile(text) \/ Editor!TypeJson(text)
  PROVE  EditorInv'
<1>1. ui \in Editor!UiType
  BY DEF EditorInv
<1>2. ASSUME NEW d \in Editor!Maybe(Dashboards)
      PROVE  /\ Editor!Opened(d) \in Editor!UiType
             /\ Editor!Opened(d).starts = ui.starts
  <2> DEFINE titled == d # None
             text == IF d = None THEN "blank" ELSE "dashboard"
             u == [ui EXCEPT !.open = TRUE, !.editing = d, !.titled = titled,
                    !.tab = "form", !.text = text, !.of = d,
                    !.jsonError = FALSE, !.uploaded = FALSE,
                    !.datasource = None, !.sharing = Editor!Private]
  <2>1. Editor!Opened(d) = u
    BY Zenon DEF Editor!Opened
  <2>2. titled \in BOOLEAN /\ text \in Editor!Texts
    BY DEF Editor!Texts
  <2> HIDE DEF titled, text
  <2>3. Editor!Private \in Editor!Sharings /\ None \in Editor!Maybe(Datasources)
        /\ "form" \in Editor!Tabs
    BY DEF Editor!Private, Editor!Sharings, Editor!Maybe, Editor!Tabs
  <2>4. u \in Editor!UiType /\ u.starts = ui.starts
    BY <1>1, <2>2, <2>3 DEF Editor!UiType
  <2> QED BY <2>1, <2>4
<1>3. CASE Editor!OpenNew
  <2>1. /\ Editor!Edit(Editor!Opened(None))
        /\ None \in Editor!Maybe(Dashboards)
    BY <1>3 DEF Editor!OpenNew, Editor!Edit, Editor!Maybe
  <2> QED BY <1>2, <2>1, EditorEdits
<1>4. ASSUME NEW d \in Dashboards, Editor!OpenEdit(d) PROVE EditorInv'
  <2>1. Editor!Start(Editor!Opened(d), "read", "read", [dashboard |-> d])
    BY <1>4 DEF Editor!OpenEdit
  <2>2. d \in Editor!Maybe(Dashboards)
    BY DEF Editor!Maybe
  <2>3. [dashboard |-> d] \in [dashboard : Dashboards]
    OBVIOUS
  <2> QED BY <1>2, <2>1, <2>2, <2>3, EditorStarts
<1>5. CASE Editor!SetTitle
  <2>1. [ui EXCEPT !.titled = TRUE] \in Editor!UiType
    BY <1>1 DEF Editor!UiType
  <2> QED BY <1>5, <2>1, EditorEdits DEF Editor!SetTitle
<1>6. CASE Editor!CloseEditor
  <2>1. [ui EXCEPT !.open = FALSE] \in Editor!UiType
    BY <1>1 DEF Editor!UiType
  <2> QED BY <1>6, <2>1, EditorEdits DEF Editor!CloseEditor
<1>7. CASE Editor!CancelConflict
  <2>1. [ui EXCEPT !.conflict = FALSE] \in Editor!UiType
    BY <1>1 DEF Editor!UiType
  <2> QED BY <1>7, <2>1, EditorEdits DEF Editor!CancelConflict
<1>8. ASSUME NEW tab \in Editor!Tabs, Editor!SetTab(tab) PROVE EditorInv'
  <2>1. [ui EXCEPT !.tab = tab] \in Editor!UiType
    BY <1>1 DEF Editor!UiType
  <2> QED BY <1>8, <2>1, EditorEdits DEF Editor!SetTab
<1>9. ASSUME NEW p \in Datasources, Editor!ChooseDatasource(p) PROVE EditorInv'
  <2>1. [ui EXCEPT !.datasource = p] \in Editor!UiType
    BY <1>1 DEF Editor!UiType, Editor!Maybe
  <2> QED BY <1>9, <2>1, EditorEdits DEF Editor!ChooseDatasource
<1>10. ASSUME NEW s \in Editor!Sharings, Editor!SetSharing(s) PROVE EditorInv'
  <2>1. [ui EXCEPT !.sharing = s] \in Editor!UiType
    BY <1>1 DEF Editor!UiType
  <2> QED BY <1>10, <2>1, EditorEdits DEF Editor!SetSharing
<1>11. ASSUME NEW text \in Editor!Texts, NEW uploaded \in BOOLEAN,
              Editor!Edit([ui EXCEPT !.text = text, !.of = None,
                             !.jsonError = FALSE, !.uploaded = uploaded])
       PROVE  EditorInv'
  <2>1. [ui EXCEPT !.text = text, !.of = None, !.jsonError = FALSE,
                   !.uploaded = uploaded] \in Editor!UiType
    BY <1>1 DEF Editor!UiType, Editor!Maybe
  <2> QED BY <1>11, <2>1, EditorEdits
<1>12. CASE Editor!ApplyTemplate
  BY <1>11, <1>12 DEF Editor!ApplyTemplate, Editor!Texts
<1>13. ASSUME NEW text \in {"dashboard", "bad"},
              Editor!UploadFile(text) \/ Editor!TypeJson(text)
       PROVE  EditorInv'
  <2>1. text \in Editor!Texts
    BY DEF Editor!Texts
  <2>2. [ui EXCEPT !.text = text] \in Editor!UiType
    BY <1>1, <2>1 DEF Editor!UiType
  <2> QED BY <1>11, <1>13, <2>1, <2>2, EditorEdits
          DEF Editor!UploadFile, Editor!TypeJson
<1> QED BY <1>3, <1>4, <1>5, <1>6, <1>7, <1>8, <1>9, <1>10, <1>12, <1>13

(***************************************************************************)
(* Saving, and the question that may come first.                           *)
(***************************************************************************)
LEMMA EditorAsks ==
  ASSUME Editor!BoundsFit, EditorInv, NEW u \in Editor!UiType,
         u.starts = ui.starts, NEW bad \in BOOLEAN,
         Editor!SaveDashboard(u, bad)
  PROVE  EditorInv'
<1>1. ui \in Editor!UiType
  BY DEF EditorInv
<1>2. \A b \in BOOLEAN : Editor!Now(b) \in Editor!Saves
  BY <1>1 DEF Editor!Now, Editor!Saves, Editor!UiType, Editor!BoundsFit
<1>3. ASSUME ui.starts < MaxGrafanaStarts,
             Editor!Edit([u EXCEPT !.starts = @ + 1,
               !.prompt = [Editor!Now(bad) EXCEPT !.prompt = ui.starts + 1]])
      PROVE  EditorInv'
  <2> DEFINE save == [Editor!Now(bad) EXCEPT !.prompt = ui.starts + 1]
  <2>1. ui.starts + 1 \in 0..MaxGrafanaStarts
    BY <1>1, <1>3 DEF Editor!UiType, Editor!BoundsFit
  <2>2. save \in Editor!Maybe(Editor!Saves)
    BY <1>2, <2>1 DEF Editor!Maybe, Editor!Saves
  <2>3. Editor!Edit([u EXCEPT !.starts = @ + 1, !.prompt = save])
    BY <1>3
  <2> HIDE DEF save
  <2>4. [u EXCEPT !.starts = @ + 1, !.prompt = save] \in Editor!UiType
    BY <2>1, <2>2 DEF Editor!UiType
  <2> QED BY <2>3, <2>4, EditorEdits
<1>4. ASSUME Editor!Edit([u EXCEPT !.jsonError = TRUE]) PROVE EditorInv'
  <2>1. [u EXCEPT !.jsonError = TRUE] \in Editor!UiType
    BY DEF Editor!UiType
  <2> QED BY <1>4, <2>1, EditorEdits
<1>5. ASSUME Editor!Start([u EXCEPT !.jsonError = FALSE], "save", "write",
                          Editor!Now(FALSE))
      PROVE  EditorInv'
  <2> DEFINE v == [u EXCEPT !.jsonError = FALSE]
  <2>1. v \in Editor!UiType /\ v.starts = ui.starts
    BY DEF Editor!UiType
  <2>2. Editor!Start(v, "save", "write", Editor!Now(FALSE))
    BY <1>5
  <2>3. Editor!Now(FALSE) \in Editor!Saves
    BY <1>2
  <2> HIDE DEF v
  <2> QED BY <2>1, <2>2, <2>3, EditorStarts
<1> QED BY <1>3, <1>4, <1>5, EditorEdits DEF Editor!SaveDashboard

(* A save begins, or asks its question first.                              *)
LEMMA EditorBegins ==
  ASSUME Editor!BoundsFit, EditorInv, NEW u \in Editor!UiType,
         u.starts = ui.starts, NEW save \in Editor!Saves, Editor!Begun(u, save)
  PROVE  EditorInv'
<1>1. ASSUME Editor!Edit([u EXCEPT !.jsonError = TRUE]) PROVE EditorInv'
  <2>1. [u EXCEPT !.jsonError = TRUE] \in Editor!UiType
    BY DEF Editor!UiType
  <2> QED BY <1>1, <2>1, EditorEdits
<1>2. ASSUME Editor!Start([u EXCEPT !.jsonError = FALSE], "save", "write", save)
      PROVE  EditorInv'
  <2> DEFINE v == [u EXCEPT !.jsonError = FALSE]
  <2>1. v \in Editor!UiType /\ v.starts = ui.starts
    BY DEF Editor!UiType
  <2>2. Editor!Start(v, "save", "write", save)
    BY <1>2
  <2> HIDE DEF v
  <2> QED BY <2>1, <2>2, EditorStarts
<1> QED BY <1>1, <1>2 DEF Editor!Begun

(* The buttons that save.                                                  *)
LEMMA EditorSaves ==
  ASSUME Editor!BoundsFit, EditorInv,
         \/ Editor!Save \/ Editor!ResolveConflict \/ Editor!ConfirmPrompt
         \/ \E escape \in BOOLEAN : Editor!ClosePrompt(escape)
  PROVE  EditorInv'
<1>1. ui \in Editor!UiType
  BY DEF EditorInv
<1>2. CASE Editor!Save
  <2> DEFINE bad == ui.tab = "json" /\ ui.text = "bad"
  <2>1. bad \in BOOLEAN
    OBVIOUS
  <2>2. [ui EXCEPT !.conflict = TRUE] \in Editor!UiType
    BY <1>1 DEF Editor!UiType
  <2>3. \/ Editor!Edit([ui EXCEPT !.conflict = TRUE])
        \/ Editor!SaveDashboard(ui, bad)
    BY <1>2, Zenon DEF Editor!Save
  <2> HIDE DEF bad
  <2> QED BY <1>1, <2>1, <2>2, <2>3, EditorEdits, EditorAsks
<1>3. CASE Editor!ResolveConflict
  <2> DEFINE u == [ui EXCEPT !.conflict = FALSE, !.text = "dashboard"]
  <2>1. u \in Editor!UiType /\ u.starts = ui.starts
    BY <1>1 DEF Editor!UiType, Editor!Texts
  <2>2. Editor!SaveDashboard(u, FALSE)
    BY <1>3 DEF Editor!ResolveConflict
  <2> HIDE DEF u
  <2> QED BY <2>1, <2>2, EditorAsks
<1>4. \A u \in Editor!UiType : /\ Editor!Unasked(u) \in Editor!UiType
                               /\ Editor!Unasked(u).starts = u.starts
                               /\ Editor!Unasked(u).open = u.open
  BY DEF Editor!Unasked, Editor!UiType, Editor!Maybe
<1>5. CASE Editor!ConfirmPrompt
  <2>1. ui.prompt \in Editor!Saves
    BY <1>1, <1>5 DEF Editor!ConfirmPrompt, Editor!UiType, Editor!Maybe
  <2>2. CASE ui.prompt.bad
    <3>1. [Editor!Unasked(ui) EXCEPT !.jsonError = TRUE] \in Editor!UiType
      BY <1>1, <1>4 DEF Editor!UiType
    <3> QED BY <1>5, <2>2, <3>1, EditorEdits DEF Editor!ConfirmPrompt
  <2>3. CASE ~ui.prompt.bad
    <3> DEFINE u == [ui EXCEPT !.skip = TRUE, !.jsonError = FALSE]
               save == [ui.prompt EXCEPT !.sync = TRUE, !.confirmed = TRUE]
    <3>1. Editor!Start(u, "save", "write", save)
      BY <1>5, <2>3 DEF Editor!ConfirmPrompt
    <3>2. u \in Editor!UiType /\ u.starts = ui.starts
      BY <1>1 DEF Editor!UiType
    <3>3. save \in Editor!Saves
      BY <2>1 DEF Editor!Saves
    <3> HIDE DEF u, save
    <3> QED BY <3>1, <3>2, <3>3, EditorStarts
  <2> QED BY <2>2, <2>3
<1>6. ASSUME NEW escape \in BOOLEAN, Editor!ClosePrompt(escape)
      PROVE  EditorInv'
  <2> DEFINE v == Editor!Unasked(ui)
             open == v.open /\ ~escape
             u == [v EXCEPT !.open = open]
  <2>1. ui.prompt \in Editor!Saves
    BY <1>1, <1>6 DEF Editor!ClosePrompt, Editor!UiType, Editor!Maybe
  <2>2. open \in BOOLEAN
    OBVIOUS
  <2>3. Editor!Edit(u) \/ Editor!Begun(u, ui.prompt)
    BY <1>6, Zenon DEF Editor!ClosePrompt
  <2> HIDE DEF open
  <2>4. v \in Editor!UiType /\ v.starts = ui.starts
    BY <1>1, <1>4
  <2> HIDE DEF v
  <2>5. u \in Editor!UiType /\ u.starts = ui.starts
    BY <2>2, <2>4 DEF Editor!UiType
  <2> HIDE DEF u
  <2> QED BY <2>1, <2>3, <2>5, EditorEdits, EditorBegins
<1> QED BY <1>2, <1>3, <1>5, <1>6

(***************************************************************************)
(* The answers.                                                            *)
(***************************************************************************)
LEMMA EditorOver ==
  ASSUME EditorInv, NEW n \in Slots, NEW u \in Editor!UiType,
         NEW t \in EditorTasks, t.arg \in Editor!Saves, t.op = net[n].op,
         srv' = srv, Editor!Over(n, u, t)
  PROVE  EditorInv'
<1>1. Editor!Unasked(u) \in Editor!UiType
  BY DEF Editor!Unasked, Editor!UiType, Editor!Maybe
<1>2. Editor!NoTask \in EditorTasks /\ ~DashboardWritten(Editor!NoTask)
  BY DEF Editor!NoTask, EditorTasks, EditorArgs, DashboardWritten
<1>3. ASSUME Editor!Finish(n), ui' \in Editor!UiType PROVE EditorInv'
  BY <1>2, <1>3, EditorPuts DEF Editor!Finish
<1>4. ASSUME Editor!Continue(n, "write", [t.arg EXCEPT !.sync = FALSE,
                                                      !.confirmed = FALSE]),
             ui' \in Editor!UiType
      PROVE  EditorInv'
  <2> DEFINE arg == [t.arg EXCEPT !.sync = FALSE, !.confirmed = FALSE]
             x == Editor!Task(t.op, "write", arg)
  <2>1. net' = [net EXCEPT ![n] = x]
    BY <1>4 DEF Editor!Continue
  <2>2. arg \in Editor!Saves
    BY DEF Editor!Saves
  <2> HIDE DEF arg
  <2>3. x \in EditorTasks /\ ~DashboardWritten(x)
    BY <2>2 DEF EditorTasks, EditorArgs, Editor!Task, DashboardWritten
  <2> HIDE DEF x
  <2> QED BY <1>4, <2>1, <2>3, EditorPuts
<1> QED BY <1>1, <1>3, <1>4 DEF Editor!Over

(* The answers to the editor.                                              *)
LEMMA EditorAnswers ==
  ASSUME EditorInv, NEW n \in Slots, Editor!DeliverSlot(n)
  PROVE  EditorInv'
<1> DEFINE t == net[n]
<1>1. /\ t \in EditorTasks /\ srv' = srv /\ t.st \in {"ok", "failed"}
      /\ ui \in Editor!UiType /\ srv \in Editor!SrvType
  BY DEF EditorInv, EditorTasks, Editor!DeliverSlot, Editor!DeliverRead,
     Editor!DeliverWrite, Editor!DeliverSync, Editor!Back
<1>2. CASE Editor!DeliverRead(n)
  <2>1. t.arg \in [dashboard : Dashboards]
    BY <1>1, <1>2 DEF Editor!DeliverRead, EditorTasks
  <2>2. t.arg.dashboard \in Dashboards
    BY <2>1
  <2>3. [ui EXCEPT !.text = "dashboard", !.of = t.arg.dashboard,
                   !.jsonError = FALSE, !.uploaded = FALSE] \in Editor!UiType
    BY <1>1, <2>2 DEF Editor!UiType, Editor!Texts, Editor!Maybe
  <2>4. ui' \in Editor!UiType
    BY <1>1, <1>2, <2>3 DEF Editor!DeliverRead
  <2>5. net' = [net EXCEPT ![n] = Editor!NoTask]
    BY <1>2 DEF Editor!DeliverRead, Editor!Finish
  <2>6. Editor!NoTask \in EditorTasks /\ ~DashboardWritten(Editor!NoTask)
    BY DEF Editor!NoTask, EditorTasks, EditorArgs, DashboardWritten
  <2> QED BY <1>1, <2>4, <2>5, <2>6, EditorPuts
<1>3. CASE Editor!DeliverWrite(n)
  <2>1. t.stage = "write" /\ t.arg \in Editor!Saves
    BY <1>1, <1>3 DEF Editor!DeliverWrite, EditorTasks
  <2>2. [ui EXCEPT !.open = FALSE] \in Editor!UiType
    BY <1>1 DEF Editor!UiType
  <2>3. CASE t.st = "ok" /\ t.arg.sync
    <3> DEFINE x == Editor!Task(t.op, "sync", t.arg)
    <3>1. ui' = ui /\ net' = [net EXCEPT ![n] = x]
      BY <1>3, <2>3 DEF Editor!DeliverWrite, Editor!Continue
    <3>2. x \in EditorTasks /\ x.arg = t.arg
      BY <1>1, <2>1 DEF EditorTasks, EditorArgs, Editor!Task
    <3>3. srv.saved[t.arg.prompt] > 0
      BY <2>1, <2>3 DEF EditorInv, WrittenKnown, DashboardWritten
    <3> HIDE DEF x
    <3> QED BY <1>1, <3>1, <3>2, <3>3, EditorPuts
  <2>4. CASE ~(t.st = "ok" /\ t.arg.sync)
    <3> DEFINE u == IF t.st = "ok" THEN [ui EXCEPT !.open = FALSE] ELSE ui
    <3>1. Editor!Over(n, u, t)
      BY <1>3, <2>4, Zenon DEF Editor!DeliverWrite
    <3>2. u \in Editor!UiType
      BY <1>1, <2>2
    <3> HIDE DEF u
    <3> QED BY <1>1, <2>1, <3>1, <3>2, EditorOver
  <2> QED BY <2>3, <2>4
<1>4. CASE Editor!DeliverSync(n)
  <2>1. t.arg \in Editor!Saves
    BY <1>1, <1>4 DEF Editor!DeliverSync, EditorTasks
  <2> DEFINE u == [ui EXCEPT !.open = FALSE, !.known = srv.sharing]
  <2>2. Editor!Over(n, u, t)
    BY <1>4 DEF Editor!DeliverSync
  <2>3. u \in Editor!UiType
    BY <1>1 DEF Editor!UiType, Editor!SrvType
  <2> HIDE DEF u
  <2> QED BY <1>1, <2>1, <2>2, <2>3, EditorOver
<1> QED BY <1>2, <1>3, <1>4 DEF Editor!DeliverSlot

(***************************************************************************)
(* The editor itself.                                                      *)
(***************************************************************************)
LEMMA EditorInit ==
  Editor!BoundsFit /\ Editor!Init => EditorInv
<1> SUFFICES ASSUME Editor!BoundsFit, Editor!Init PROVE EditorInv
  OBVIOUS
<1>1. Editor!Private \in Editor!Sharings
  BY DEF Editor!Private, Editor!Sharings
<1>2. 0 \in 0..MaxGrafanaStarts
  BY DEF Editor!BoundsFit
<1>3. ui \in Editor!UiType
  BY <1>1, <1>2 DEF Editor!Init, Editor!UiType, Editor!Maybe, Editor!Texts,
     Editor!Tabs
<1>4. srv \in Editor!SrvType /\ srv.synced = {}
  BY <1>3 DEF Editor!Init, Editor!SrvType, Editor!UiType
<1>5. net \in [Slots -> EditorTasks] /\ \A n \in Slots : net[n].stage = "none"
  BY DEF Editor!Init, Editor!Quiet, Editor!NoTask, EditorTasks, EditorArgs
<1> QED BY <1>3, <1>4, <1>5 DEF EditorInv, WrittenKnown, DashboardWritten,
           Editor!SyncFollowsSave

(* Every step of the editor keeps its invariant.                           *)
LEMMA EditorNext ==
  Editor!BoundsFit /\ EditorInv /\ [Editor!Next]_(Editor!vars) => EditorInv'
<1> SUFFICES ASSUME Editor!BoundsFit, EditorInv, [Editor!Next]_(Editor!vars)
             PROVE  EditorInv'
  OBVIOUS
<1>1. CASE UNCHANGED Editor!vars
  <2>1. ui \in Editor!UiType /\ Editor!Edit(ui)
    BY <1>1 DEF Editor!vars, Editor!Edit, EditorInv
  <2> QED BY <2>1, EditorEdits
<1>2. CASE Editor!Clicks
  BY <1>2, EditorControls, EditorSaves DEF Editor!Clicks
<1>3. ASSUME NEW n \in Slots, Editor!Serve(n) \/ Editor!DeliverSlot(n)
      PROVE  EditorInv'
  BY <1>3, EditorServes, EditorAnswers
<1> QED BY <1>1, <1>2, <1>3 DEF Editor!Next

(* What the page's invariant says of the properties.                       *)
LEMMA EditorTells ==
  EditorInv => Editor!TypeOK /\ Editor!SyncFollowsSave
  BY DEF EditorInv, Editor!TypeOK

-----------------------------------------------------------------------------
(* The sharing of keys: the ticks of groups and of their members.          *)

SharesTasks ==
  {t \in [op : {"none", "open", "save"},
          stage : {"none", "users", "groups", "save", "read"},
          st : {"idle", "sent", "ok", "failed"},
          arg : Shares!Asks \cup {None}, ans : Shares!SrvType \cup {None}] :
     /\ t.st # "idle" => t.arg \in Shares!Asks
     /\ t.stage \in {"users", "groups"} => t.op = "open"
     /\ t.stage \in {"save", "read"} => t.op = "save"
     /\ t.stage = "read" /\ t.st = "ok" => t.ans \in Shares!SrvType}

(* The members of the ticked groups are ticked, but for those unticked one *)
(* by one.                                                                 *)
TicksFit(u) ==
  u.dialog # None /\ u.usersKnown =>
    Shares!Shared({}, u.groups) \ u.byHand \subseteq u.users
SharesInv == /\ ui \in Shares!UiType /\ srv \in Shares!SrvType
             /\ net \in [Slots -> SharesTasks]
             /\ Shares!Running("open") \/ TicksFit(ui)

(***************************************************************************)
(* A slot put to another use: the dialog opens, or it goes on being opened,*)
(* or the handler was none that opens it and the ticks are left as fitting *)
(* as they were.                                                           *)
(***************************************************************************)
LEMMA SharesPuts ==
  ASSUME SharesInv, ui' \in Shares!UiType, srv' \in Shares!SrvType,
         NEW n \in Slots, NEW t \in SharesTasks, net' = [net EXCEPT ![n] = t],
         \/ TicksFit(ui')
         \/ t.op = "open" /\ t.st # "idle"
         \/ /\ net[n].st = "idle" \/ net[n].op # "open"
            /\ TicksFit(ui) => TicksFit(ui')
  PROVE  SharesInv'
<1>1. net' \in [Slots -> SharesTasks]
  BY DEF SharesInv
<1>2. \A m \in Slots : net'[m] = IF m = n THEN t ELSE net[m]
  BY DEF SharesInv
<1>3. Shares!Running("open")' \/ TicksFit(ui')
  <2>1. CASE TicksFit(ui')
    BY <2>1
  <2>2. CASE t.op = "open" /\ t.st # "idle"
    BY <1>2, <2>2 DEF Shares!Running
  <2>3. CASE /\ net[n].st = "idle" \/ net[n].op # "open"
             /\ TicksFit(ui) => TicksFit(ui')
    <3>1. CASE TicksFit(ui)
      BY <2>3, <3>1
    <3>2. CASE Shares!Running("open")
      BY <1>2, <2>3, <3>2 DEF Shares!Running
    <3> QED BY <3>1, <3>2 DEF SharesInv
  <2> QED BY <2>1, <2>2, <2>3
<1>4. TicksFit(ui') <=> TicksFit(ui)'
  BY DEF TicksFit, Shares!Shared
<1> QED BY <1>1, <1>3, <1>4 DEF SharesInv

(* A click that begins no handler.                                         *)
LEMMA SharesEdits ==
  ASSUME SharesInv, NEW u \in Shares!UiType, TicksFit(ui) => TicksFit(u),
         Shares!Edit(u)
  PROVE  SharesInv'
<1>1. ui' = u /\ srv' = srv /\ net' = net
  BY DEF Shares!Edit
<1>2. TicksFit(ui)' <=> TicksFit(u)
  BY <1>1 DEF TicksFit, Shares!Shared
<1> QED BY <1>1, <1>2 DEF SharesInv, Shares!Running

(* A click that begins one.                                                *)
LEMMA SharesStarts ==
  ASSUME Shares!BoundsFit, SharesInv, NEW u \in Shares!UiType,
         u.starts = ui.starts,
         TicksFit(ui) => TicksFit([u EXCEPT !.starts = @ + 1]),
         NEW op, NEW stage, NEW arg \in Shares!Asks,
         \/ op = "open" /\ stage \in {"users", "groups"}
         \/ op = "save" /\ stage = "save",
         Shares!Start(u, op, stage, arg)
  PROVE  SharesInv'
<1> DEFINE t == Shares!Task(op, stage, arg)
           n == Shares!FirstFree
<1>1. n \in Slots /\ net[n].st = "idle" /\ net' = [net EXCEPT ![n] = t]
  BY FirstFreeIsFree DEF Shares!Start, Shares!Begin
<1>2. /\ ui' = [u EXCEPT !.starts = @ + 1] /\ srv' = srv
      /\ ui.starts < MaxStarts
  BY DEF Shares!Start
<1>3. ui' \in Shares!UiType
  BY <1>2 DEF Shares!UiType, Shares!BoundsFit
<1>4. t \in SharesTasks
  BY DEF SharesTasks, Shares!Task
<1>5. srv' \in Shares!SrvType
  BY <1>2 DEF SharesInv
<1>6. TicksFit(ui) => TicksFit(ui')
  BY <1>2
<1> HIDE DEF t, n
<1> QED BY <1>1, <1>3, <1>4, <1>5, <1>6, SharesPuts

(* The dialog opens with the groups ticked whose members all have the key. *)
LEMMA SharesOpens ==
  ASSUME Shares!ConstantsFit, NEW u \in Shares!UiType, NEW a \in Shares!Asks
  PROVE  Shares!Opened(u, a) \in Shares!UiType /\ TicksFit(Shares!Opened(u, a))
<1> DEFINE groups == Shares!Inferred(a)
           v == [u EXCEPT !.dialog = a.key, !.tab = "groups", !.users = a.with,
                          !.groups = groups, !.byHand = {}]
<1>1. Shares!Opened(u, a) = v
  BY DEF Shares!Opened
<1>2. groups \in SUBSET Groups /\ \A g \in groups : Members[g] \subseteq a.with
  BY DEF Shares!Inferred
<1>3. a.key \in Keys /\ a.with \in SUBSET Users
  BY DEF Shares!Asks
<1> HIDE DEF groups
<1>4. /\ v \in Shares!UiType /\ v.groups = groups /\ v.users = a.with
  BY <1>2, <1>3 DEF Shares!UiType, Shares!Tabs
<1> HIDE DEF v
<1>5. TicksFit(v)
  BY <1>2, <1>4 DEF TicksFit, Shares!Shared
<1> QED BY <1>1, <1>4, <1>5

(***************************************************************************)
(* The steps of the dialog.                                                *)
(***************************************************************************)
LEMMA SharesClicks ==
  ASSUME Shares!BoundsFit, Shares!ConstantsFit, SharesInv, Shares!Clicks
  PROVE  SharesInv'
<1>1. ui \in Shares!UiType /\ srv \in Shares!SrvType
  BY DEF SharesInv
<1>2. CASE Shares!Cancel
  <2> DEFINE u == Shares!Closed(ui)
  <2>1. u \in Shares!UiType /\ u.dialog = None
    BY <1>1 DEF Shares!Closed, Shares!UiType, Shares!Tabs
  <2>2. Shares!Edit(u)
    BY <1>2 DEF Shares!Cancel
  <2> HIDE DEF u
  <2> QED BY <2>1, <2>2, SharesEdits DEF TicksFit
<1>3. CASE Shares!SaveShares
  <2> DEFINE u == [ui EXCEPT !.loading = TRUE]
             v == [u EXCEPT !.starts = @ + 1]
             arg == [key |-> ui.dialog, with |-> ui.users, groups |-> ui.groups,
                     usersKnown |-> ui.usersKnown,
                     groupsKnown |-> ui.groupsKnown]
  <2>1. Shares!Start(u, "save", "save", arg) /\ ui.dialog # None
    BY <1>3 DEF Shares!SaveShares
  <2>2. /\ u \in Shares!UiType /\ u.starts = ui.starts
    BY <1>1 DEF Shares!UiType
  <2>3. /\ v.dialog = ui.dialog /\ v.groups = ui.groups /\ v.users = ui.users
        /\ v.byHand = ui.byHand /\ v.usersKnown = ui.usersKnown
    BY <1>1 DEF Shares!UiType
  <2>4. arg \in Shares!Asks
    BY <1>1, <2>1 DEF Shares!UiType, Shares!Asks
  <2> HIDE DEF arg, v, u
  <2>5. TicksFit(ui) => TicksFit(v)
    BY <2>3 DEF TicksFit
  <2> QED BY <2>1, <2>2, <2>4, <2>5, SharesStarts DEF v
<1>4. ASSUME NEW k \in Keys, Shares!OpenShare(k) PROVE SharesInv'
  <2> DEFINE a == [key |-> k, with |-> ui.shown[k], groups |-> {},
                   usersKnown |-> ui.usersKnown,
                   groupsKnown |-> ui.groupsKnown]
             stage == IF ui.usersKnown THEN "groups" ELSE "users"
             v == [ui EXCEPT !.starts = @ + 1]
  <2>1. /\ ui.dialog = None
        /\ \/ Shares!Edit(Shares!Opened(ui, a))
           \/ Shares!Start(ui, "open", stage, a)
    BY <1>4 DEF Shares!OpenShare, Shares!Edit
  <2>2. a \in Shares!Asks
    BY <1>1 DEF Shares!UiType, Shares!Asks
  <2>3. stage \in {"users", "groups"}
    OBVIOUS
  <2>4. v.dialog = None
    BY <1>1, <2>1 DEF Shares!UiType
  <2> HIDE DEF a, stage, v
  <2>5. TicksFit(v)
    BY <2>4 DEF TicksFit
  <2> QED BY <1>1, <2>1, <2>2, <2>3, <2>5, SharesOpens, SharesEdits,
             SharesStarts DEF v
<1>5. ASSUME NEW tab \in Shares!Tabs, Shares!SetTab(tab) PROVE SharesInv'
  <2> DEFINE u == [ui EXCEPT !.tab = tab]
  <2>1. /\ u \in Shares!UiType
        /\ u.dialog = ui.dialog /\ u.groups = ui.groups /\ u.users = ui.users
        /\ u.byHand = ui.byHand /\ u.usersKnown = ui.usersKnown
    BY <1>1 DEF Shares!UiType
  <2>2. Shares!Edit(u)
    BY <1>5 DEF Shares!SetTab
  <2> HIDE DEF u
  <2> QED BY <2>1, <2>2, SharesEdits DEF TicksFit
<1>6. ASSUME NEW g \in Groups, Shares!ToggleShareGroup(g) PROVE SharesInv'
  <2> DEFINE rest == ui.groups \ {g}
             ids == Shares!MemberIds(g)
             kept == Shares!Kept(rest)
             more == [ui EXCEPT !.groups = @ \cup {g}, !.users = @ \cup ids]
             less == [ui EXCEPT !.groups = rest, !.users = @ \ (ids \ kept)]
  <2>1. \/ g \notin ui.groups /\ Shares!Edit(more)
        \/ g \in ui.groups /\ Shares!Edit(less)
    BY <1>6 DEF Shares!ToggleShareGroup
  <2>2. ids \in SUBSET Users /\ (ui.usersKnown => ids = Members[g])
    BY DEF Shares!MemberIds, Shares!ConstantsFit
  <2>3. ui.usersKnown => \A h \in rest : Members[h] \subseteq kept
    BY DEF Shares!Kept, Shares!Covered, Shares!MemberIds
  <2>4. rest \in SUBSET Groups
    BY <1>1 DEF Shares!UiType
  <2>5. ui.groups \in SUBSET Groups /\ ui.users \in SUBSET Users
    BY <1>1 DEF Shares!UiType
  <2> HIDE DEF ids, kept
  <2>6. /\ more \in Shares!UiType /\ more.dialog = ui.dialog
        /\ more.groups = ui.groups \cup {g} /\ more.users = ui.users \cup ids
        /\ more.byHand = ui.byHand /\ more.usersKnown = ui.usersKnown
    BY <1>1, <2>2, <2>5 DEF Shares!UiType
  <2>7. /\ less \in Shares!UiType /\ less.dialog = ui.dialog
        /\ less.groups = rest /\ less.users = ui.users \ (ids \ kept)
        /\ less.byHand = ui.byHand /\ less.usersKnown = ui.usersKnown
    BY <1>1, <2>4, <2>5 DEF Shares!UiType
  <2> HIDE DEF more, less
  <2>8. TicksFit(ui) => TicksFit(more)
    BY <2>2, <2>6 DEF TicksFit, Shares!Shared
  <2>9. TicksFit(ui) => TicksFit(less)
    BY <2>3, <2>7 DEF TicksFit, Shares!Shared
  <2> QED BY <2>1, <2>6, <2>7, <2>8, <2>9, SharesEdits
<1>7. ASSUME NEW x \in Users, Shares!ToggleUser(x) PROVE SharesInv'
  <2> DEFINE users == IF x \in ui.users THEN ui.users \ {x} ELSE ui.users \cup {x}
             hand == ui.byHand \cup {x}
             u == [ui EXCEPT !.users = users, !.byHand = hand]
  <2>1. Shares!Edit(u)
    BY <1>7 DEF Shares!ToggleUser
  <2>2. users \in SUBSET Users /\ hand \in SUBSET Users
    BY <1>1 DEF Shares!UiType
  <2>3. ui.users \ hand \subseteq users /\ ui.byHand \subseteq hand
    OBVIOUS
  <2> HIDE DEF users, hand
  <2>4. /\ u \in Shares!UiType /\ u.dialog = ui.dialog
        /\ u.groups = ui.groups /\ u.users = users /\ u.byHand = hand
        /\ u.usersKnown = ui.usersKnown
    BY <1>1, <2>2 DEF Shares!UiType
  <2> HIDE DEF u
  <2>5. TicksFit(ui) => TicksFit(u)
    BY <2>3, <2>4 DEF TicksFit
  <2> QED BY <2>1, <2>4, <2>5, SharesEdits
<1> QED BY <1>2, <1>3, <1>4, <1>5, <1>6, <1>7 DEF Shares!Clicks

(***************************************************************************)
(* The service, and the answers.                                           *)
(***************************************************************************)
LEMMA SharesServes ==
  ASSUME Shares!ConstantsFit, SharesInv, NEW n \in Slots, Shares!Serve(n)
  PROVE  SharesInv'
<1> DEFINE t == net[n]
<1>1. /\ t \in SharesTasks /\ t.st = "sent" /\ ui' = ui
      /\ srv \in Shares!SrvType /\ ui \in Shares!UiType
  BY DEF SharesInv, Shares!Serve, Shares!Waiting
<1>2. PICK st \in {"ok", "failed"}, ans \in {srv, None} :
        /\ net' = [net EXCEPT ![n] = [t EXCEPT !.st = st, !.ans = ans]]
        /\ st = "ok" => ans = srv
        /\ \/ srv' = srv
           \/ srv' = [srv EXCEPT ![t.arg.key]
                        = Shares!Shared(t.arg.with, t.arg.groups)]
  BY DEF Shares!Serve, Shares!Reply
<1> DEFINE u == [t EXCEPT !.st = st, !.ans = ans]
<1>3. u \in SharesTasks /\ u.op = t.op /\ u.st # "idle"
  BY <1>1, <1>2 DEF SharesTasks
<1>4. Shares!Shared(t.arg.with, t.arg.groups) \in SUBSET Users
  <2>1. t.arg \in Shares!Asks
    BY <1>1 DEF SharesTasks
  <2>2. t.arg.with \in SUBSET Users /\ t.arg.groups \in SUBSET Groups
    BY <2>1 DEF Shares!Asks
  <2> QED BY <2>2 DEF Shares!Shared, Shares!ConstantsFit
<1>5. srv' \in Shares!SrvType
  BY <1>1, <1>2, <1>4 DEF Shares!SrvType
<1>6. net' = [net EXCEPT ![n] = u]
  BY <1>2
<1> HIDE DEF u
<1>7. TicksFit(ui) => TicksFit(ui')
  BY <1>1
<1> QED BY <1>1, <1>3, <1>5, <1>6, <1>7, SharesPuts

(* The answers to the page of keys.                                        *)
LEMMA SharesAnswers ==
  ASSUME Shares!ConstantsFit, SharesInv, NEW n \in Slots,
         Shares!DeliverSlot(n)
  PROVE  SharesInv'
<1> DEFINE t == net[n]
           got == t.st = "ok"
<1>1. /\ t \in SharesTasks /\ srv' = srv /\ t.st \in {"ok", "failed"}
      /\ t.arg \in Shares!Asks
      /\ ui \in Shares!UiType /\ srv \in Shares!SrvType
  BY DEF SharesInv, SharesTasks, Shares!DeliverSlot, Shares!DeliverUsers,
     Shares!DeliverGroups, Shares!DeliverSave, Shares!DeliverRead, Shares!Back
<1>2. Shares!NoTask \in SharesTasks
  BY DEF Shares!NoTask, SharesTasks
<1>3. ASSUME NEW op \in {"open", "save"}, NEW stage, NEW arg \in Shares!Asks,
             \/ op = "open" /\ stage \in {"users", "groups"}
             \/ op = "save" /\ stage \in {"save", "read"}
      PROVE  /\ Shares!Task(op, stage, arg) \in SharesTasks
             /\ Shares!Task(op, stage, arg).op = op
             /\ Shares!Task(op, stage, arg).st = "sent"
  BY <1>3 DEF Shares!Task, SharesTasks
<1>4. CASE Shares!DeliverUsers(n)
  <2> DEFINE a == [t.arg EXCEPT !.usersKnown = got]
             u == [ui EXCEPT !.usersKnown = got]
             x == Shares!Task(t.op, "groups", a)
  <2>1. t.op = "open"
    BY <1>1, <1>4 DEF Shares!DeliverUsers, SharesTasks
  <2>2. \/ ui' = Shares!Opened(u, a) /\ net' = [net EXCEPT ![n] = Shares!NoTask]
        \/ ui' = u /\ net' = [net EXCEPT ![n] = x]
    BY <1>4, Zenon DEF Shares!DeliverUsers, Shares!Finish, Shares!Continue
  <2>3. got \in BOOLEAN
    OBVIOUS
  <2> HIDE DEF got
  <2>4. a \in Shares!Asks /\ u \in Shares!UiType
    BY <1>1, <2>3 DEF Shares!Asks, Shares!UiType
  <2> HIDE DEF a, u
  <2>5. x \in SharesTasks /\ x.op = "open" /\ x.st # "idle"
    BY <1>3, <2>1, <2>4
  <2> HIDE DEF x
  <2>6. Shares!Opened(u, a) \in Shares!UiType /\ TicksFit(Shares!Opened(u, a))
    BY <2>4, SharesOpens
  <2> QED BY <1>1, <1>2, <2>2, <2>4, <2>5, <2>6, SharesPuts
<1>5. CASE Shares!DeliverGroups(n)
  <2> DEFINE a == [t.arg EXCEPT !.groupsKnown = got]
             u == [ui EXCEPT !.groupsKnown = got]
  <2>1. /\ ui' = Shares!Opened(u, a)
        /\ net' = [net EXCEPT ![n] = Shares!NoTask]
    BY <1>5, Zenon DEF Shares!DeliverGroups, Shares!Finish
  <2>2. got \in BOOLEAN
    OBVIOUS
  <2> HIDE DEF got
  <2>3. a \in Shares!Asks /\ u \in Shares!UiType
    BY <1>1, <2>2 DEF Shares!Asks, Shares!UiType
  <2> HIDE DEF a, u
  <2>4. Shares!Opened(u, a) \in Shares!UiType /\ TicksFit(Shares!Opened(u, a))
    BY <2>3, SharesOpens
  <2> QED BY <1>1, <1>2, <2>1, <2>4, SharesPuts
<1>6. CASE Shares!DeliverSave(n)
  <2> DEFINE u == [ui EXCEPT !.loading = FALSE]
             x == Shares!Task(t.op, "read", t.arg)
  <2>1. t.op = "save"
    BY <1>1, <1>6 DEF Shares!DeliverSave, SharesTasks
  <2>2. \/ ui' = u /\ net' = [net EXCEPT ![n] = Shares!NoTask]
        \/ ui' = ui /\ net' = [net EXCEPT ![n] = x]
    BY <1>6 DEF Shares!DeliverSave, Shares!Finish, Shares!Continue
  <2>3. /\ u \in Shares!UiType
        /\ u.dialog = ui.dialog /\ u.groups = ui.groups /\ u.users = ui.users
        /\ u.byHand = ui.byHand /\ u.usersKnown = ui.usersKnown
    BY <1>1 DEF Shares!UiType
  <2>4. x \in SharesTasks
    BY <1>1, <1>3, <2>1
  <2> HIDE DEF u, x
  <2>5. TicksFit(ui) => TicksFit(ui')
    BY <2>2, <2>3 DEF TicksFit
  <2> QED BY <1>1, <1>2, <2>1, <2>2, <2>3, <2>4, <2>5, SharesPuts
<1>7. CASE Shares!DeliverRead(n)
  <2> DEFINE u == [ui EXCEPT !.loading = FALSE]
             v == [ui EXCEPT !.loading = FALSE, !.shown = t.ans,
                             !.dialog = None, !.users = {}, !.groups = {}]
  <2>1. t.op = "save" /\ (got => t.ans \in Shares!SrvType)
    BY <1>1, <1>7 DEF Shares!DeliverRead, SharesTasks
  <2>2. /\ \/ ui' = u
           \/ ui' = v /\ got
        /\ net' = [net EXCEPT ![n] = Shares!NoTask]
    BY <1>7 DEF Shares!DeliverRead, Shares!Finish
  <2>3. /\ u \in Shares!UiType
        /\ u.dialog = ui.dialog /\ u.groups = ui.groups /\ u.users = ui.users
        /\ u.byHand = ui.byHand /\ u.usersKnown = ui.usersKnown
    BY <1>1 DEF Shares!UiType
  <2>4. got => v \in Shares!UiType /\ v.dialog = None
    BY <1>1, <2>1 DEF Shares!UiType, Shares!SrvType
  <2> HIDE DEF u, v
  <2>5. TicksFit(ui) => TicksFit(ui')
    BY <2>2, <2>3, <2>4 DEF TicksFit
  <2> QED BY <1>1, <1>2, <2>1, <2>2, <2>3, <2>4, <2>5, SharesPuts
<1> QED BY <1>4, <1>5, <1>6, <1>7 DEF Shares!DeliverSlot

(***************************************************************************)
(* The dialog itself.                                                      *)
(***************************************************************************)
LEMMA SharesInit ==
  Shares!BoundsFit /\ Shares!Init => SharesInv
<1> SUFFICES ASSUME Shares!BoundsFit, Shares!Init PROVE SharesInv
  OBVIOUS
<1>1. srv \in Shares!SrvType /\ 0 \in 0..MaxStarts
  BY DEF Shares!Init, Shares!SrvType, Shares!BoundsFit
<1>2. ui \in Shares!UiType /\ ui.dialog = None
  BY <1>1 DEF Shares!Init, Shares!UiType, Shares!SrvType, Shares!Tabs
<1>3. net \in [Slots -> SharesTasks]
  BY DEF Shares!Init, Shares!Quiet, Shares!NoTask, SharesTasks
<1> QED BY <1>1, <1>2, <1>3 DEF SharesInv, TicksFit

(* Every step of the sharing keeps its invariant.                          *)
LEMMA SharesNext ==
  Shares!BoundsFit /\ Shares!ConstantsFit /\ SharesInv
    /\ [Shares!Next]_(Shares!vars) => SharesInv'
<1> SUFFICES ASSUME Shares!BoundsFit, Shares!ConstantsFit, SharesInv,
                    [Shares!Next]_(Shares!vars)
             PROVE  SharesInv'
  OBVIOUS
<1>1. CASE UNCHANGED Shares!vars
  <2>1. ui \in Shares!UiType /\ Shares!Edit(ui)
    BY <1>1 DEF Shares!vars, Shares!Edit, SharesInv
  <2> QED BY <2>1, SharesEdits
<1>2. CASE Shares!Clicks
  BY <1>2, SharesClicks
<1>3. ASSUME NEW n \in Slots, Shares!Serve(n) \/ Shares!DeliverSlot(n)
      PROVE  SharesInv'
  BY <1>3, SharesServes, SharesAnswers
<1> QED BY <1>1, <1>2, <1>3 DEF Shares!Next

(* What the page's invariant says of the properties.                       *)
LEMMA SharesTells ==
  SharesInv => Shares!TypeOK /\ Shares!TicksCovered
<1> SUFFICES ASSUME SharesInv PROVE Shares!TypeOK /\ Shares!TicksCovered
  OBVIOUS
<1>1. Shares!TypeOK
  BY DEF SharesInv, SharesTasks, Shares!TypeOK
<1>2. Shares!TicksCovered
  BY DEF SharesInv, TicksFit, Shares!TicksCovered
<1> QED BY <1>1, <1>2

-----------------------------------------------------------------------------
(* Alerts: the order of the rules, and the lists that are current.         *)

AlertsArgs == [id : Alerts!Items \cup {None}, filters : Alerts!Filters,
               request : Nat]
AlertsAnswers == [rules : SUBSET Rules, silences : SUBSET Silences,
                  hidden : SUBSET Alerts!Items]
AlertsTasks ==
  {t \in [op : {"none", "load", "confirm", "unhide", "test", "silence",
                "import"},
          stage : {"none", "load", "delete", "hide", "unhide", "test",
                   "silence", "preview", "import"},
          st : {"idle", "sent", "ok", "partly", "failed"},
          arg : AlertsArgs \cup {None}, ans : AlertsAnswers \cup {None}] :
     /\ t.st # "idle" => t.arg \in AlertsArgs
     /\ t.st # "idle" /\ t.stage \in {"hide", "silence", "import"} =>
          t.arg.id \in Alerts!Items
     /\ t.st \in {"ok", "partly", "failed"} /\ t.stage = "load" =>
          t.ans \in AlertsAnswers}

(* The order fits the rules, and what the dialog asks is about an item.    *)
AlertsShown(u) == /\ u \in Alerts!UiType
                  /\ Alerts!Fits(u.order, u.rules)
                  /\ u.asked # "none" => u.target \in Alerts!Items

(* A handler that will load anew, or tell that it failed: from then on the *)
(* lists need not be current.                                              *)
AlertsChanging(t) ==
  /\ t.st # "idle"
  /\ t.stage \notin {"load", "test", "preview"} \/ t.st \in {"partly", "failed"}
(* The load whose answer would be shown.                                   *)
AlertsLoading(t) == t.st # "idle" /\ t.stage = "load"
AlertsNewest(t, u) == AlertsLoading(t) /\ t.arg.request = u.request
AlertsFresh(t) == /\ t.ans.rules = Alerts!RulesFor(t.arg.filters)
                  /\ t.ans.silences = Alerts!SilencesFor(t.arg.filters)
AlertsCurrent(u) == /\ u.rules = Alerts!RulesFor(u.of)
                    /\ u.silences = Alerts!SilencesFor(u.of)

(* No load has a number that was not given, and while none is to come that *)
(* shows a change, the newest load or the lists themselves are current.    *)
AlertsNumbered ==
  \A n \in Slots : AlertsLoading(net[n]) => net[n].arg.request <= ui.request
AlertsSure ==
  /\ \A n \in Slots : AlertsNewest(net[n], ui) /\ net[n].st = "ok" =>
                        AlertsFresh(net[n])
  /\ (\E n \in Slots : AlertsNewest(net[n], ui)) \/ AlertsCurrent(ui)
AlertsInv == /\ AlertsShown(ui) /\ srv \in Alerts!SrvType
             /\ net \in [Slots -> AlertsTasks]
             /\ AlertsNumbered
             /\ \/ ui.failed
                \/ \E n \in Slots : AlertsChanging(net[n])
                \/ AlertsSure

(* What the service lists depends on what it keeps alone.                  *)
LEMMA AlertsListings ==
  ASSUME srv' = srv
  PROVE  /\ \A t : AlertsFresh(t)' <=> AlertsFresh(t)
         /\ \A u : AlertsCurrent(u)' <=> AlertsCurrent(u)
  BY DEF AlertsFresh, AlertsCurrent, Alerts!RulesFor, Alerts!SilencesFor

(***************************************************************************)
(* A slot put to another use.  Nothing is claimed after a failure, and     *)
(* before a change is loaded; else a newer load begins, a load comes by    *)
(* its answer, the newest one is shown, or neither loads nor lists change. *)
(***************************************************************************)
AlertsAlike(u) == /\ u.rules = ui.rules /\ u.silences = ui.silences
                  /\ u.of = ui.of
(* Which uses of a slot keep the invariant.                                *)
LEMMA AlertsPuts ==
  ASSUME AlertsInv, AlertsShown(ui'), srv' \in Alerts!SrvType,
         NEW n \in Slots, NEW t \in AlertsTasks, net' = [net EXCEPT ![n] = t],
         ui'.request >= ui.request,
         AlertsLoading(t) => t.arg.request <= ui'.request,
         \/ ui'.failed
         \/ AlertsChanging(t)
         \/ /\ ui'.request = ui.request + 1
            /\ AlertsNewest(t, ui') /\ t.st = "sent"
         \/ /\ srv' = srv /\ ~AlertsChanging(net[n])
            /\ ui'.request = ui.request
            /\ ui.failed => ui'.failed
            /\ \/ /\ AlertsAlike(ui') /\ ~AlertsNewest(net[n], ui)
                  /\ ~AlertsNewest(t, ui)
               \/ /\ AlertsAlike(ui') /\ AlertsLoading(net[n])
                  /\ AlertsLoading(t) /\ t.arg = net[n].arg /\ AlertsFresh(t)
               \/ /\ AlertsNewest(net[n], ui) /\ net[n].st = "ok"
                  /\ t.st = "idle"
                  /\ AlertsFresh(net[n]) => AlertsCurrent(ui')
  PROVE  AlertsInv'
<1>1. net' \in [Slots -> AlertsTasks] /\ ui.request \in Nat /\ ui'.request \in Nat
  BY DEF AlertsInv, AlertsShown, Alerts!UiType
<1>2. \A m \in Slots : net'[m] = IF m = n THEN t ELSE net[m]
  BY DEF AlertsInv
<1>3. \A m \in Slots : AlertsLoading(net[m]) => /\ net[m].arg.request \in Nat
                                                /\ net[m].arg.request <= ui.request
  BY DEF AlertsInv, AlertsNumbered, AlertsLoading, AlertsTasks, AlertsArgs
<1>4. \A m \in Slots : AlertsLoading(net'[m]) => net'[m].arg.request <= ui'.request
  BY <1>1, <1>2, <1>3
<1>5. \/ ui'.failed
      \/ \E m \in Slots : AlertsChanging(net'[m])
      \/ /\ \A m \in Slots : AlertsNewest(net'[m], ui') /\ net'[m].st = "ok" =>
                               AlertsFresh(net[m])'
         /\ (\E m \in Slots : AlertsNewest(net'[m], ui')) \/ AlertsCurrent(ui)'
  <2>1. CASE ui'.failed
    BY <2>1
  <2>2. CASE AlertsChanging(t)
    BY <1>2, <2>2
  <2>3. CASE /\ ui'.request = ui.request + 1
             /\ AlertsNewest(t, ui') /\ t.st = "sent"
    <3>1. \A m \in Slots : m # n => ~AlertsNewest(net'[m], ui')
      BY <1>1, <1>2, <1>3, <2>3 DEF AlertsNewest
    <3> QED BY <1>2, <2>3, <3>1
  <2>4. CASE /\ srv' = srv /\ ~AlertsChanging(net[n])
             /\ ui'.request = ui.request /\ (ui.failed => ui'.failed)
    <3>0. \A x : AlertsNewest(x, ui') <=> AlertsNewest(x, ui)
      BY <2>4 DEF AlertsNewest
    <3>1. \A m \in Slots : AlertsFresh(net[m])' <=> IF m = n THEN AlertsFresh(t)
                                                   ELSE AlertsFresh(net[m])
      <4>1. ASSUME NEW m \in Slots, NEW x, net'[m] = x
            PROVE  AlertsFresh(net[m])' <=> AlertsFresh(x)
        <5>1. AlertsFresh(x)' <=> AlertsFresh(x)
          BY <2>4, AlertsListings
        <5> QED BY <4>1, <5>1 DEF AlertsFresh
      <4> QED BY <1>2, <4>1
    <3>2. AlertsCurrent(ui)' <=> AlertsCurrent(ui')
      <4> SUFFICES ASSUME NEW u, u = ui'
                   PROVE  AlertsCurrent(ui)' <=> AlertsCurrent(u)
        OBVIOUS
      <4>1. AlertsCurrent(u)' <=> AlertsCurrent(u)
        BY <2>4, AlertsListings
      <4> QED BY <4>1 DEF AlertsCurrent
    <3>3. CASE \E m \in Slots : AlertsChanging(net[m])
      BY <1>2, <2>4, <3>3
    <3>4. CASE ui.failed
      BY <2>4, <3>4
    <3>5. CASE AlertsSure
      <4>1. \A m \in Slots : AlertsNewest(net[m], ui) /\ net[m].st = "ok" =>
                               AlertsFresh(net[m])
        BY <3>5 DEF AlertsSure
      <4>2. (\E m \in Slots : AlertsNewest(net[m], ui)) \/ AlertsCurrent(ui)
        BY <3>5 DEF AlertsSure
      <4>3. AlertsAlike(ui') => (AlertsCurrent(ui) => AlertsCurrent(ui'))
        <5> SUFFICES ASSUME NEW u, AlertsAlike(u)
                     PROVE  AlertsCurrent(ui) => AlertsCurrent(u)
          OBVIOUS
        <5> QED BY DEF AlertsAlike, AlertsCurrent
      <4>4. CASE AlertsAlike(ui') /\ ~AlertsNewest(net[n], ui)
                   /\ ~AlertsNewest(t, ui)
        BY <1>2, <3>0, <3>1, <3>2, <4>1, <4>2, <4>3, <4>4
      <4>5. CASE AlertsAlike(ui') /\ AlertsLoading(net[n]) /\ AlertsLoading(t)
                   /\ t.arg = net[n].arg /\ AlertsFresh(t)
        <5>1. AlertsNewest(t, ui) <=> AlertsNewest(net[n], ui)
          BY <4>5 DEF AlertsNewest
        <5> QED BY <1>2, <3>0, <3>1, <3>2, <4>1, <4>2, <4>3, <4>5, <5>1
      <4>6. CASE /\ AlertsNewest(net[n], ui) /\ net[n].st = "ok"
                 /\ t.st = "idle"
                 /\ AlertsFresh(net[n]) => AlertsCurrent(ui')
        <5>1. ~AlertsNewest(t, ui) /\ AlertsCurrent(ui')
          BY <4>1, <4>6 DEF AlertsNewest, AlertsLoading
        <5> QED BY <1>2, <3>0, <3>1, <3>2, <4>1, <5>1
      <4> QED BY <2>1, <2>2, <2>3, <4>4, <4>5, <4>6
    <3> QED BY <3>3, <3>4, <3>5 DEF AlertsInv
  <2> QED BY <2>1, <2>2, <2>3, <2>4
<1> QED BY <1>1, <1>4, <1>5 DEF AlertsInv, AlertsShown, AlertsNumbered,
        AlertsSure, AlertsNewest, AlertsLoading, AlertsChanging

(* A click that begins no handler, and no list changes.                    *)
LEMMA AlertsEdits ==
  ASSUME AlertsInv, AlertsShown(ui'), srv' = srv, net' = net,
         AlertsAlike(ui'), ui'.request = ui.request, ui'.failed = ui.failed
  PROVE  AlertsInv'
<1>1. AlertsSure => AlertsSure'
  <2>1. \A n : AlertsNewest(net[n], ui)' <=> AlertsNewest(net[n], ui)
    BY DEF AlertsNewest, AlertsLoading
  <2>2. \A n : AlertsFresh(net[n])' <=> AlertsFresh(net[n])
    BY DEF AlertsFresh, Alerts!RulesFor, Alerts!SilencesFor
  <2>3. AlertsCurrent(ui) => AlertsCurrent(ui)'
    BY DEF AlertsCurrent, AlertsAlike, Alerts!RulesFor, Alerts!SilencesFor
  <2> QED BY <2>1, <2>2, <2>3 DEF AlertsSure
<1>2. AlertsNumbered'
  BY DEF AlertsInv, AlertsNumbered, AlertsLoading
<1> QED BY <1>1, <1>2 DEF AlertsInv, AlertsShown, AlertsChanging

(***************************************************************************)
(* A handler begins.                                                       *)
(***************************************************************************)
LEMMA AlertsStarts ==
  ASSUME Alerts!BoundsFit, AlertsInv, NEW u, AlertsShown(u), AlertsAlike(u),
         u.starts = ui.starts, u.failed = ui.failed,
         NEW op, NEW stage, NEW arg,
         Alerts!Task(op, stage, arg) \in AlertsTasks,
         Alerts!Start(u, op, stage, arg),
         IF stage = "load" THEN /\ u.request = ui.request + 1
                                /\ arg.request = u.request
                           ELSE u.request = ui.request
  PROVE  AlertsInv'
<1> DEFINE t == Alerts!Task(op, stage, arg)
           n == Alerts!FirstFree
           v == [u EXCEPT !.starts = @ + 1]
<1>1. Shares!BoundsFit
  BY DEF Alerts!BoundsFit, Shares!BoundsFit, Alerts!IsFiniteSet, Shares!IsFiniteSet
<1>2. n \in Slots /\ net[n].st = "idle" /\ net' = [net EXCEPT ![n] = t]
  BY <1>1, FirstFreeIsFree DEF Alerts!Start, Alerts!Begin
<1>3. ui' = v /\ srv' = srv /\ ui.starts < MaxStarts
  BY DEF Alerts!Start
<1>4. /\ v \in Alerts!UiType /\ v.order = u.order /\ v.rules = u.rules
      /\ v.asked = u.asked /\ v.target = u.target /\ v.failed = u.failed
      /\ v.silences = u.silences /\ v.of = u.of /\ v.request = u.request
  BY <1>3 DEF AlertsShown, Alerts!UiType, Alerts!BoundsFit
<1> HIDE DEF v
<1>5. AlertsShown(ui') /\ AlertsAlike(ui') /\ ui'.failed = ui.failed
  BY <1>3, <1>4 DEF AlertsShown, AlertsAlike
<1>6. /\ t \in AlertsTasks /\ t.st = "sent" /\ t.stage = stage /\ t.arg = arg
  BY DEF Alerts!Task
<1>7. srv' \in Alerts!SrvType /\ ui.request \in Nat
  BY <1>3 DEF AlertsInv, AlertsShown, Alerts!UiType
<1>8. ~AlertsChanging(net[n]) /\ ~AlertsNewest(net[n], ui)
  BY <1>2 DEF AlertsChanging, AlertsNewest, AlertsLoading
<1> HIDE DEF t, n
<1>9. CASE stage = "load"
  <2>1. ui'.request = ui.request + 1 /\ AlertsNewest(t, ui')
    BY <1>3, <1>4, <1>6, <1>9 DEF AlertsNewest, AlertsLoading
  <2>2. /\ ui'.request >= ui.request
        /\ AlertsLoading(t) => t.arg.request <= ui'.request
    BY <1>7, <2>1 DEF AlertsNewest
  <2> QED BY <1>2, <1>5, <1>6, <1>7, <2>1, <2>2, AlertsPuts
<1>10. CASE stage \in {"test", "preview"}
  <2>1. ~AlertsLoading(t) /\ ~AlertsNewest(t, ui) /\ ui'.request = ui.request
    BY <1>3, <1>4, <1>6, <1>10 DEF AlertsNewest, AlertsLoading
  <2>2. ui'.request >= ui.request
    BY <1>7, <2>1
  <2> QED BY <1>2, <1>3, <1>5, <1>6, <1>7, <1>8, <2>1, <2>2, AlertsPuts
<1>11. CASE stage \notin {"load", "test", "preview"}
  <2>1. ~AlertsLoading(t) /\ AlertsChanging(t) /\ ui'.request = ui.request
    BY <1>3, <1>4, <1>6, <1>11 DEF AlertsChanging, AlertsLoading
  <2>2. ui'.request >= ui.request
    BY <1>7, <2>1
  <2> QED BY <1>2, <1>5, <1>6, <1>7, <2>1, <2>2, AlertsPuts
<1> QED BY <1>9, <1>10, <1>11

(* What a load asks for, and what the requests of handlers are about.      *)
LEMMA AlertsTaskTypes ==
  /\ Alerts!NoTask \in AlertsTasks /\ Alerts!NoTask.st = "idle"
  /\ \A f \in Alerts!Filters, n \in Nat :
       Alerts!Task("load", "load", Alerts!Load(f, n)) \in AlertsTasks
  /\ \A arg \in AlertsArgs :
       /\ Alerts!Task("confirm", "none", arg) \in AlertsTasks
       /\ Alerts!Task("confirm", "delete", arg) \in AlertsTasks
       /\ Alerts!Task("unhide", "unhide", arg) \in AlertsTasks
       /\ Alerts!Task("test", "test", arg) \in AlertsTasks
       /\ Alerts!Task("import", "preview", arg) \in AlertsTasks
       /\ arg.id \in Alerts!Items =>
            /\ Alerts!Task("confirm", "hide", arg) \in AlertsTasks
            /\ Alerts!Task("silence", "silence", arg) \in AlertsTasks
            /\ Alerts!Task("import", "import", arg) \in AlertsTasks
  BY DEF AlertsTasks, AlertsArgs, Alerts!NoTask, Alerts!Task, Alerts!Load

(* Two states of the page that show and ask the same.                      *)
AlertsSame(u, v) ==
  /\ v \in Alerts!UiType /\ v.rules = u.rules /\ v.silences = u.silences
  /\ v.of = u.of /\ v.order = u.order /\ v.failed = u.failed
  /\ v.starts = u.starts
  /\ v.asked # "none" => v.asked = u.asked /\ v.target = u.target
(* What shows the same orders fits the same rules.                         *)
LEMMA AlertsSameShown ==
  ASSUME NEW u, NEW v, AlertsShown(u), AlertsSame(u, v)
  PROVE  AlertsShown(v)
  BY DEF AlertsShown, AlertsSame

(* A load begins under the next number.                                    *)
LEMMA AlertsLoadBegins ==
  ASSUME NEW u \in Alerts!UiType
  PROVE  /\ AlertsSame(u, Alerts!BeginLoad(u))
         /\ Alerts!BeginLoad(u).request = u.request + 1
<1> DEFINE next == u.request + 1
           v == [u EXCEPT !.request = next, !.loading = TRUE]
<1>1. next \in Nat /\ Alerts!BeginLoad(u) = v
  BY DEF Alerts!BeginLoad, Alerts!UiType
<1> HIDE DEF next
<1>2. AlertsSame(u, v) /\ v.request = next
  BY <1>1 DEF AlertsSame, Alerts!UiType
<1> QED BY <1>1, <1>2 DEF next

(***************************************************************************)
(* The filters, the tabs and the dialogs.                                  *)
(***************************************************************************)
LEMMA AlertsFilters ==
  ASSUME Alerts!BoundsFit, AlertsInv,
         \/ Alerts!ShowHiddenRules \/ Alerts!ShowHiddenSilences
         \/ Alerts!ApplyRulesFilters
         \/ \E severity \in {"all", "critical"} :
              Alerts!ApplyAlertFilters(severity)
  PROVE  AlertsInv'
<1>1. ui \in Alerts!UiType /\ ui.filters \in Alerts!Filters /\ ui.request \in Nat
      /\ ui.owner \in {"all", "owned"} /\ AlertsShown(ui)
  BY DEF AlertsInv, AlertsShown, Alerts!UiType
<1>2. ASSUME NEW f \in Alerts!Filters, Alerts!Reload(f) PROVE AlertsInv'
  <2> DEFINE u == Alerts!BeginLoad([ui EXCEPT !.filters = f])
             arg == Alerts!Load(f, ui.request + 1)
  <2>1. Alerts!Start(u, "load", "load", arg)
    BY <1>2 DEF Alerts!Reload
  <2>2. AlertsSame(ui, u) /\ u.request = ui.request + 1
    <3> DEFINE v == [ui EXCEPT !.filters = f]
    <3>1. AlertsSame(ui, v) /\ v.request = ui.request
      BY <1>1 DEF AlertsSame, Alerts!UiType
    <3>2. u = Alerts!BeginLoad(v)
      OBVIOUS
    <3> HIDE DEF u, v
    <3> QED BY <1>1, <3>1, <3>2, AlertsLoadBegins DEF AlertsSame
  <2>3. Alerts!Task("load", "load", arg) \in AlertsTasks
        /\ arg.request = ui.request + 1
    BY <1>1, AlertsTaskTypes DEF Alerts!Load
  <2> HIDE DEF u, arg
  <2>4. AlertsShown(u) /\ AlertsAlike(u)
    BY <1>1, <2>2, AlertsSameShown DEF AlertsSame, AlertsAlike
  <2> QED BY <2>1, <2>2, <2>3, <2>4, AlertsStarts DEF AlertsSame
<1>3. CASE Alerts!ShowHiddenRules
  <2> DEFINE hidden == ~ui.filters.hiddenRules
  <2>1. hidden \in BOOLEAN /\ Alerts!Reload([ui.filters EXCEPT !.hiddenRules = hidden])
    BY <1>3, Zenon DEF Alerts!ShowHiddenRules
  <2> HIDE DEF hidden
  <2>2. [ui.filters EXCEPT !.hiddenRules = hidden] \in Alerts!Filters
    BY <1>1, <2>1 DEF Alerts!Filters
  <2> QED BY <1>2, <2>1, <2>2
<1>4. CASE Alerts!ShowHiddenSilences
  <2> DEFINE hidden == ~ui.filters.hiddenSilences
  <2>1. /\ hidden \in BOOLEAN
        /\ Alerts!Reload([ui.filters EXCEPT !.hiddenSilences = hidden])
    BY <1>4, Zenon DEF Alerts!ShowHiddenSilences
  <2> HIDE DEF hidden
  <2>2. [ui.filters EXCEPT !.hiddenSilences = hidden] \in Alerts!Filters
    BY <1>1, <2>1 DEF Alerts!Filters
  <2> QED BY <1>2, <2>1, <2>2
<1>5. CASE Alerts!ApplyRulesFilters
  <2>1. [ui.filters EXCEPT !.owner = ui.owner] \in Alerts!Filters
    BY <1>1 DEF Alerts!Filters
  <2> QED BY <1>2, <1>5, <2>1 DEF Alerts!ApplyRulesFilters
<1>6. ASSUME NEW severity \in {"all", "critical"},
             Alerts!ApplyAlertFilters(severity)
      PROVE  AlertsInv'
  <2>1. [ui.filters EXCEPT !.severity = severity] \in Alerts!Filters
    BY <1>1 DEF Alerts!Filters
  <2> QED BY <1>2, <1>6, <2>1 DEF Alerts!ApplyAlertFilters
<1> QED BY <1>3, <1>4, <1>5, <1>6

(* What the user clicks that begins no handler.                            *)
LEMMA AlertsPage ==
  ASSUME AlertsInv,
         \/ Alerts!OpenSilenceForm \/ Alerts!OpenImport \/ Alerts!Cancel
         \/ Alerts!CloseTest
         \/ \E tab \in Alerts!Tabs : Alerts!SetTab(tab)
         \/ \E owner \in {"all", "owned"} : Alerts!EditRulesFilter(owner)
         \/ \E r \in Rules, q \in Rules : Alerts!Reorder(r, q)
         \/ \E i \in Alerts!Items : Alerts!AskDelete(i) \/ Alerts!AskHide(i)
  PROVE  AlertsInv'
<1>1. ui \in Alerts!UiType /\ AlertsShown(ui)
  BY DEF AlertsInv, AlertsShown
<1>2. ASSUME NEW u, AlertsShown(u), AlertsAlike(u), u.request = ui.request,
             u.failed = ui.failed, ui' = u, srv' = srv, net' = net
      PROVE  AlertsInv'
  BY <1>2, AlertsEdits
<1>3. ASSUME NEW u, AlertsSame(ui, u), u.request = ui.request,
             ui' = u, srv' = srv, net' = net
      PROVE  AlertsInv'
  <2>1. AlertsShown(u) /\ AlertsAlike(u) /\ u.failed = ui.failed
    BY <1>1, <1>3, AlertsSameShown DEF AlertsSame, AlertsAlike
  <2> QED BY <1>2, <1>3, <2>1
<1>4. CASE Alerts!OpenSilenceForm
  <2> DEFINE u == [ui EXCEPT !.dialog = "silence"]
  <2>1. AlertsSame(ui, u) /\ u.request = ui.request
    BY <1>1 DEF AlertsSame, Alerts!UiType, Alerts!Dialogs
  <2> QED BY <1>3, <1>4, <2>1 DEF Alerts!OpenSilenceForm
<1>5. CASE Alerts!OpenImport
  <2> DEFINE u == [ui EXCEPT !.dialog = "import"]
  <2>1. AlertsSame(ui, u) /\ u.request = ui.request
    BY <1>1 DEF AlertsSame, Alerts!UiType, Alerts!Dialogs
  <2> QED BY <1>3, <1>5, <2>1 DEF Alerts!OpenImport
<1>6. CASE Alerts!Cancel
  <2>1. AlertsSame(ui, Alerts!Closed(ui))
        /\ Alerts!Closed(ui).request = ui.request
    BY <1>1 DEF AlertsSame, Alerts!UiType, Alerts!Dialogs, Alerts!Closed
  <2> QED BY <1>3, <1>6, <2>1 DEF Alerts!Cancel
<1>7. CASE Alerts!CloseTest
  <2> DEFINE u == [ui EXCEPT !.tested = FALSE]
  <2>1. AlertsSame(ui, u) /\ u.request = ui.request
    BY <1>1 DEF AlertsSame, Alerts!UiType
  <2> QED BY <1>3, <1>7, <2>1 DEF Alerts!CloseTest
<1>8. ASSUME NEW tab \in Alerts!Tabs, Alerts!SetTab(tab) PROVE AlertsInv'
  <2> DEFINE u == [ui EXCEPT !.tab = tab]
  <2>1. AlertsSame(ui, u) /\ u.request = ui.request
    BY <1>1 DEF AlertsSame, Alerts!UiType
  <2> QED BY <1>3, <1>8, <2>1 DEF Alerts!SetTab
<1>9. ASSUME NEW owner \in {"all", "owned"}, Alerts!EditRulesFilter(owner)
      PROVE  AlertsInv'
  <2> DEFINE u == [ui EXCEPT !.owner = owner]
  <2>1. AlertsSame(ui, u) /\ u.request = ui.request
    BY <1>1 DEF AlertsSame, Alerts!UiType
  <2> QED BY <1>3, <1>9, <2>1 DEF Alerts!EditRulesFilter
<1>10. ASSUME NEW op \in {"delete", "hide"}, NEW i \in Alerts!Items,
              Alerts!Ask(op, i), srv' = srv, net' = net
       PROVE  AlertsInv'
  <2> DEFINE u == [ui EXCEPT !.dialog = "confirm", !.asked = op, !.target = i]
  <2>1. /\ u \in Alerts!UiType /\ u.order = ui.order /\ u.target = i
        /\ u.request = ui.request /\ u.failed = ui.failed /\ AlertsAlike(u)
    BY <1>1 DEF Alerts!UiType, Alerts!Dialogs, AlertsAlike
  <2>2. ui' = u
    BY <1>10 DEF Alerts!Ask
  <2> HIDE DEF u
  <2>3. AlertsShown(u)
    BY <1>1, <2>1 DEF AlertsShown, AlertsAlike
  <2> QED BY <1>2, <1>10, <2>1, <2>2, <2>3
<1>11. ASSUME NEW i \in Alerts!Items, Alerts!AskDelete(i) \/ Alerts!AskHide(i)
       PROVE  AlertsInv'
  BY <1>10, <1>11 DEF Alerts!AskDelete, Alerts!AskHide
<1>12. ASSUME NEW r \in Rules, NEW q \in Rules, Alerts!Reorder(r, q)
       PROVE  AlertsInv'
  <2> DEFINE order == Alerts!Moved(ui.order, r, q)
             u == [ui EXCEPT !.order = order]
  <2>1. r \in ui.rules /\ q \in ui.rules
    BY <1>12 DEF Alerts!Reorder, Alerts!Card, Alerts!FilteredRules,
       Alerts!SilenceButtons
  <2>2. ui.order \in Seq(Rules) /\ Range(ui.order) = ui.rules
        /\ IsInjective(ui.order)
    BY <1>1, AlertsOrders DEF AlertsShown, Alerts!UiType, Fits
  <2>3. order \in Seq(Rules) /\ Alerts!Fits(order, ui.rules)
    BY <2>1, <2>2, MovedFits, AlertsOrders
  <2>4. ui' = u /\ srv' = srv /\ net' = net
    BY <1>12 DEF Alerts!Reorder
  <2> HIDE DEF order
  <2>5. /\ u \in Alerts!UiType /\ u.order = order /\ u.target = ui.target
        /\ u.asked = ui.asked
        /\ u.request = ui.request /\ u.failed = ui.failed /\ AlertsAlike(u)
    BY <1>1, <2>3 DEF Alerts!UiType, AlertsAlike
  <2> HIDE DEF u
  <2>6. AlertsShown(u)
    BY <1>1, <2>3, <2>5 DEF AlertsShown, AlertsAlike
  <2> QED BY <1>2, <2>4, <2>5, <2>6
<1> QED BY <1>4, <1>5, <1>6, <1>7, <1>8, <1>9, <1>11, <1>12

(***************************************************************************)
(* The handlers of the three tabs.                                         *)
(***************************************************************************)
LEMMA AlertsHandlers ==
  ASSUME Alerts!BoundsFit, AlertsInv,
         \/ Alerts!Confirm
         \/ \E i \in Alerts!Items : \/ Alerts!Unhide(i) \/ Alerts!TestRule(i)
                                    \/ Alerts!CreateSilence(i)
         \/ \E r \in Rules, dryRun \in BOOLEAN : Alerts!ImportRules(r, dryRun)
  PROVE  AlertsInv'
<1>1. ui \in Alerts!UiType /\ AlertsShown(ui)
  BY DEF AlertsInv, AlertsShown
<1>2. \A i \in Alerts!Items \cup {None} :
        Alerts!Now(i) \in AlertsArgs /\ Alerts!Now(i).id = i
  BY <1>1 DEF Alerts!Now, Alerts!Load, AlertsArgs, Alerts!UiType
<1>3. ASSUME NEW u, AlertsSame(ui, u), u.request = ui.request, NEW op,
             NEW stage, stage # "load", NEW arg,
             Alerts!Task(op, stage, arg) \in AlertsTasks,
             Alerts!Start(u, op, stage, arg)
      PROVE  AlertsInv'
  <2>1. AlertsShown(u) /\ AlertsAlike(u) /\ u.failed = ui.failed
        /\ u.starts = ui.starts
    BY <1>1, <1>3, AlertsSameShown DEF AlertsSame, AlertsAlike
  <2> QED BY <1>3, <2>1, AlertsStarts
<1>4. AlertsSame(ui, ui)
  BY <1>1 DEF AlertsSame
<1>5. CASE Alerts!Confirm
  <2>1. /\ ui.target \in Alerts!Items \cup {None}
        /\ ui.asked \in {"none", "delete", "hide"}
        /\ ui.asked # "none" => ui.target \in Alerts!Items
    BY <1>1 DEF AlertsShown, Alerts!UiType
  <2>2. Alerts!Task("confirm", ui.asked, Alerts!Now(ui.target)) \in AlertsTasks
    BY <1>2, <2>1, AlertsTaskTypes
  <2> QED BY <1>3, <1>4, <1>5, <2>1, <2>2 DEF Alerts!Confirm
<1>6. ASSUME NEW i \in Alerts!Items, Alerts!Unhide(i) PROVE AlertsInv'
  <2>1. Alerts!Task("unhide", "unhide", Alerts!Now(i)) \in AlertsTasks
    BY <1>2, AlertsTaskTypes
  <2> QED BY <1>3, <1>4, <1>6, <2>1 DEF Alerts!Unhide
<1>7. ASSUME NEW i \in Alerts!Items, Alerts!TestRule(i) PROVE AlertsInv'
  <2>1. Alerts!Task("test", "test", Alerts!Now(i)) \in AlertsTasks
    BY <1>2, AlertsTaskTypes
  <2> QED BY <1>3, <1>4, <1>7, <2>1 DEF Alerts!TestRule
<1>8. ASSUME NEW i \in Alerts!Items, Alerts!CreateSilence(i) PROVE AlertsInv'
  <2>1. Alerts!Task("silence", "silence", Alerts!Now(i)) \in AlertsTasks
    BY <1>2, AlertsTaskTypes
  <2>2. AlertsSame(ui, Alerts!Closed(ui))
        /\ Alerts!Closed(ui).request = ui.request
    BY <1>1 DEF AlertsSame, Alerts!UiType, Alerts!Dialogs, Alerts!Closed
  <2> QED BY <1>3, <1>8, <2>1, <2>2 DEF Alerts!CreateSilence
<1>9. ASSUME NEW r \in Rules, NEW dryRun \in BOOLEAN,
             Alerts!ImportRules(r, dryRun)
      PROVE  AlertsInv'
  <2> DEFINE u == [ui EXCEPT !.importing = TRUE]
             stage == IF dryRun THEN "preview" ELSE "import"
  <2>1. r \in Alerts!Items
    BY DEF Alerts!Items
  <2>2. Alerts!Task("import", stage, Alerts!Now(r)) \in AlertsTasks
        /\ stage # "load"
    BY <1>2, <2>1, AlertsTaskTypes
  <2>3. AlertsSame(ui, u) /\ u.request = ui.request
    BY <1>1 DEF AlertsSame, Alerts!UiType
  <2>4. Alerts!Start(u, "import", stage, Alerts!Now(r))
    BY <1>9 DEF Alerts!ImportRules
  <2> HIDE DEF u, stage
  <2> QED BY <1>3, <2>2, <2>3, <2>4
<1> QED BY <1>5, <1>6, <1>7, <1>8, <1>9

(***************************************************************************)
(* The service.                                                            *)
(***************************************************************************)
LEMMA AlertsServes ==
  ASSUME AlertsInv, NEW n \in Slots, Alerts!ServeSlot(n)
  PROVE  AlertsInv'
<1> DEFINE t == net[n]
<1>1. /\ t \in AlertsTasks /\ t.st = "sent" /\ t.arg \in AlertsArgs /\ ui' = ui
      /\ AlertsShown(ui) /\ AlertsShown(ui') /\ srv \in Alerts!SrvType
      /\ ui.request \in Nat /\ ui'.request >= ui.request
      /\ AlertsLoading(t) => t.arg.request <= ui.request
  BY DEF AlertsInv, AlertsShown, AlertsTasks, AlertsNumbered, Alerts!ServeSlot,
     Alerts!ServeWrite, Alerts!ServeLoad, Alerts!Waiting, Alerts!UiType
<1>2. CASE Alerts!ServeWrite(n)
  <2>1. PICK st \in {"ok", "failed"} :
          /\ net' = [net EXCEPT ![n] = [t EXCEPT !.st = st, !.ans = None]]
          /\ srv' = Alerts!Written(t.stage, t.arg.id) \/ srv' = srv
    BY <1>2 DEF Alerts!ServeWrite, Alerts!Reply
  <2> DEFINE x == [t EXCEPT !.st = st, !.ans = None]
  <2>2. /\ x \in AlertsTasks /\ x.stage = t.stage /\ x.st = st
        /\ t.stage # "load"
    BY <1>1, <1>2 DEF AlertsTasks, Alerts!ServeWrite
  <2>3. net' = [net EXCEPT ![n] = x]
    BY <2>1
  <2>4. srv' \in Alerts!SrvType
    <3> DEFINE i == t.arg.id
    <3>0. /\ srv.there \in SUBSET Alerts!Items
          /\ srv.hidden \in SUBSET (Alerts!Items \ MyAlerts)
      BY <1>1 DEF Alerts!SrvType
    <3>1. CASE t.stage = "delete"
      <4>1. Alerts!Written(t.stage, i)
              = [srv EXCEPT !.there = @ \ {i}, !.hidden = @ \ {i}]
        BY <3>1 DEF Alerts!Written
      <4> QED BY <1>1, <2>1, <3>0, <4>1 DEF Alerts!SrvType
    <3>2. CASE t.stage = "hide"
      <4>1. Alerts!Written(t.stage, i)
              = [srv EXCEPT !.hidden = @ \cup ({i} \ MyAlerts)]
        BY <3>2 DEF Alerts!Written
      <4>2. i \in Alerts!Items
        BY <1>1, <3>2 DEF AlertsTasks
      <4> QED BY <1>1, <2>1, <3>0, <4>1, <4>2 DEF Alerts!SrvType
    <3>3. CASE t.stage = "unhide"
      <4>1. Alerts!Written(t.stage, i) = [srv EXCEPT !.hidden = @ \ {i}]
        BY <3>3 DEF Alerts!Written
      <4> QED BY <1>1, <2>1, <3>0, <4>1 DEF Alerts!SrvType
    <3>4. CASE t.stage \in {"silence", "import"}
      <4>1. Alerts!Written(t.stage, i) = [srv EXCEPT !.there = @ \cup {i}]
        BY <3>4 DEF Alerts!Written
      <4>2. i \in Alerts!Items
        BY <1>1, <3>4 DEF AlertsTasks
      <4> QED BY <1>1, <2>1, <3>0, <4>1, <4>2 DEF Alerts!SrvType
    <3>5. CASE t.stage \in {"none", "test", "preview"}
      <4>1. Alerts!Written(t.stage, i) = srv
        BY <3>5 DEF Alerts!Written
      <4> QED BY <1>1, <2>1, <4>1
    <3>6. t.stage \in {"none", "delete", "hide", "unhide", "test", "silence",
                       "preview", "import"}
      BY <1>1, <2>2 DEF AlertsTasks
    <3> QED BY <3>1, <3>2, <3>3, <3>4, <3>5, <3>6
  <2>5. t.stage \in {"test", "preview"} => srv' = srv
    BY <2>1 DEF Alerts!Written
  <2> HIDE DEF x
  <2>6. ~AlertsLoading(x) /\ ~AlertsNewest(x, ui) /\ ~AlertsNewest(t, ui)
    BY <2>2 DEF AlertsNewest, AlertsLoading
  <2>7. CASE t.stage \in {"test", "preview"} /\ st = "ok"
    <3>1. ~AlertsChanging(t) /\ AlertsAlike(ui')
      BY <1>1, <2>7 DEF AlertsChanging, AlertsAlike
    <3> QED BY <1>1, <2>2, <2>3, <2>4, <2>5, <2>6, <2>7, <3>1, AlertsPuts
  <2>8. CASE ~(t.stage \in {"test", "preview"} /\ st = "ok")
    <3>1. AlertsChanging(x)
      BY <2>2, <2>8 DEF AlertsChanging
    <3> QED BY <1>1, <2>2, <2>3, <2>4, <2>6, <3>1, AlertsPuts
  <2> QED BY <2>7, <2>8
<1>3. CASE Alerts!ServeLoad(n)
  <2> DEFINE f == t.arg.filters
             ans == [rules |-> Alerts!RulesFor(f),
                     silences |-> Alerts!SilencesFor(f), hidden |-> srv.hidden]
  <2>1. PICK st \in {"ok", "partly", "failed"} :
          net' = [net EXCEPT ![n] = [t EXCEPT !.st = st, !.ans = ans]]
    BY <1>3 DEF Alerts!ServeLoad, Alerts!Reply
  <2> DEFINE x == [t EXCEPT !.st = st, !.ans = ans]
  <2>2. ans \in AlertsAnswers /\ ans.rules = Alerts!RulesFor(f)
        /\ ans.silences = Alerts!SilencesFor(f)
    BY <1>1 DEF AlertsAnswers, Alerts!RulesFor, Alerts!SilencesFor,
       Alerts!SrvType
  <2> HIDE DEF ans
  <2>3. /\ x \in AlertsTasks /\ x.stage = "load" /\ t.stage = "load"
        /\ x.st = st /\ x.arg = t.arg /\ x.ans = ans
    BY <1>1, <1>3, <2>2 DEF AlertsTasks, Alerts!ServeLoad
  <2>4. net' = [net EXCEPT ![n] = x]
    BY <2>1
  <2> HIDE DEF x
  <2>5. /\ AlertsFresh(x) /\ AlertsLoading(t) /\ AlertsLoading(x)
        /\ ~AlertsChanging(t) /\ AlertsAlike(ui')
        /\ srv' = srv
    BY <1>1, <1>3, <2>2, <2>3 DEF AlertsFresh, AlertsLoading, AlertsChanging,
       AlertsAlike, Alerts!ServeLoad
  <2>6. srv' \in Alerts!SrvType /\ x.arg.request <= ui'.request
    BY <1>1, <2>3, <2>5
  <2> QED BY <1>1, <2>3, <2>4, <2>5, <2>6, AlertsPuts
<1> QED BY <1>2, <1>3 DEF Alerts!ServeSlot

(***************************************************************************)
(* The answers.                                                            *)
(***************************************************************************)
LEMMA AlertsNoted ==
  ASSUME NEW u, AlertsShown(u), NEW t
  PROVE  LET v == Alerts!Noted(u, t)
         IN  /\ AlertsShown(v) /\ v.rules = u.rules /\ v.silences = u.silences
             /\ v.of = u.of /\ v.request = u.request
             /\ IF t.st = "ok" THEN v.failed = u.failed ELSE v.failed
<1> DEFINE failed == u.failed \/ t.st # "ok"
           v == [u EXCEPT !.failed = failed]
<1>1. /\ failed \in BOOLEAN
      /\ IF t.st = "ok" THEN failed = u.failed ELSE failed
  BY DEF AlertsShown, Alerts!UiType
<1>2. Alerts!Noted(u, t) = v
  BY Zenon DEF Alerts!Noted
<1> HIDE DEF failed
<1>3. /\ v \in Alerts!UiType /\ v.rules = u.rules /\ v.silences = u.silences
      /\ v.of = u.of /\ v.request = u.request /\ v.failed = failed
      /\ v.order = u.order /\ v.asked = u.asked /\ v.target = u.target
  BY <1>1 DEF AlertsShown, Alerts!UiType
<1> HIDE DEF v
<1>4. AlertsShown(v)
  BY <1>3 DEF AlertsShown
<1> QED BY <1>1, <1>2, <1>3, <1>4

(* A handler that ends closes its dialog and changes no list.              *)
LEMMA AlertsOver ==
  ASSUME NEW u, AlertsShown(u), NEW t
  PROVE  LET v == Alerts!Over(u, t)
         IN  /\ AlertsShown(v) /\ AlertsSame(u, v) /\ v.request = u.request
<1>1. u \in Alerts!UiType
  BY DEF AlertsShown
<1> DEFINE v == [u EXCEPT !.importing = FALSE]
<1>2. AlertsSame(u, u) /\ AlertsSame(u, v) /\ v.request = u.request
  BY <1>1 DEF AlertsSame, Alerts!UiType
<1>3. AlertsSame(u, Alerts!Closed(u)) /\ Alerts!Closed(u).request = u.request
  BY <1>1 DEF AlertsSame, Alerts!UiType, Alerts!Dialogs, Alerts!Closed
<1>4. Alerts!Over(u, t) \in {u, v, Alerts!Closed(u)}
  BY DEF Alerts!Over
<1> HIDE DEF v
<1> QED BY <1>2, <1>3, <1>4, AlertsSameShown

(* The answer of a write: a message, or the load under a new number.       *)
LEMMA AlertsWritesEnd ==
  ASSUME AlertsInv, NEW n \in Slots, Alerts!DeliverWrite(n)
  PROVE  AlertsInv'
<1> DEFINE t == net[n]
<1>1. /\ t \in AlertsTasks /\ t.st # "sent" /\ t.st # "idle"
      /\ t.arg \in AlertsArgs /\ srv' = srv /\ t.stage # "load"
      /\ AlertsShown(ui) /\ ui \in Alerts!UiType /\ srv' \in Alerts!SrvType
      /\ ui.request \in Nat
  BY DEF AlertsInv, AlertsShown, AlertsTasks, Alerts!DeliverWrite, Alerts!Back,
     Alerts!UiType
<1>2. CASE t.st = "ok" /\ t.stage \notin {"test", "preview"}
  <2> DEFINE arg == [t.arg EXCEPT !.request = ui'.request]
             x == Alerts!Task(t.op, "load", arg)
  <2>1. ui' = Alerts!BeginLoad(ui) /\ net' = [net EXCEPT ![n] = x]
    BY <1>2 DEF Alerts!DeliverWrite, Alerts!Continue
  <2>2. /\ AlertsShown(ui') /\ ui'.request = ui.request + 1
        /\ ui'.request \in Nat /\ ui'.request >= ui.request
    BY <1>1, <2>1, AlertsLoadBegins, AlertsSameShown
  <2>3. arg \in AlertsArgs /\ arg.request = ui'.request
    BY <1>1, <2>2 DEF AlertsArgs
  <2> HIDE DEF arg
  <2>4. /\ x \in AlertsTasks /\ x.st = "sent" /\ x.stage = "load"
        /\ x.arg = arg
    BY <1>1, <2>3 DEF AlertsTasks, Alerts!Task
  <2> HIDE DEF x
  <2>5. AlertsNewest(x, ui') /\ x.arg.request <= ui'.request
    BY <2>2, <2>3, <2>4 DEF AlertsNewest, AlertsLoading
  <2> QED BY <1>1, <2>1, <2>2, <2>4, <2>5, AlertsPuts
<1>3. CASE ~(t.st = "ok" /\ t.stage \notin {"test", "preview"})
  <2> DEFINE over == IF t.op = "silence" THEN ui ELSE Alerts!Over(ui, t)
             tested == over.tested \/ (t.op = "test" /\ t.st = "ok")
             u == [over EXCEPT !.tested = tested]
  <2>1. ui' = Alerts!Noted(u, t) /\ net' = [net EXCEPT ![n] = Alerts!NoTask]
    BY <1>3, Zenon DEF Alerts!DeliverWrite, Alerts!Finish
  <2>2. tested \in BOOLEAN
    OBVIOUS
  <2> HIDE DEF tested
  <2>3. AlertsShown(over) /\ AlertsSame(ui, over) /\ over.request = ui.request
    BY <1>1, AlertsOver DEF AlertsSame
  <2> HIDE DEF over
  <2>4. AlertsSame(over, u) /\ u.request = over.request
    BY <2>2, <2>3 DEF AlertsSame, AlertsShown, Alerts!UiType
  <2> HIDE DEF u
  <2>5. AlertsShown(u) /\ u.rules = ui.rules /\ u.silences = ui.silences
        /\ u.of = ui.of /\ u.request = ui.request /\ u.failed = ui.failed
    BY <2>3, <2>4, AlertsSameShown DEF AlertsSame
  <2>6. /\ AlertsShown(ui') /\ AlertsAlike(ui') /\ ui'.request = ui.request
        /\ IF t.st = "ok" THEN ui'.failed = ui.failed ELSE ui'.failed
    BY <2>1, <2>5, AlertsNoted DEF AlertsAlike
  <2>7. Alerts!NoTask \in AlertsTasks /\ ~AlertsLoading(Alerts!NoTask)
        /\ ~AlertsNewest(Alerts!NoTask, ui) /\ ~AlertsNewest(t, ui)
        /\ ui'.request >= ui.request
    BY <1>1, <2>6, AlertsTaskTypes DEF AlertsLoading, AlertsNewest
  <2>8. t.st = "ok" => ~AlertsChanging(t)
    BY <1>3 DEF AlertsChanging
  <2> QED BY <1>1, <2>1, <2>6, <2>7, <2>8, AlertsPuts
<1> QED BY <1>2, <1>3

(* A load that came is shown, the order of the rules put right for it.     *)
LEMMA AlertsListed ==
  ASSUME Alerts!ConstantsFit, NEW u, AlertsShown(u), NEW t \in AlertsTasks,
         t.stage = "load", t.st \in {"ok", "partly", "failed"}
  PROVE  LET v == Alerts!Listed(u, t)
         IN  /\ AlertsShown(v) /\ v.request = u.request /\ v.failed = u.failed
             /\ t.st = "ok" => /\ v.rules = t.ans.rules
                               /\ v.silences = t.ans.silences
                               /\ v.of = t.arg.filters
<1> DEFINE got == IF t.st = "ok" THEN t.ans.rules ELSE u.rules
           order == Alerts!NormalizedOrder(u.order, got)
           silences == IF t.st = "failed" THEN u.silences ELSE t.ans.silences
           marked == CASE t.st = "ok" -> t.ans.hidden
                       [] t.st = "partly" ->
                            (u.marked \cap Rules)
                              \cup (t.ans.hidden \cap Silences)
                       [] t.st = "failed" -> u.marked
           of == t.arg.filters
           v == [u EXCEPT !.rules = got, !.order = order,
                          !.silences = silences, !.marked = marked,
                          !.of = of, !.loading = FALSE]
<1>1. Alerts!Listed(u, t) = v
  BY DEF Alerts!Listed, AlertsShown, Alerts!UiType
<1>2. u \in Alerts!UiType /\ t.ans \in AlertsAnswers /\ t.arg \in AlertsArgs
  BY DEF AlertsShown, AlertsTasks
<1>3. got \in SUBSET Rules /\ silences \in SUBSET Silences
      /\ marked \in SUBSET Alerts!Items /\ of \in Alerts!Filters
  <2>1. /\ t.ans.rules \in SUBSET Rules /\ t.ans.silences \in SUBSET Silences
        /\ t.ans.hidden \in SUBSET Alerts!Items /\ of \in Alerts!Filters
        /\ u.rules \in SUBSET Rules /\ u.silences \in SUBSET Silences
        /\ u.marked \in SUBSET Alerts!Items
    BY <1>2 DEF AlertsAnswers, AlertsArgs, Alerts!UiType
  <2> QED BY <2>1
<1>4. IsFiniteSet(got) /\ u.order \in Seq(Rules)
  <2>1. IsFiniteSet(Alerts!Items) /\ Rules \in SUBSET Alerts!Items
    BY DEF Alerts!ConstantsFit, Alerts!IsFiniteSet, IsFiniteSet, Alerts!Items
  <2>2. got \in SUBSET Alerts!Items
    BY <1>3, <2>1
  <2> QED BY <1>2, <2>1, <2>2, FS_Subset DEF Alerts!UiType
<1>5. t.st = "ok" => got = t.ans.rules /\ silences = t.ans.silences
  OBVIOUS
<1> HIDE DEF got, silences, marked, of
<1>6. order \in Seq(got) /\ Alerts!Fits(order, got)
  BY <1>4, NormalizedFits, AlertsOrders
<1> HIDE DEF order
<1>7. order \in Seq(Rules)
  BY <1>3, <1>6
<1>8. /\ v \in Alerts!UiType /\ v.rules = got /\ v.order = order
      /\ v.silences = silences /\ v.of = of /\ v.request = u.request
      /\ v.failed = u.failed /\ v.asked = u.asked /\ v.target = u.target
  BY <1>2, <1>3, <1>7 DEF Alerts!UiType
<1> HIDE DEF v
<1>9. AlertsShown(v)
  BY <1>6, <1>8 DEF AlertsShown
<1> QED BY <1>1, <1>5, <1>8, <1>9 DEF of

(* A load ends: the newest one is shown, an older one is dropped.          *)
LEMMA AlertsLoadsEnd ==
  ASSUME Alerts!ConstantsFit, AlertsInv, NEW n \in Slots, Alerts!DeliverLoad(n)
  PROVE  AlertsInv'
<1> DEFINE t == net[n]
           u == IF Alerts!Latest(t) THEN Alerts!Listed(ui, t) ELSE ui
           v == Alerts!Over(u, t)
<1>1. /\ t \in AlertsTasks /\ t.st \in {"ok", "partly", "failed"}
      /\ t.arg \in AlertsArgs /\ srv' = srv /\ t.stage = "load"
      /\ AlertsShown(ui) /\ srv' \in Alerts!SrvType /\ ui.request \in Nat
  BY DEF AlertsInv, AlertsShown, AlertsTasks, Alerts!DeliverLoad, Alerts!Back,
     Alerts!UiType
<1>2. /\ ui' = Alerts!Noted(v, t)
      /\ net' = [net EXCEPT ![n] = Alerts!NoTask]
  BY <1>1 DEF Alerts!DeliverLoad, Alerts!Finish
<1>3. /\ AlertsShown(u) /\ u.request = ui.request /\ u.failed = ui.failed
      /\ IF Alerts!Latest(t)
         THEN t.st = "ok" => /\ u.rules = t.ans.rules
                             /\ u.silences = t.ans.silences
                             /\ u.of = t.arg.filters
         ELSE AlertsAlike(u)
  BY <1>1, AlertsListed DEF AlertsAlike
<1> HIDE DEF u
<1>4. /\ AlertsShown(v) /\ v.request = ui.request /\ v.failed = ui.failed
      /\ v.rules = u.rules /\ v.silences = u.silences /\ v.of = u.of
  BY <1>3, AlertsOver DEF AlertsSame
<1> HIDE DEF v
<1>5. /\ AlertsShown(ui') /\ ui'.request = ui.request
      /\ ui'.rules = u.rules /\ ui'.silences = u.silences /\ ui'.of = u.of
      /\ IF t.st = "ok" THEN ui'.failed = ui.failed ELSE ui'.failed
  BY <1>2, <1>4, AlertsNoted
<1>6. Alerts!NoTask \in AlertsTasks /\ ~AlertsLoading(Alerts!NoTask)
      /\ ~AlertsNewest(Alerts!NoTask, ui) /\ Alerts!NoTask.st = "idle"
      /\ ui'.request >= ui.request
  BY <1>1, <1>5, AlertsTaskTypes DEF AlertsLoading, AlertsNewest
<1>7. CASE t.st # "ok"
  BY <1>1, <1>2, <1>5, <1>6, <1>7, AlertsPuts
<1>8. CASE t.st = "ok" /\ Alerts!Latest(t)
  <2>1. AlertsNewest(t, ui) /\ ~AlertsChanging(t)
    BY <1>1, <1>8 DEF AlertsNewest, AlertsLoading, AlertsChanging, Alerts!Latest
  <2>2. AlertsFresh(t) => AlertsCurrent(ui')
    <3> SUFFICES ASSUME NEW w, w.rules = t.ans.rules,
                        w.silences = t.ans.silences, w.of = t.arg.filters,
                        AlertsFresh(t)
                 PROVE  AlertsCurrent(w)
      BY <1>3, <1>5, <1>8
    <3> QED BY DEF AlertsFresh, AlertsCurrent
  <2> QED BY <1>1, <1>2, <1>5, <1>6, <1>8, <2>1, <2>2, AlertsPuts
<1>9. CASE t.st = "ok" /\ ~Alerts!Latest(t)
  <2>1. ~AlertsNewest(t, ui) /\ ~AlertsChanging(t) /\ AlertsAlike(ui')
    BY <1>1, <1>3, <1>5, <1>9 DEF AlertsNewest, AlertsLoading, AlertsChanging,
       AlertsAlike, Alerts!Latest
  <2> QED BY <1>1, <1>2, <1>5, <1>6, <1>9, <2>1, AlertsPuts
<1> QED BY <1>7, <1>8, <1>9

(***************************************************************************)
(* The page itself.                                                        *)
(***************************************************************************)
LEMMA AlertsInit ==
  Alerts!BoundsFit /\ Alerts!Init => AlertsInv
<1> SUFFICES ASSUME Alerts!BoundsFit, Alerts!Init PROVE AlertsInv
  OBVIOUS
<1> DEFINE t == Alerts!Task("load", "load", Alerts!Load(Alerts!NoFilter, 1))
<1>1. PICK tab \in Alerts!Tabs : ui = [Alerts!Fresh EXCEPT !.tab = tab]
  BY DEF Alerts!Init
<1>2. Alerts!NoFilter \in Alerts!Filters
  BY DEF Alerts!NoFilter, Alerts!Filters
<1>3. /\ ui \in Alerts!UiType /\ ui.order = <<>> /\ ui.rules = {}
      /\ ui.asked = "none" /\ ui.request = 1
  <2> DEFINE order == <<>>
             none == {}
             nothing == None
  <2>1. /\ order \in Seq(Rules) /\ 0 \in 0..MaxStarts /\ 1 \in Nat
        /\ nothing \in Alerts!Items \cup {None} /\ none \in SUBSET Rules
        /\ none \in SUBSET Silences /\ none \in SUBSET Alerts!Items
        /\ "none" \in Alerts!Dialogs /\ "alerts" \in Alerts!Tabs
    BY DEF Alerts!BoundsFit, Alerts!Dialogs, Alerts!Tabs
  <2>2. Alerts!Fresh
          = [tab |-> "alerts", filters |-> Alerts!NoFilter, owner |-> "all",
             rules |-> none, silences |-> none, marked |-> none,
             of |-> Alerts!NoFilter, order |-> order, loading |-> TRUE,
             request |-> 1, dialog |-> "none", asked |-> "none",
             target |-> nothing, importing |-> FALSE, tested |-> FALSE,
             starts |-> 0, failed |-> FALSE]
    BY Zenon DEF Alerts!Fresh
  <2> HIDE DEF order, none, nothing
  <2>3. Alerts!Fresh \in Alerts!UiType
        /\ Alerts!Fresh.order = order /\ Alerts!Fresh.rules = none
        /\ Alerts!Fresh.asked = "none" /\ Alerts!Fresh.request = 1
    BY <1>2, <2>1, <2>2 DEF Alerts!UiType
  <2>4. /\ ui \in Alerts!UiType /\ ui.order = order /\ ui.rules = none
        /\ ui.asked = "none" /\ ui.request = 1
    BY <1>1, <2>3 DEF Alerts!UiType
  <2> QED BY <2>4 DEF order, none
<1>4. Fits(<<>>, {})
  BY DEF Fits, Range, IsInjective
<1>5. AlertsShown(ui)
  BY <1>3, <1>4, AlertsOrders DEF AlertsShown
<1>6. srv \in Alerts!SrvType
  BY DEF Alerts!Init, Alerts!SrvType, Alerts!Items
<1>7. /\ t \in AlertsTasks /\ t.st = "sent" /\ t.stage = "load"
      /\ t.arg.request = 1
  BY <1>2, AlertsTaskTypes DEF Alerts!Task, Alerts!Load
<1>8. /\ net \in [Slots -> AlertsTasks] /\ 1 \in Slots
      /\ \A n \in Slots : net[n] = IF n = 1 THEN t ELSE Alerts!NoTask
  BY <1>7, AlertsTaskTypes DEF Alerts!Init, Alerts!Quiet, Alerts!BoundsFit
<1> HIDE DEF t
<1>9. AlertsNewest(t, ui) /\ ~AlertsLoading(Alerts!NoTask)
  BY <1>3, <1>7, AlertsTaskTypes DEF AlertsNewest, AlertsLoading
<1>10. AlertsNumbered /\ AlertsSure
  BY <1>3, <1>7, <1>8, <1>9 DEF AlertsNumbered, AlertsSure, AlertsNewest
<1> QED BY <1>5, <1>6, <1>8, <1>10 DEF AlertsInv

(* Every step of the page keeps its invariant.                             *)
LEMMA AlertsNext ==
  Alerts!BoundsFit /\ Alerts!ConstantsFit /\ AlertsInv
    /\ [Alerts!Next]_(Alerts!vars) => AlertsInv'
<1> SUFFICES ASSUME Alerts!BoundsFit, Alerts!ConstantsFit, AlertsInv,
                    [Alerts!Next]_(Alerts!vars)
             PROVE  AlertsInv'
  OBVIOUS
<1>1. CASE UNCHANGED Alerts!vars
  BY <1>1, AlertsEdits DEF Alerts!vars, AlertsInv, AlertsAlike
<1>2. CASE Alerts!Clicks
  BY <1>2, AlertsFilters, AlertsPage, AlertsHandlers DEF Alerts!Clicks
<1>3. ASSUME NEW n \in Slots, Alerts!ServeSlot(n) \/ Alerts!DeliverSlot(n)
      PROVE  AlertsInv'
  BY <1>3, AlertsServes, AlertsWritesEnd, AlertsLoadsEnd DEF Alerts!DeliverSlot
<1> QED BY <1>1, <1>2, <1>3 DEF Alerts!Next

(* What the page's invariant says of the properties.                       *)
LEMMA AlertsTells ==
  AlertsInv => /\ Alerts!TypeOK /\ Alerts!OrderFitsRules
               /\ Alerts!SettledListIsCurrent
<1> SUFFICES ASSUME AlertsInv
             PROVE  /\ Alerts!TypeOK /\ Alerts!OrderFitsRules
                    /\ Alerts!SettledListIsCurrent
  OBVIOUS
<1>1. Alerts!TypeOK /\ Alerts!OrderFitsRules
  BY DEF AlertsInv, AlertsShown, Alerts!TypeOK, Alerts!OrderFitsRules
<1>2. ASSUME Alerts!Settled, ~ui.failed PROVE AlertsCurrent(ui)
  <2>1. \A n \in Slots : net[n].st = "idle"
    BY <1>2 DEF Alerts!Settled, Alerts!Free
  <2> QED BY <1>2, <2>1 DEF AlertsInv, AlertsChanging, AlertsSure,
             AlertsNewest, AlertsLoading
<1> QED BY <1>1, <1>2 DEF Alerts!SettledListIsCurrent, AlertsCurrent

-----------------------------------------------------------------------------
(* Incidents: what the settled board shows is current.                     *)

BoardArgs == [id : Incidents \cup {None}, tab : Board!Tabs, hidden : BOOLEAN,
              to : Board!Drafts \cup {None}, request : Nat]
BoardCards == [Incidents -> Board!Rows \cup {None}]
BoardTasks ==
  {t \in [op : {"none", "load", "drop", "hide", "choose", "save", "note"},
          stage : {"none", "load", "check", "update", "note"},
          st : {"idle", "sent", "ok", "failed"},
          arg : BoardArgs \cup {None},
          ans : BoardCards \cup Board!Rows \cup BOOLEAN \cup {None}] :
     /\ t.st # "idle" => t.arg \in BoardArgs /\ t.stage # "none"
     /\ t.st # "idle" /\ t.stage # "load" =>
          t.arg.id \in Incidents /\ t.arg.to \in Board!Drafts
     /\ t.st \in {"ok", "failed"} /\ t.stage = "load" => t.ans \in BoardCards
     /\ t.st = "ok" /\ t.stage = "note" => t.ans \in Board!Rows}

(* A handler that will load anew, or tell that it failed: from then on the *)
(* board need not be current.                                              *)
BoardChanging(t) ==
  /\ t.st # "idle"
  /\ t.stage = "update" \/ (t.st = "failed" /\ t.stage = "load")
(* The load whose answer would be shown.                                   *)
BoardLoading(t) == t.st # "idle" /\ t.stage = "load"
BoardNewest(t, u) == BoardLoading(t) /\ t.arg.request = u.request
(* What cards show is what the service keeps, of the tab they are shown on.*)
BoardCurrent(cards, tab) ==
  \A i \in Incidents : cards[i] # None => /\ cards[i] = srv.row[i]
                                          /\ IncidentVisibility[i] = tab
(* The same of the board, but for the cards a note has put back.           *)
BoardShown(u) ==
  \A i \in Incidents :
    u.shown[i] # None => /\ u.shown[i] = srv.row[i] \/ i \in u.overtaken
                         /\ IncidentVisibility[i] = u.of

(* No load has a number that was not given, and while none is to come that *)
(* shows a change, the newest load or the board itself is current.         *)
BoardNumbered ==
  \A n \in Slots : BoardLoading(net[n]) => net[n].arg.request <= ui.request
BoardSure ==
  /\ \A n \in Slots : BoardNewest(net[n], ui) /\ net[n].st = "ok" =>
                        BoardCurrent(net[n].ans, net[n].arg.tab)
  /\ (\E n \in Slots : BoardNewest(net[n], ui)) \/ BoardShown(ui)
BoardInv == /\ ui \in Board!UiType /\ srv \in Board!SrvType
            /\ net \in [Slots -> BoardTasks]
            /\ BoardNumbered
            /\ \/ ui.failed
               \/ \E n \in Slots : BoardChanging(net[n])
               \/ BoardSure

(* Whether cards are current depends on the rows of the service alone.     *)
LEMMA BoardListings ==
  ASSUME srv'.row = srv.row, NEW cards, NEW tab
  PROVE  BoardCurrent(cards, tab)' <=> BoardCurrent(cards, tab)
  BY DEF BoardCurrent

(* And so it is of the board.                                              *)
LEMMA BoardShowings ==
  ASSUME srv'.row = srv.row
  PROVE  BoardShown(ui)' <=> BoardShown(ui')
<1> SUFFICES ASSUME NEW u, u = ui' PROVE BoardShown(ui)' <=> BoardShown(u)
  OBVIOUS
<1> QED BY DEF BoardShown

(***************************************************************************)
(* A slot put to another use.  Nothing is claimed after a failure, and     *)
(* before a change is loaded; else a newer load begins, a load comes by    *)
(* its answer, the newest one is shown, or neither loads nor board change. *)
(***************************************************************************)
BoardAlike(u) == /\ u.shown = ui.shown /\ u.of = ui.of
                 /\ u.overtaken = ui.overtaken
(* Which uses of a slot keep the invariant.                                *)
LEMMA BoardPuts ==
  ASSUME BoardInv, ui' \in Board!UiType, srv' \in Board!SrvType,
         NEW n \in Slots, NEW t \in BoardTasks, net' = [net EXCEPT ![n] = t],
         ui'.request >= ui.request,
         BoardLoading(t) => t.arg.request <= ui'.request,
         \/ ui'.failed
         \/ BoardChanging(t)
         \/ /\ ui'.request = ui.request + 1
            /\ BoardNewest(t, ui') /\ t.st = "sent"
         \/ /\ srv'.row = srv.row /\ ~BoardChanging(net[n])
            /\ ui'.request = ui.request
            /\ ui.failed => ui'.failed
            /\ \/ /\ BoardAlike(ui') /\ ~BoardNewest(net[n], ui)
                  /\ ~BoardNewest(t, ui)
               \/ /\ BoardShown(ui) => BoardShown(ui')
                  /\ ~BoardNewest(net[n], ui) /\ ~BoardNewest(t, ui)
               \/ /\ BoardAlike(ui') /\ BoardLoading(net[n])
                  /\ BoardLoading(t) /\ t.arg = net[n].arg
                  /\ BoardCurrent(t.ans, t.arg.tab)
               \/ /\ BoardNewest(net[n], ui) /\ net[n].st = "ok"
                  /\ t.st = "idle"
                  /\ ui'.shown = net[n].ans /\ ui'.of = net[n].arg.tab
  PROVE  BoardInv'
<1>1. net' \in [Slots -> BoardTasks] /\ ui.request \in Nat /\ ui'.request \in Nat
  BY DEF BoardInv, Board!UiType
<1>2. \A m \in Slots : net'[m] = IF m = n THEN t ELSE net[m]
  BY DEF BoardInv
<1>3. \A m \in Slots : BoardLoading(net[m]) => /\ net[m].arg.request \in Nat
                                               /\ net[m].arg.request <= ui.request
  BY DEF BoardInv, BoardNumbered, BoardLoading, BoardTasks, BoardArgs
<1>4. \A m \in Slots : BoardLoading(net'[m]) => net'[m].arg.request <= ui'.request
  BY <1>1, <1>2, <1>3
<1>5. \/ ui'.failed
      \/ \E m \in Slots : BoardChanging(net'[m])
      \/ /\ \A m \in Slots : BoardNewest(net'[m], ui') /\ net'[m].st = "ok" =>
                               BoardCurrent(net[m].ans, net[m].arg.tab)'
         /\ \/ \E m \in Slots : BoardNewest(net'[m], ui')
            \/ BoardShown(ui)'
  <2>1. CASE ui'.failed
    BY <2>1
  <2>2. CASE BoardChanging(t)
    BY <1>2, <2>2
  <2>3. CASE /\ ui'.request = ui.request + 1
             /\ BoardNewest(t, ui') /\ t.st = "sent"
    <3>1. \A m \in Slots : m # n => ~BoardNewest(net'[m], ui')
      BY <1>1, <1>2, <1>3, <2>3 DEF BoardNewest
    <3> QED BY <1>2, <2>3, <3>1
  <2>4. CASE /\ srv'.row = srv.row /\ ~BoardChanging(net[n])
             /\ ui'.request = ui.request /\ (ui.failed => ui'.failed)
    <3>0. \A x : BoardNewest(x, ui') <=> BoardNewest(x, ui)
      BY <2>4 DEF BoardNewest
    <3>1. \A m \in Slots : BoardCurrent(net[m].ans, net[m].arg.tab)'
             <=> IF m = n THEN BoardCurrent(t.ans, t.arg.tab)
                 ELSE BoardCurrent(net[m].ans, net[m].arg.tab)
      <4>1. ASSUME NEW m \in Slots, NEW x, net'[m] = x
            PROVE  BoardCurrent(net[m].ans, net[m].arg.tab)'
                     <=> BoardCurrent(x.ans, x.arg.tab)
        <5>1. BoardCurrent(x.ans, x.arg.tab)' <=> BoardCurrent(x.ans, x.arg.tab)
          BY <2>4, BoardListings
        <5> QED BY <4>1, <5>1 DEF BoardCurrent
      <4> QED BY <1>2, <4>1
    <3>2. BoardShown(ui)' <=> BoardShown(ui')
      BY <2>4, BoardShowings
    <3>3. CASE \E m \in Slots : BoardChanging(net[m])
      BY <1>2, <2>4, <3>3
    <3>4. CASE ui.failed
      BY <2>4, <3>4
    <3>5. CASE BoardSure
      <4>1. \A m \in Slots : BoardNewest(net[m], ui) /\ net[m].st = "ok" =>
                               BoardCurrent(net[m].ans, net[m].arg.tab)
        BY <3>5 DEF BoardSure
      <4>2. \/ \E m \in Slots : BoardNewest(net[m], ui)
            \/ BoardShown(ui)
        BY <3>5 DEF BoardSure
      <4>3. BoardAlike(ui') => (BoardShown(ui) => BoardShown(ui'))
        BY DEF BoardAlike, BoardShown
      <4>4. CASE /\ BoardAlike(ui') \/ (BoardShown(ui) => BoardShown(ui'))
                 /\ ~BoardNewest(net[n], ui) /\ ~BoardNewest(t, ui)
        BY <1>2, <3>0, <3>1, <3>2, <4>1, <4>2, <4>3, <4>4
      <4>5. CASE /\ BoardAlike(ui') /\ BoardLoading(net[n]) /\ BoardLoading(t)
                 /\ t.arg = net[n].arg /\ BoardCurrent(t.ans, t.arg.tab)
        <5>1. BoardNewest(t, ui) <=> BoardNewest(net[n], ui)
          BY <4>5 DEF BoardNewest
        <5> QED BY <1>2, <3>0, <3>1, <3>2, <4>1, <4>2, <4>3, <4>5, <5>1
      <4>6. CASE /\ BoardNewest(net[n], ui) /\ net[n].st = "ok"
                 /\ t.st = "idle"
                 /\ ui'.shown = net[n].ans /\ ui'.of = net[n].arg.tab
        <5>1. ~BoardNewest(t, ui) /\ BoardShown(ui')
          BY <4>1, <4>6 DEF BoardNewest, BoardLoading, BoardCurrent, BoardShown
        <5> QED BY <1>2, <3>0, <3>1, <3>2, <4>1, <5>1
      <4> QED BY <2>1, <2>2, <2>3, <4>4, <4>5, <4>6
    <3> QED BY <3>3, <3>4, <3>5 DEF BoardInv
  <2> QED BY <2>1, <2>2, <2>3, <2>4
<1> QED BY <1>1, <1>4, <1>5 DEF BoardInv, BoardNumbered,
        BoardSure, BoardNewest, BoardLoading, BoardChanging

(* A click that begins no handler leaves what the board shows as it is.    *)
LEMMA BoardEdits ==
  ASSUME BoardInv, ui' \in Board!UiType, srv' \in Board!SrvType,
         srv'.row = srv.row, net' = net, BoardAlike(ui'),
         ui'.request = ui.request, ui'.failed = ui.failed
  PROVE  BoardInv'
<1>1. BoardSure => BoardSure'
  <2>1. \A n : BoardNewest(net[n], ui)' <=> BoardNewest(net[n], ui)
    BY DEF BoardNewest, BoardLoading
  <2>2. \A n : BoardCurrent(net[n].ans, net[n].arg.tab)'
                 <=> BoardCurrent(net[n].ans, net[n].arg.tab)
    BY DEF BoardCurrent
  <2>3. BoardShown(ui) => BoardShown(ui)'
    BY DEF BoardShown, BoardAlike
  <2> QED BY <2>1, <2>2, <2>3 DEF BoardSure
<1>2. BoardNumbered'
  BY DEF BoardInv, BoardNumbered, BoardLoading
<1> QED BY <1>1, <1>2 DEF BoardInv, BoardChanging

(***************************************************************************)
(* A handler begins.                                                       *)
(***************************************************************************)
LEMMA BoardStarts ==
  ASSUME Board!BoundsFit, BoardInv, NEW u \in Board!UiType, BoardAlike(u),
         u.starts = ui.starts, u.failed = ui.failed,
         NEW op, NEW stage \in {"load", "check", "update", "note"}, NEW arg,
         Board!Task(op, stage, arg) \in BoardTasks,
         Board!Start(u, op, stage, arg),
         IF stage = "load" THEN /\ u.request = ui.request + 1
                                /\ arg.request = u.request
                           ELSE u.request = ui.request
  PROVE  BoardInv'
<1> DEFINE t == Board!Task(op, stage, arg)
           n == Board!FirstFree
           v == [u EXCEPT !.starts = @ + 1]
<1>1. Shares!BoundsFit
  BY DEF Board!BoundsFit, Shares!BoundsFit, Board!IsFiniteSet, Shares!IsFiniteSet
<1>2. n \in Slots /\ net[n].st = "idle" /\ net' = [net EXCEPT ![n] = t]
  BY <1>1, FirstFreeIsFree DEF Board!Start, Board!Begin
<1>3. ui' = v /\ srv' = srv /\ ui.starts < MaxStarts
  BY DEF Board!Start
<1>4. /\ v \in Board!UiType /\ v.failed = u.failed
      /\ v.shown = u.shown /\ v.of = u.of /\ v.overtaken = u.overtaken
      /\ v.request = u.request
  BY <1>3 DEF Board!UiType, Board!BoundsFit
<1> HIDE DEF v
<1>5. ui' \in Board!UiType /\ BoardAlike(ui') /\ ui'.failed = ui.failed
  BY <1>3, <1>4 DEF BoardAlike
<1>6. /\ t \in BoardTasks /\ t.st = "sent" /\ t.stage = stage /\ t.arg = arg
  BY DEF Board!Task
<1>7. srv' \in Board!SrvType /\ ui.request \in Nat /\ srv'.row = srv.row
  BY <1>3 DEF BoardInv, Board!UiType
<1>8. ~BoardChanging(net[n]) /\ ~BoardNewest(net[n], ui)
  BY <1>2 DEF BoardChanging, BoardNewest, BoardLoading
<1> HIDE DEF t, n
<1>9. CASE stage = "load"
  <2>1. ui'.request = ui.request + 1 /\ BoardNewest(t, ui')
    BY <1>3, <1>4, <1>6, <1>9 DEF BoardNewest, BoardLoading
  <2>2. /\ ui'.request >= ui.request
        /\ BoardLoading(t) => t.arg.request <= ui'.request
    BY <1>7, <2>1 DEF BoardNewest
  <2> QED BY <1>2, <1>5, <1>6, <1>7, <2>1, <2>2, BoardPuts
<1>10. CASE stage \in {"check", "note"}
  <2>1. ~BoardLoading(t) /\ ~BoardNewest(t, ui) /\ ui'.request = ui.request
    BY <1>3, <1>4, <1>6, <1>10 DEF BoardNewest, BoardLoading
  <2>2. ui'.request >= ui.request
    BY <1>7, <2>1
  <2> QED BY <1>2, <1>3, <1>5, <1>6, <1>7, <1>8, <2>1, <2>2, BoardPuts
<1>11. CASE stage = "update"
  <2>1. ~BoardLoading(t) /\ BoardChanging(t) /\ ui'.request = ui.request
    BY <1>3, <1>4, <1>6, <1>11 DEF BoardChanging, BoardLoading
  <2>2. ui'.request >= ui.request
    BY <1>7, <2>1
  <2> QED BY <1>2, <1>5, <1>6, <1>7, <2>1, <2>2, BoardPuts
<1> QED BY <1>9, <1>10, <1>11

(* What a load asks for, and what the requests of handlers are about.      *)
LEMMA BoardTaskTypes ==
  /\ Board!NoTask \in BoardTasks /\ Board!NoTask.st = "idle"
  /\ \A tab \in Board!Tabs, hidden \in BOOLEAN, n \in Nat :
       Board!Task("load", "load", Board!Load(tab, hidden, n)) \in BoardTasks
  /\ \A arg \in BoardArgs :
       arg.id \in Incidents /\ arg.to \in Board!Drafts =>
         \A stage \in {"check", "update", "note"} :
           /\ Board!Task("drop", stage, arg) \in BoardTasks
           /\ Board!Task("hide", stage, arg) \in BoardTasks
           /\ Board!Task("choose", stage, arg) \in BoardTasks
           /\ Board!Task("save", stage, arg) \in BoardTasks
           /\ Board!Task("note", stage, arg) \in BoardTasks
  BY DEF BoardTasks, BoardArgs, Board!NoTask, Board!Task, Board!Load

(* A load begins under the next number.                                    *)
LEMMA BoardLoadBegins ==
  ASSUME NEW u \in Board!UiType
  PROVE  LET v == Board!BeginLoad(u)
         IN  /\ v \in Board!UiType /\ v.shown = u.shown /\ v.of = u.of
             /\ v.overtaken = u.overtaken
             /\ v.request = u.request + 1 /\ v.tab = u.tab
             /\ v.showHidden = u.showHidden
             /\ v.failed = u.failed /\ v.starts = u.starts
<1> DEFINE next == u.request + 1
           v == [u EXCEPT !.request = next, !.loading = TRUE, !.error = FALSE]
<1>1. next \in Nat /\ Board!BeginLoad(u) = v
  BY DEF Board!BeginLoad, Board!UiType
<1> HIDE DEF next
<1>2. /\ v \in Board!UiType /\ v.shown = u.shown /\ v.of = u.of
      /\ v.overtaken = u.overtaken /\ v.request = next /\ v.tab = u.tab /\ v.showHidden = u.showHidden
      /\ v.failed = u.failed /\ v.starts = u.starts
  BY <1>1 DEF Board!UiType
<1> HIDE DEF v
<1> QED BY <1>1, <1>2 DEF next

(* A draft or a row stays one under an edit.                               *)
LEMMA BoardPatching ==
  ASSUME NEW p \in Board!Drafts
  PROVE  /\ \A r \in Board!Rows : Board!Patched(r, p) \in Board!Rows
         /\ \A d \in Board!Drafts : Board!Patched(d, p) \in Board!Drafts
<1>1. ASSUME NEW r \in Board!Rows PROVE Board!Patched(r, p) \in Board!Rows
  BY DEF Board!Patched, Board!Rows, Board!Drafts
<1>2. ASSUME NEW d \in Board!Drafts PROVE Board!Patched(d, p) \in Board!Drafts
  BY DEF Board!Patched, Board!Drafts
<1> QED BY <1>1, <1>2

(* The dialog opens on a row, and the board stays as it was.               *)
LEMMA BoardOpens ==
  ASSUME ui \in Board!UiType, NEW i \in Incidents, NEW r \in Board!Rows
  PROVE  LET v == Board!Opened(i, r)
         IN  /\ v \in Board!UiType /\ v.shown = ui.shown /\ v.of = ui.of
             /\ v.overtaken = ui.overtaken /\ v.request = ui.request
             /\ v.failed = ui.failed
<1> DEFINE draft == [ui.draft EXCEPT ![i] = r]
           v == [ui EXCEPT !.modal = i, !.row = r, !.draft = draft]
<1>1. Board!Opened(i, r) = v
  BY DEF Board!Opened, Board!UiType
<1>2. r \in Board!Drafts
  BY DEF Board!Rows, Board!Drafts
<1>3. draft \in [Incidents -> Board!Drafts]
  BY <1>2 DEF Board!UiType
<1> HIDE DEF draft
<1>4. /\ v \in Board!UiType /\ v.shown = ui.shown /\ v.of = ui.of
      /\ v.overtaken = ui.overtaken /\ v.request = ui.request
      /\ v.failed = ui.failed
  BY <1>3 DEF Board!UiType
<1> QED BY <1>1, <1>4

(* The same when it closes.                                                *)
LEMMA BoardCloses ==
  ASSUME NEW u \in Board!UiType
  PROVE  LET v == Board!Closed(u)
         IN  /\ v \in Board!UiType /\ v.shown = u.shown /\ v.of = u.of
             /\ v.overtaken = u.overtaken /\ v.request = u.request
             /\ v.failed = u.failed /\ v.draft = u.draft
  BY DEF Board!UiType, Board!Closed

(***************************************************************************)
(* The filters, the dialog and the handlers of the cards.                  *)
(***************************************************************************)
LEMMA BoardFilters ==
  ASSUME Board!BoundsFit, BoardInv,
         Board!ToggleHidden \/ \E tab \in Board!Tabs : Board!SetTab(tab)
  PROVE  BoardInv'
<1>1. ui \in Board!UiType /\ ui.request \in Nat
  BY DEF BoardInv, Board!UiType
<1>2. ASSUME NEW w \in Board!UiType, BoardAlike(w), w.request = ui.request,
             w.failed = ui.failed, w.starts = ui.starts, Board!Filter(w)
      PROVE  BoardInv'
  <2> DEFINE u == Board!BeginLoad(w)
             arg == Board!Load(w.tab, w.showHidden, w.request + 1)
  <2>1. Board!Start(u, "load", "load", arg)
    BY <1>2 DEF Board!Filter
  <2>2. /\ u \in Board!UiType /\ BoardAlike(u) /\ u.request = ui.request + 1
        /\ u.failed = ui.failed /\ u.starts = ui.starts
    BY <1>2, BoardLoadBegins DEF BoardAlike
  <2>3. /\ w.tab \in Board!Tabs /\ w.showHidden \in BOOLEAN
        /\ w.request + 1 \in Nat
    BY <1>1, <1>2 DEF Board!UiType
  <2>4. /\ Board!Task("load", "load", arg) \in BoardTasks
        /\ arg.request = ui.request + 1
    BY <1>2, <2>3, BoardTaskTypes DEF Board!Load
  <2> HIDE DEF u, arg
  <2> QED BY <2>1, <2>2, <2>4, BoardStarts
<1>3. CASE Board!ToggleHidden
  <2> DEFINE hidden == ~ui.showHidden
             w == [ui EXCEPT !.showHidden = hidden]
  <2>1. hidden \in BOOLEAN /\ Board!Filter(w)
    BY <1>3, Zenon DEF Board!ToggleHidden
  <2> HIDE DEF hidden
  <2>2. /\ w \in Board!UiType /\ BoardAlike(w) /\ w.request = ui.request
        /\ w.failed = ui.failed /\ w.starts = ui.starts
    BY <1>1, <2>1 DEF Board!UiType, BoardAlike
  <2> HIDE DEF w
  <2> QED BY <1>2, <2>1, <2>2
<1>4. ASSUME NEW tab \in Board!Tabs, Board!SetTab(tab) PROVE BoardInv'
  <2> DEFINE w == [ui EXCEPT !.tab = tab]
  <2>1. /\ w \in Board!UiType /\ BoardAlike(w) /\ w.request = ui.request
        /\ w.failed = ui.failed /\ w.starts = ui.starts
    BY <1>1 DEF Board!UiType, BoardAlike
  <2>2. Board!Filter(w)
    BY <1>4 DEF Board!SetTab
  <2> HIDE DEF w
  <2> QED BY <1>2, <2>1, <2>2
<1> QED BY <1>3, <1>4

(* The dialog, and the answer to an alert that stops firing.               *)
LEMMA BoardPage ==
  ASSUME BoardInv,
         \/ Board!CloseModal
         \/ \E p \in Board!Edits : Board!EditDraft(p)
         \/ \E i \in Incidents : Board!OpenModal(i) \/ Board!AlertChanges(i)
  PROVE  BoardInv'
<1>1. ui \in Board!UiType /\ srv \in Board!SrvType
  BY DEF BoardInv
<1>2. ASSUME NEW u \in Board!UiType, BoardAlike(u), u.request = ui.request,
             u.failed = ui.failed, ui' = u, srv' = srv, net' = net
      PROVE  BoardInv'
  BY <1>1, <1>2, BoardEdits
<1>3. CASE Board!CloseModal
  <2> DEFINE u == Board!Closed(ui)
  <2>1. u \in Board!UiType /\ BoardAlike(u) /\ u.request = ui.request
        /\ u.failed = ui.failed
    BY <1>1, BoardCloses DEF BoardAlike
  <2> QED BY <1>2, <1>3, <2>1 DEF Board!CloseModal
<1>4. ASSUME NEW p \in Board!Edits, Board!EditDraft(p) PROVE BoardInv'
  <2> DEFINE d == Board!Patched(ui.draft[ui.modal], p)
             u == [ui EXCEPT !.draft = [ui.draft EXCEPT ![ui.modal] = d]]
  <2>1. ui.modal \in Incidents /\ ui.draft \in [Incidents -> Board!Drafts]
    BY <1>1, <1>4 DEF Board!UiType, Board!EditDraft, Board!InModal
  <2>2. p \in Board!Drafts
    BY DEF Board!Edits, Board!Drafts, Board!Same
  <2>3. d \in Board!Drafts
    BY <2>1, <2>2, BoardPatching
  <2>4. ui' = u /\ srv' = srv /\ net' = net
    BY <1>1, <1>4 DEF Board!EditDraft, Board!UiType
  <2> HIDE DEF d
  <2>5. u \in Board!UiType /\ BoardAlike(u) /\ u.request = ui.request
        /\ u.failed = ui.failed
    BY <1>1, <2>1, <2>3 DEF Board!UiType, BoardAlike
  <2> HIDE DEF u
  <2> QED BY <1>2, <2>4, <2>5
<1>5. ASSUME NEW i \in Incidents, Board!OpenModal(i) PROVE BoardInv'
  <2>1. ui.shown[i] \in Board!Rows
    BY <1>1, <1>5 DEF Board!UiType, Board!OpenModal, Board!Card
  <2> DEFINE u == Board!Opened(i, ui.shown[i])
  <2>2. u \in Board!UiType /\ BoardAlike(u) /\ u.request = ui.request
        /\ u.failed = ui.failed
    BY <1>1, <2>1, BoardOpens DEF BoardAlike
  <2> QED BY <1>2, <1>5, <2>2 DEF Board!OpenModal
<1>6. ASSUME NEW i \in Incidents, Board!AlertChanges(i) PROVE BoardInv'
  <2>1. srv' = [srv EXCEPT !.firing[i] = FALSE] /\ ui' = ui /\ net' = net
    BY <1>6 DEF Board!AlertChanges
  <2>2. srv' \in Board!SrvType /\ srv'.row = srv.row
    BY <1>1, <2>1 DEF Board!SrvType
  <2> QED BY <1>1, <2>1, <2>2, BoardEdits DEF BoardAlike
<1> QED BY <1>3, <1>4, <1>5, <1>6

(* What the dialog saves.                                                  *)
LEMMA BoardPayload ==
  ASSUME ui \in Board!UiType, ui.modal # None
  PROVE  Board!Payload \in Board!Drafts
<1> DEFINE d == ui.draft[ui.modal]
           r == Board!Patched(ui.row, d)
<1>1. d \in Board!Drafts /\ ui.row \in Board!Rows
  BY DEF Board!UiType
<1>2. r \in Board!Rows /\ Board!Payload = [r EXCEPT !.assigned = d.assigned]
  BY <1>1, BoardPatching DEF Board!Payload
<1> HIDE DEF d, r
<1> QED BY <1>1, <1>2 DEF Board!Drafts, Board!Rows

(* The handlers of the cards and of the dialog begin.                      *)
LEMMA BoardHandlers ==
  ASSUME Board!BoundsFit, BoardInv,
         \/ Board!ChooseResolved \/ Board!SaveIncident \/ Board!AddNote
         \/ \E i \in Incidents :
              \/ Board!QuickResolve(i) \/ Board!HideIncident(i)
              \/ \E c \in Board!Columns : Board!Drop(i, c)
  PROVE  BoardInv'
<1>1. ui \in Board!UiType
  BY DEF BoardInv
<1>2. \A i \in Incidents, to \in Board!Drafts :
        /\ Board!Change(i, to) \in BoardArgs
        /\ Board!Change(i, to).id = i /\ Board!Change(i, to).to = to
  BY <1>1 DEF Board!Change, BoardArgs, Board!UiType
<1>3. ASSUME NEW u \in Board!UiType, BoardAlike(u), u.request = ui.request,
             u.failed = ui.failed, u.starts = ui.starts,
             NEW op \in {"drop", "hide", "choose", "save", "note"},
             NEW stage \in {"check", "update", "note"}, NEW i \in Incidents,
             NEW to \in Board!Drafts,
             Board!Start(u, op, stage, Board!Change(i, to))
      PROVE  BoardInv'
  <2>1. Board!Task(op, stage, Board!Change(i, to)) \in BoardTasks
    BY <1>2, BoardTaskTypes
  <2> QED BY <1>3, <2>1, BoardStarts
<1>4. ASSUME NEW i \in Incidents
      PROVE  LET u == [ui EXCEPT !.dropping = @ \cup {i}]
             IN  /\ u \in Board!UiType /\ BoardAlike(u)
                 /\ u.request = ui.request /\ u.failed = ui.failed
                 /\ u.starts = ui.starts
  BY <1>1 DEF Board!UiType, BoardAlike
<1>5. /\ BoardAlike(ui) /\ Board!Same \in Board!Drafts
      /\ \A status \in {"open", "resolved"} :
           /\ [Board!Same EXCEPT !.status = status] \in Board!Drafts
           /\ [Board!Same EXCEPT !.assigned = FALSE, !.status = status]
                \in Board!Drafts
      /\ \A hide \in BOOLEAN : [Board!Same EXCEPT !.hide = hide] \in Board!Drafts
  BY DEF BoardAlike, Board!Drafts, Board!Same
<1>6. \A to : Board!Resolving(to) \in {"check", "update"}
  BY DEF Board!Resolving
<1>7. CASE Board!ChooseResolved
  <2>1. ui.modal \in Incidents
    BY <1>1, <1>7 DEF Board!UiType, Board!ChooseResolved, Board!InModal
  <2> QED BY <1>1, <1>3, <1>5, <1>7, <2>1 DEF Board!ChooseResolved
<1>8. CASE Board!SaveIncident
  <2>1. ui.modal \in Incidents /\ Board!Payload \in Board!Drafts
    BY <1>1, <1>8, BoardPayload DEF Board!UiType, Board!SaveIncident,
       Board!InModal
  <2> QED BY <1>1, <1>3, <1>5, <1>6, <1>8, <2>1 DEF Board!SaveIncident
<1>9. ASSUME NEW i \in Incidents, Board!QuickResolve(i) PROVE BoardInv'
  BY <1>3, <1>4, <1>5, <1>9 DEF Board!QuickResolve
<1>10. ASSUME NEW i \in Incidents, Board!HideIncident(i) PROVE BoardInv'
  <2> DEFINE hide == ~ui.shown[i].hide
             u == [ui EXCEPT !.dropping = @ \cup {i}]
  <2>1. /\ hide \in BOOLEAN
        /\ Board!Start(u, "hide", "update",
                       Board!Change(i, [Board!Same EXCEPT !.hide = hide]))
    BY <1>10, Zenon DEF Board!HideIncident
  <2>2. /\ u \in Board!UiType /\ BoardAlike(u) /\ u.request = ui.request
        /\ u.failed = ui.failed /\ u.starts = ui.starts
    BY <1>4
  <2> HIDE DEF hide, u
  <2> QED BY <1>3, <1>5, <2>1, <2>2
<1>11. ASSUME NEW i \in Incidents, NEW c \in Board!Columns, Board!Drop(i, c)
       PROVE  BoardInv'
  <2> DEFINE r == ui.shown[i]
             to == CASE c = "unassigned" ->
                          [Board!Same EXCEPT !.assigned = FALSE,
                                             !.status = "open"]
                     [] c = "assigned" -> [Board!Same EXCEPT !.status = "open"]
                     [] c = "resolved" ->
                          [Board!Same EXCEPT !.status = "resolved"]
             u == [ui EXCEPT !.dropping = @ \cup {i}]
  <2>1. to \in Board!Drafts
    BY <1>5 DEF Board!Columns
  <2>2. r \in Board!Rows
    BY <1>1, <1>11 DEF Board!UiType, Board!Drop, Board!Card
  <2>3. \/ ui' = Board!Opened(i, r) /\ srv' = srv /\ net' = net
        \/ Board!Start(u, "drop", Board!Resolving(to), Board!Change(i, to))
    BY <1>11 DEF Board!Drop
  <2>4. /\ u \in Board!UiType /\ BoardAlike(u) /\ u.request = ui.request
        /\ u.failed = ui.failed /\ u.starts = ui.starts
    BY <1>4
  <2> HIDE DEF to, u
  <2>5. CASE ui' = Board!Opened(i, r) /\ srv' = srv /\ net' = net
    <3> DEFINE v == Board!Opened(i, r)
    <3>1. v \in Board!UiType /\ BoardAlike(v) /\ v.request = ui.request
          /\ v.failed = ui.failed
      BY <1>1, <2>2, BoardOpens DEF BoardAlike
    <3> HIDE DEF v
    <3>2. ui' = v /\ srv' \in Board!SrvType /\ srv'.row = srv.row
      BY <2>5 DEF v, BoardInv
    <3> QED BY <2>5, <3>1, <3>2, BoardEdits
  <2> QED BY <1>3, <1>6, <2>1, <2>3, <2>4, <2>5
<1>12. CASE Board!AddNote
  <2>1. ui.modal \in Incidents
    BY <1>1, <1>12 DEF Board!UiType, Board!AddNote, Board!InModal
  <2> QED BY <1>1, <1>3, <1>5, <1>12, <2>1 DEF Board!AddNote
<1> QED BY <1>7, <1>8, <1>9, <1>10, <1>11, <1>12

(***************************************************************************)
(* The service.                                                            *)
(***************************************************************************)
LEMMA BoardServes ==
  ASSUME Board!ConstantsFit, BoardInv, NEW n \in Slots, Board!ServeSlot(n)
  PROVE  BoardInv'
<1> DEFINE t == net[n]
<1>1. /\ t \in BoardTasks /\ t.st = "sent" /\ t.arg \in BoardArgs /\ ui' = ui
      /\ ui \in Board!UiType /\ srv \in Board!SrvType
      /\ ui' \in Board!UiType
      /\ ui.request \in Nat /\ ui'.request >= ui.request
      /\ BoardLoading(t) => t.arg.request <= ui.request
  BY DEF BoardInv, BoardTasks, BoardNumbered, Board!ServeSlot,
     Board!ServeUpdate, Board!ServeNote, Board!ServeCheck, Board!ServeLoad,
     Board!Waiting, Board!UiType
<1>2. CASE Board!ServeUpdate(n)
  <2>1. PICK st \in {"ok", "failed"} :
          /\ net' = [net EXCEPT ![n] = [t EXCEPT !.st = st, !.ans = None]]
          /\ \/ srv' = [srv EXCEPT !.row[t.arg.id] =
                                     Board!Patched(@, t.arg.to)]
             \/ srv' = srv
    BY <1>2 DEF Board!ServeUpdate, Board!Reply
  <2> DEFINE x == [t EXCEPT !.st = st, !.ans = None]
  <2>2. x \in BoardTasks /\ x.stage = "update" /\ t.stage = "update" /\ x.st = st
    BY <1>1, <1>2 DEF BoardTasks, Board!ServeUpdate
  <2>3. srv' \in Board!SrvType
    <3> DEFINE row == Board!Patched(srv.row[t.arg.id], t.arg.to)
    <3>1. t.arg.id \in Incidents /\ t.arg.to \in Board!Drafts
      BY <1>1, <2>2 DEF BoardTasks
    <3>2. srv.row[t.arg.id] \in Board!Rows
      BY <1>1, <3>1 DEF Board!SrvType
    <3>3. row \in Board!Rows
      BY <3>1, <3>2, BoardPatching
    <3>4. srv' = [srv EXCEPT !.row[t.arg.id] = row] \/ srv' = srv
      BY <2>1
    <3> HIDE DEF row
    <3> QED BY <1>1, <3>1, <3>3, <3>4 DEF Board!SrvType
  <2>4. net' = [net EXCEPT ![n] = x]
    BY <2>1
  <2> HIDE DEF x
  <2>5. BoardChanging(x) /\ ~BoardLoading(x)
    BY <2>2 DEF BoardChanging, BoardLoading
  <2> QED BY <1>1, <2>2, <2>3, <2>4, <2>5, BoardPuts
<1>3. CASE Board!ServeCheck(n)
  <2> DEFINE firing == srv.firing[t.arg.id]
  <2>1. PICK st \in {"ok", "failed"}, ans \in {firing, None} :
          net' = [net EXCEPT ![n] = [t EXCEPT !.st = st, !.ans = ans]]
    BY <1>3 DEF Board!ServeCheck, Board!Reply
  <2> DEFINE x == [t EXCEPT !.st = st, !.ans = ans]
  <2>2. t.stage = "check" /\ t.arg.id \in Incidents
    BY <1>1, <1>3 DEF BoardTasks, Board!ServeCheck
  <2>3. ans \in BOOLEAN \cup {None}
    BY <1>1, <2>2 DEF Board!SrvType
  <2>4. x \in BoardTasks /\ x.stage = "check"
    BY <1>1, <2>2, <2>3 DEF BoardTasks
  <2>5. net' = [net EXCEPT ![n] = x] /\ srv' = srv
    BY <1>3, <2>1 DEF Board!ServeCheck
  <2> HIDE DEF x
  <2>6. /\ ~BoardLoading(x) /\ ~BoardNewest(x, ui) /\ ~BoardNewest(t, ui)
        /\ ~BoardChanging(t) /\ BoardAlike(ui') /\ srv' \in Board!SrvType
        /\ srv'.row = srv.row
    BY <1>1, <2>2, <2>4, <2>5 DEF BoardNewest, BoardLoading, BoardChanging,
       BoardAlike
  <2> QED BY <1>1, <2>4, <2>5, <2>6, BoardPuts
<1>4. CASE Board!ServeLoad(n)
  <2> DEFINE tab == t.arg.tab
             l == Board!Listing(tab, t.arg.hidden)
             part == IF t.arg.hidden THEN Board!WithoutOpen(l)
                                     ELSE Board!Nothing
  <2>1. l \in BoardCards /\ part \in BoardCards /\ BoardCurrent(l, tab)
    BY <1>1 DEF Board!Listing, Board!WithoutOpen, Board!Nothing, BoardCards,
       BoardCurrent, Board!SrvType
  <2> HIDE DEF l, part
  <2>2. PICK st \in {"ok", "failed"}, ans \in {l, part} :
          /\ net' = [net EXCEPT ![n] = [t EXCEPT !.st = st, !.ans = ans]]
          /\ st = "ok" => ans = l
    BY <1>4 DEF Board!ServeLoad, Board!Reply, l, part
  <2> DEFINE x == [t EXCEPT !.st = st, !.ans = ans]
  <2>3. /\ x \in BoardTasks /\ x.stage = "load" /\ t.stage = "load"
        /\ x.st = st /\ x.arg = t.arg /\ x.ans = ans
    BY <1>1, <1>4, <2>1, <2>2 DEF BoardTasks, Board!ServeLoad
  <2>4. net' = [net EXCEPT ![n] = x] /\ srv' = srv
    BY <1>4, <2>2 DEF Board!ServeLoad
  <2> HIDE DEF x
  <2>5. /\ BoardLoading(t) /\ BoardLoading(x) /\ ~BoardChanging(t)
        /\ BoardAlike(ui') /\ srv' \in Board!SrvType /\ srv'.row = srv.row
        /\ x.arg.request <= ui'.request
    BY <1>1, <2>3, <2>4, <2>2 DEF BoardLoading, BoardChanging, BoardAlike
  <2>6. CASE st = "failed"
    <3>1. BoardChanging(x)
      BY <2>3, <2>6 DEF BoardChanging
    <3> QED BY <1>1, <2>3, <2>4, <2>5, <3>1, BoardPuts
  <2>7. CASE st = "ok"
    <3>1. BoardCurrent(x.ans, x.arg.tab)
      BY <2>1, <2>2, <2>3, <2>7
    <3> QED BY <1>1, <2>3, <2>4, <2>5, <3>1, BoardPuts
  <2> QED BY <2>6, <2>7
<1>5. CASE Board!ServeNote(n)
  <2> DEFINE row == srv.row[t.arg.id]
  <2>1. PICK st \in {"ok", "failed"}, ans \in {row, None} :
          /\ net' = [net EXCEPT ![n] = [t EXCEPT !.st = st, !.ans = ans]]
          /\ st = "ok" => ans = row
    BY <1>5 DEF Board!ServeNote, Board!Reply
  <2> DEFINE x == [t EXCEPT !.st = st, !.ans = ans]
  <2>2. t.stage = "note" /\ t.arg.id \in Incidents
    BY <1>1, <1>5 DEF BoardTasks, Board!ServeNote
  <2>3. row \in Board!Rows
    BY <1>1, <2>2 DEF Board!SrvType
  <2> HIDE DEF row
  <2>4. x \in BoardTasks /\ x.stage = "note"
    BY <1>1, <2>1, <2>2, <2>3 DEF BoardTasks
  <2>5. net' = [net EXCEPT ![n] = x] /\ srv' = srv
    BY <1>5, <2>1 DEF Board!ServeNote
  <2> HIDE DEF x
  <2>6. /\ ~BoardLoading(x) /\ ~BoardNewest(x, ui) /\ ~BoardNewest(t, ui)
        /\ ~BoardChanging(t) /\ BoardAlike(ui') /\ srv' \in Board!SrvType
        /\ srv'.row = srv.row
    BY <1>1, <2>2, <2>4, <2>5 DEF BoardNewest, BoardLoading, BoardChanging,
       BoardAlike
  <2> QED BY <1>1, <2>4, <2>5, <2>6, BoardPuts
<1> QED BY <1>2, <1>3, <1>4, <1>5 DEF Board!ServeSlot

(***************************************************************************)
(* The answers.                                                            *)
(***************************************************************************)
LEMMA BoardReleased ==
  ASSUME NEW u \in Board!UiType, NEW t
  PROVE  LET v == Board!Released(u, t)
         IN  /\ v \in Board!UiType /\ v.shown = u.shown /\ v.of = u.of
             /\ v.overtaken = u.overtaken
             /\ v.request = u.request /\ v.failed = u.failed
  BY DEF Board!UiType, Board!Released

(* What a failure leaves for the user to see.                              *)
LEMMA BoardNoted ==
  ASSUME NEW u \in Board!UiType, NEW t
  PROVE  LET v == Board!Noted(u, t)
         IN  /\ v \in Board!UiType /\ v.shown = u.shown /\ v.of = u.of
             /\ v.overtaken = u.overtaken /\ v.request = u.request
             /\ IF t.st = "failed" THEN v.failed ELSE v.failed = u.failed
<1> DEFINE failed == u.failed \/ t.st = "failed"
           v == [u EXCEPT !.failed = failed]
<1>1. /\ failed \in BOOLEAN
      /\ IF t.st = "failed" THEN failed ELSE failed = u.failed
  BY DEF Board!UiType
<1>2. Board!Noted(u, t) = v
  BY Zenon DEF Board!Noted
<1> HIDE DEF failed
<1>3. /\ v \in Board!UiType /\ v.shown = u.shown /\ v.of = u.of
      /\ v.overtaken = u.overtaken /\ v.request = u.request /\ v.failed = failed
  BY <1>1 DEF Board!UiType
<1> QED BY <1>1, <1>2, <1>3

(* A load ends: the newest one is shown, an older one is dropped.          *)
LEMMA BoardLoadsEnd ==
  ASSUME BoardInv, NEW n \in Slots, Board!DeliverLoad(n)
  PROVE  BoardInv'
<1> DEFINE t == net[n]
           newest == t.arg.request = ui.request
           u == IF newest
                THEN [ui EXCEPT !.shown = t.ans, !.of = t.arg.tab,
                                !.loading = FALSE, !.overtaken = {}]
                ELSE ui
           v == Board!Released(u, t)
<1>1. /\ t \in BoardTasks /\ t.st \in {"ok", "failed"} /\ t.stage = "load"
      /\ t.arg \in BoardArgs /\ t.ans \in BoardCards
      /\ ui \in Board!UiType /\ srv' = srv /\ srv' \in Board!SrvType
      /\ ui.request \in Nat
  BY DEF BoardInv, BoardTasks, Board!DeliverLoad, Board!Back, Board!UiType
<1>2. /\ ui' = Board!Noted(v, t)
      /\ net' = [net EXCEPT ![n] = Board!NoTask]
  BY DEF Board!DeliverLoad, Board!Finish
<1>3. /\ u \in Board!UiType /\ u.request = ui.request /\ u.failed = ui.failed
      /\ IF newest THEN u.shown = t.ans /\ u.of = t.arg.tab
                   ELSE BoardAlike(u)
  <2>1. t.arg.tab \in Board!Tabs /\ t.ans \in [Incidents -> Board!Rows \cup {None}]
    BY <1>1 DEF BoardArgs, BoardCards
  <2> QED BY <1>1, <2>1 DEF Board!UiType, BoardAlike
<1> HIDE DEF u
<1>4. /\ v \in Board!UiType /\ v.request = ui.request /\ v.failed = ui.failed
      /\ v.shown = u.shown /\ v.of = u.of /\ v.overtaken = u.overtaken
  BY <1>3, BoardReleased
<1> HIDE DEF v
<1>5. /\ ui' \in Board!UiType /\ ui'.request = ui.request
      /\ ui'.shown = u.shown /\ ui'.of = u.of /\ ui'.overtaken = u.overtaken
      /\ IF t.st = "failed" THEN ui'.failed ELSE ui'.failed = ui.failed
  BY <1>2, <1>4, BoardNoted
<1>6. Board!NoTask \in BoardTasks /\ ~BoardLoading(Board!NoTask)
      /\ ~BoardNewest(Board!NoTask, ui) /\ Board!NoTask.st = "idle"
      /\ ui'.request >= ui.request /\ srv'.row = srv.row
  BY <1>1, <1>5, BoardTaskTypes DEF BoardLoading, BoardNewest
<1>7. CASE t.st = "failed"
  BY <1>1, <1>2, <1>5, <1>6, <1>7, BoardPuts
<1>8. CASE t.st = "ok" /\ newest
  <2>1. BoardNewest(t, ui) /\ ~BoardChanging(t)
    BY <1>1, <1>8 DEF BoardNewest, BoardLoading, BoardChanging
  <2>2. ui'.shown = t.ans /\ ui'.of = t.arg.tab
    BY <1>3, <1>5, <1>8
  <2> QED BY <1>1, <1>2, <1>5, <1>6, <1>8, <2>1, <2>2, BoardPuts
<1>9. CASE t.st = "ok" /\ ~newest
  <2>1. ~BoardNewest(t, ui) /\ ~BoardChanging(t) /\ BoardAlike(ui')
    BY <1>1, <1>3, <1>5, <1>9 DEF BoardNewest, BoardLoading, BoardChanging,
       BoardAlike
  <2> QED BY <1>1, <1>2, <1>5, <1>6, <1>9, <2>1, BoardPuts
<1> QED BY <1>1, <1>7, <1>8, <1>9

(* The alert was looked up: the handler stops, or goes on to its update.   *)
LEMMA BoardChecksEnd ==
  ASSUME BoardInv, NEW n \in Slots, Board!DeliverCheck(n)
  PROVE  BoardInv'
<1> DEFINE t == net[n]
<1>1. /\ t \in BoardTasks /\ t.st \in {"ok", "failed"} /\ t.stage = "check"
      /\ t.arg \in BoardArgs /\ t.arg.id \in Incidents
      /\ t.arg.to \in Board!Drafts
      /\ ui \in Board!UiType /\ srv' = srv /\ srv' \in Board!SrvType
      /\ ui.request \in Nat /\ srv'.row = srv.row
  BY DEF BoardInv, BoardTasks, Board!DeliverCheck, Board!Back, Board!UiType
<1>2. ~BoardNewest(t, ui) /\ ~BoardChanging(t)
  BY <1>1 DEF BoardNewest, BoardLoading, BoardChanging
<1>3. Board!NoTask \in BoardTasks /\ ~BoardLoading(Board!NoTask)
      /\ ~BoardNewest(Board!NoTask, ui)
  BY BoardTaskTypes DEF BoardLoading, BoardNewest
<1>4. ASSUME NEW u \in Board!UiType, BoardAlike(u), u.request = ui.request,
             u.failed = ui.failed, ui' = u, Board!Finish(n)
      PROVE  BoardInv'
  <2>1. net' = [net EXCEPT ![n] = Board!NoTask] /\ ui'.request >= ui.request
    BY <1>1, <1>4 DEF Board!Finish
  <2> QED BY <1>1, <1>2, <1>3, <1>4, <2>1, BoardPuts
<1>5. CASE t.st = "ok" /\ t.ans
  <2> DEFINE v == Board!Released(ui, t)
             u == [v EXCEPT !.error = TRUE]
  <2>1. /\ v \in Board!UiType /\ v.shown = ui.shown /\ v.of = ui.of
        /\ v.overtaken = ui.overtaken
        /\ v.request = ui.request /\ v.failed = ui.failed
    BY <1>1, BoardReleased
  <2>2. ui' = u /\ Board!Finish(n)
    BY <1>5 DEF Board!DeliverCheck
  <2> HIDE DEF v
  <2>3. /\ u \in Board!UiType /\ BoardAlike(u) /\ u.request = ui.request
        /\ u.failed = ui.failed
    BY <2>1 DEF Board!UiType, BoardAlike
  <2> HIDE DEF u
  <2> QED BY <1>4, <2>2, <2>3
<1>6. CASE ~(t.st = "ok" /\ t.ans) /\ t.op = "choose"
  <2> DEFINE i == t.arg.id
             d == [ui.draft[i] EXCEPT !.status = "resolved"]
             draft == [ui.draft EXCEPT ![i] = d]
             u == [ui EXCEPT !.draft = draft]
  <2>1. draft \in [Incidents -> Board!Drafts]
    <3>1. d \in Board!Drafts
      BY <1>1 DEF Board!UiType, Board!Drafts
    <3> HIDE DEF d
    <3> QED BY <1>1, <3>1 DEF Board!UiType
  <2>2. ui' = u /\ Board!Finish(n)
    BY <1>1, <1>6 DEF Board!DeliverCheck, Board!UiType
  <2> HIDE DEF draft
  <2>3. /\ u \in Board!UiType /\ BoardAlike(u) /\ u.request = ui.request
        /\ u.failed = ui.failed
    BY <1>1, <2>1 DEF Board!UiType, BoardAlike
  <2> HIDE DEF u
  <2> QED BY <1>4, <2>2, <2>3
<1>7. CASE ~(t.st = "ok" /\ t.ans) /\ t.op # "choose"
  <2> DEFINE x == Board!Task(t.op, "update", t.arg)
  <2>1. ui' = ui /\ net' = [net EXCEPT ![n] = x]
    BY <1>7 DEF Board!DeliverCheck, Board!Continue
  <2>2. x \in BoardTasks /\ BoardChanging(x) /\ ~BoardLoading(x)
    BY <1>1 DEF BoardTasks, Board!Task, BoardChanging, BoardLoading
  <2> HIDE DEF x
  <2>3. ui' \in Board!UiType /\ ui'.request >= ui.request
    BY <1>1, <2>1
  <2> QED BY <1>1, <2>1, <2>2, <2>3, BoardPuts
<1> QED BY <1>5, <1>6, <1>7

(* The answer of an update: a message, or the load under a new number.     *)
LEMMA BoardUpdatesEnd ==
  ASSUME BoardInv, NEW n \in Slots, Board!DeliverUpdate(n)
  PROVE  BoardInv'
<1> DEFINE t == net[n]
           closed == Board!Closed(ui)
           draft == [ui.draft EXCEPT ![t.arg.id] = Board!Same]
           u == IF t.op = "save" THEN [closed EXCEPT !.draft = draft] ELSE ui
           v == Board!Released(u, t)
<1>1. /\ t \in BoardTasks /\ t.st \in {"ok", "failed"} /\ t.stage = "update"
      /\ t.arg \in BoardArgs /\ t.arg.id \in Incidents
      /\ ui \in Board!UiType /\ srv' = srv /\ srv' \in Board!SrvType
      /\ ui.request \in Nat
  BY DEF BoardInv, BoardTasks, Board!DeliverUpdate, Board!Back, Board!UiType
<1>2. /\ u \in Board!UiType /\ u.request = ui.request
  <2>1. draft \in [Incidents -> Board!Drafts]
    BY <1>1 DEF Board!UiType, Board!Drafts, Board!Same
  <2>2. closed \in Board!UiType /\ closed.request = ui.request
    BY <1>1, BoardCloses
  <2> HIDE DEF draft, closed
  <2> QED BY <1>1, <2>1, <2>2 DEF Board!UiType
<1>3. CASE t.st = "failed"
  <2> DEFINE w == Board!Released(ui, t)
             x == [w EXCEPT !.error = TRUE]
  <2>1. /\ w \in Board!UiType /\ w.request = ui.request
    BY <1>1, BoardReleased
  <2>2. ui' = Board!Noted(x, t) /\ net' = [net EXCEPT ![n] = Board!NoTask]
    BY <1>3 DEF Board!DeliverUpdate, Board!Finish
  <2> HIDE DEF w
  <2>3. x \in Board!UiType /\ x.request = ui.request
    BY <2>1 DEF Board!UiType
  <2> HIDE DEF x
  <2>4. ui' \in Board!UiType /\ ui'.failed /\ ui'.request >= ui.request
    <3> DEFINE noted == Board!Noted(x, t)
    <3>1. /\ noted \in Board!UiType /\ noted.request = x.request
          /\ IF t.st = "failed" THEN noted.failed ELSE noted.failed = x.failed
      BY <2>3, BoardNoted
    <3>2. ui' = noted
      BY <2>2
    <3> HIDE DEF noted
    <3>3. noted.failed /\ noted.request = ui.request
      BY <1>3, <2>3, <3>1
    <3> QED BY <1>1, <3>1, <3>2, <3>3
  <2>5. Board!NoTask \in BoardTasks /\ ~BoardLoading(Board!NoTask)
    BY BoardTaskTypes DEF BoardLoading
  <2> QED BY <1>1, <2>2, <2>4, <2>5, BoardPuts
<1>4. CASE t.st = "ok"
  <2> DEFINE w == IF t.op = "drop" THEN v ELSE u
             arg == [t.arg EXCEPT !.request = ui'.request]
             x == Board!Task(t.op, "load", arg)
  <2>1. ui' = Board!BeginLoad(w) /\ net' = [net EXCEPT ![n] = x]
    <3>1. draft = [closed.draft EXCEPT ![t.arg.id] = Board!Same]
      BY <1>1, BoardCloses
    <3> QED BY <1>4, <3>1 DEF Board!DeliverUpdate, Board!Continue
  <2> HIDE DEF u
  <2>2. w \in Board!UiType /\ w.request = ui.request
    BY <1>2, BoardReleased
  <2> HIDE DEF w
  <2>3. /\ ui' \in Board!UiType /\ ui'.request = ui.request + 1
        /\ ui'.request \in Nat /\ ui'.request >= ui.request
    BY <1>1, <2>1, <2>2, BoardLoadBegins
  <2>4. arg \in BoardArgs /\ arg.request = ui'.request
    BY <1>1, <2>3 DEF BoardArgs
  <2> HIDE DEF arg
  <2>5. /\ x \in BoardTasks /\ x.st = "sent" /\ x.stage = "load"
        /\ x.arg = arg
    BY <1>1, <2>4 DEF BoardTasks, Board!Task
  <2> HIDE DEF x
  <2>6. BoardNewest(x, ui') /\ x.arg.request <= ui'.request
    BY <2>3, <2>4, <2>5 DEF BoardNewest, BoardLoading
  <2> QED BY <1>1, <2>1, <2>3, <2>5, <2>6, BoardPuts
<1> QED BY <1>1, <1>3, <1>4

(* A note came: its row is put in the place of the card's, a row that the  *)
(* service still has, or else one that counts as overtaken.                *)
LEMMA BoardWithRow ==
  ASSUME NEW u \in Board!UiType, NEW i \in Incidents, NEW r \in Board!Rows
  PROVE  LET v == Board!WithRow(u, i, r)
         IN  /\ v \in Board!UiType /\ v.request = u.request
             /\ v.failed = u.failed
             /\ BoardShown(u) => BoardShown(v)
<1> DEFINE over == IF r = srv.row[i] THEN u.overtaken \ {i}
                                     ELSE u.overtaken \cup {i}
           cards == [u.shown EXCEPT ![i] = r]
           w == [u EXCEPT !.shown = cards, !.overtaken = over]
<1>1. Board!WithRow(u, i, r) = IF u.shown[i] = None THEN u ELSE w
  BY DEF Board!WithRow, Board!UiType
<1>2. over \in SUBSET Incidents
      /\ \A j \in Incidents :
           /\ j # i => (j \in over <=> j \in u.overtaken)
           /\ i \in over \/ r = srv.row[i]
  BY DEF Board!UiType
<1>3. cards \in [Incidents -> Board!Rows \cup {None}]
      /\ \A j \in Incidents : cards[j] = IF j = i THEN r ELSE u.shown[j]
  BY DEF Board!UiType
<1> HIDE DEF over, cards
<1>4. /\ w \in Board!UiType /\ w.request = u.request /\ w.failed = u.failed
      /\ w.shown = cards /\ w.overtaken = over /\ w.of = u.of
  BY <1>2, <1>3 DEF Board!UiType
<1> HIDE DEF w
<1>5. ASSUME u.shown[i] # None, BoardShown(u) PROVE BoardShown(w)
  BY <1>2, <1>3, <1>4, <1>5 DEF BoardShown
<1> QED BY <1>1, <1>4, <1>5

(* The answer of a note.                                                   *)
LEMMA BoardNotesEnd ==
  ASSUME BoardInv, NEW n \in Slots, Board!DeliverNote(n)
  PROVE  BoardInv'
<1> DEFINE t == net[n]
<1>1. /\ t \in BoardTasks /\ t.st \in {"ok", "failed"} /\ t.stage = "note"
      /\ t.arg.id \in Incidents
      /\ ui \in Board!UiType /\ srv' = srv /\ srv' \in Board!SrvType
      /\ ui.request \in Nat /\ srv'.row = srv.row
      /\ t.st = "ok" => t.ans \in Board!Rows
  BY DEF BoardInv, BoardTasks, Board!DeliverNote, Board!Back, Board!UiType
<1>2. ~BoardNewest(t, ui) /\ ~BoardChanging(t)
  BY <1>1 DEF BoardNewest, BoardLoading, BoardChanging
<1>3. Board!NoTask \in BoardTasks /\ ~BoardLoading(Board!NoTask)
      /\ ~BoardNewest(Board!NoTask, ui)
      /\ net' = [net EXCEPT ![n] = Board!NoTask]
  BY BoardTaskTypes DEF BoardLoading, BoardNewest, Board!DeliverNote,
     Board!Finish
<1>4. /\ ui' \in Board!UiType /\ ui'.request = ui.request
      /\ ui'.failed = ui.failed
      /\ BoardShown(ui) => BoardShown(ui')
  <2>1. CASE t.st = "ok"
    <3> DEFINE w == Board!WithRow(ui, t.arg.id, t.ans)
               i == t.arg.id
               r == t.ans
               u == [w EXCEPT !.modal = i, !.row = r]
    <3>1. ui' = u
      BY <2>1 DEF Board!DeliverNote
    <3>2. /\ w \in Board!UiType /\ w.request = ui.request
          /\ w.failed = ui.failed /\ (BoardShown(ui) => BoardShown(w))
      BY <1>1, <2>1, BoardWithRow
    <3>3. i \in Incidents /\ r \in Board!Rows
      BY <1>1, <2>1
    <3> HIDE DEF w, i, r
    <3>4. /\ u \in Board!UiType /\ u.request = w.request
          /\ u.failed = w.failed /\ u.shown = w.shown
          /\ u.overtaken = w.overtaken /\ u.of = w.of
      BY <3>2, <3>3 DEF Board!UiType
    <3> HIDE DEF u
    <3>5. BoardShown(w) => BoardShown(u)
      BY <3>4 DEF BoardShown
    <3>6. BoardShown(ui) => BoardShown(u)
      BY <3>2, <3>5
    <3> QED BY <3>1, <3>2, <3>4, <3>6
  <2>2. CASE t.st # "ok"
    BY <1>1, <2>2 DEF Board!DeliverNote
  <2> QED BY <2>1, <2>2
<1>5. ui'.request >= ui.request
  BY <1>1, <1>4
<1> QED BY <1>1, <1>2, <1>3, <1>4, <1>5, BoardPuts

(***************************************************************************)
(* The page itself.                                                        *)
(***************************************************************************)
LEMMA BoardInit ==
  Board!BoundsFit /\ Board!Init => BoardInv
<1> SUFFICES ASSUME Board!BoundsFit, Board!Init PROVE BoardInv
  OBVIOUS
<1>1. PICK tab \in {"public", "private"} : ui = Board!Fresh(tab)
  BY DEF Board!Init
<1> DEFINE t == Board!Task("load", "load", Board!Load(ui.tab, FALSE, 1))
<1>2. ui \in Board!UiType /\ ui.request = 1 /\ ui.tab \in Board!Tabs
  <2> DEFINE none == {}
             nothing == None
  <2>1. /\ Board!Nothing \in [Incidents -> Board!Rows \cup {None}]
        /\ Board!NoDrafts \in [Incidents -> Board!Drafts] /\ 0 \in 0..MaxStarts /\ 1 \in Nat
        /\ nothing \in Incidents \cup {None} /\ none \in SUBSET Incidents
        /\ nothing \in Board!Rows \cup {None} /\ tab \in Board!Tabs
    BY DEF Board!BoundsFit, Board!Nothing, Board!NoDrafts, Board!Same,
       Board!Drafts, Board!Tabs
  <2>2. Board!Fresh(tab)
          = [tab |-> tab, showHidden |-> FALSE, shown |-> Board!Nothing,
             of |-> tab, loading |-> TRUE, error |-> FALSE, request |-> 1,
             dropping |-> none, modal |-> nothing, row |-> nothing,
             draft |-> Board!NoDrafts, overtaken |-> none,
             starts |-> 0, failed |-> FALSE]
    BY Zenon DEF Board!Fresh
  <2> HIDE DEF none, nothing
  <2>3. Board!Fresh(tab) \in Board!UiType /\ Board!Fresh(tab).request = 1
        /\ Board!Fresh(tab).tab = tab
    BY <2>1, <2>2 DEF Board!UiType, nothing
  <2> QED BY <1>1, <2>1, <2>3
<1>3. srv \in Board!SrvType
  BY DEF Board!Init, Board!SrvType
<1>4. /\ t \in BoardTasks /\ t.st = "sent" /\ t.stage = "load"
      /\ t.arg.request = 1
  BY <1>2, BoardTaskTypes DEF Board!Task, Board!Load
<1>5. /\ net \in [Slots -> BoardTasks] /\ 1 \in Slots
      /\ \A n \in Slots : net[n] = IF n = 1 THEN t ELSE Board!NoTask
  BY <1>4, BoardTaskTypes DEF Board!Init, Board!Quiet, Board!BoundsFit
<1> HIDE DEF t
<1>6. BoardNewest(t, ui) /\ ~BoardLoading(Board!NoTask)
  BY <1>2, <1>4, BoardTaskTypes DEF BoardNewest, BoardLoading
<1>7. BoardNumbered /\ BoardSure
  BY <1>2, <1>4, <1>5, <1>6 DEF BoardNumbered, BoardSure, BoardNewest
<1> QED BY <1>2, <1>3, <1>5, <1>7 DEF BoardInv

(* Every step of the board keeps its invariant.                            *)
LEMMA BoardNext ==
  Board!BoundsFit /\ Board!ConstantsFit /\ BoardInv
    /\ [Board!Next]_(Board!vars) => BoardInv'
<1> SUFFICES ASSUME Board!BoundsFit, Board!ConstantsFit, BoardInv,
                    [Board!Next]_(Board!vars)
             PROVE  BoardInv'
  OBVIOUS
<1>1. CASE UNCHANGED Board!vars
  BY <1>1, BoardEdits DEF Board!vars, BoardInv, BoardAlike
<1>2. CASE Board!Clicks
  BY <1>2, BoardFilters, BoardPage, BoardHandlers DEF Board!Clicks
<1>3. ASSUME NEW n \in Slots, Board!ServeSlot(n) \/ Board!DeliverSlot(n)
      PROVE  BoardInv'
  BY <1>3, BoardServes, BoardLoadsEnd, BoardChecksEnd, BoardUpdatesEnd,
     BoardNotesEnd DEF Board!DeliverSlot
<1>4. CASE \E i \in Incidents : Board!AlertChanges(i)
  BY <1>4, BoardPage
<1> QED BY <1>1, <1>2, <1>3, <1>4 DEF Board!Next

(* What the page's invariant says of the properties.                       *)
LEMMA BoardTells ==
  BoardInv => Board!TypeOK /\ Board!SettledBoardIsCurrent
<1> SUFFICES ASSUME BoardInv
             PROVE  Board!TypeOK /\ Board!SettledBoardIsCurrent
  OBVIOUS
<1>1. ASSUME Board!Settled, ~ui.failed PROVE BoardShown(ui)
  <2>1. \A n \in Slots : net[n].st = "idle"
    BY <1>1 DEF Board!Settled, Board!Free
  <2> QED BY <1>1, <2>1 DEF BoardInv, BoardChanging, BoardSure,
             BoardNewest, BoardLoading
<1> QED BY <1>1 DEF Board!SettledBoardIsCurrent, BoardShown, BoardInv,
        Board!TypeOK

-----------------------------------------------------------------------------
(* Grafana: each list has the cards of its load, each once.                *)

GrafanaArgs == [id : Grafana!Items \cup {None}, tab : Grafana!Tabs,
                filters : Grafana!Filters, query : BOOLEAN]
GrafanaLists == UNION {[S -> SUBSET Grafana!Items] : S \in SUBSET Grafana!Tabs}
GrafanaAnswers == {ans \in [lists : GrafanaLists, hidden : SUBSET Grafana!Items] :
                     \A tab \in DOMAIN ans.lists :
                       ans.lists[tab] \subseteq Grafana!Of(tab)}
GrafanaTasks ==
  {t \in [op : {"none", "load", "links", "confirm", "save", "launch", "metrics"},
          stage : {"none", "load", "links", "hide", "unhide", "delete", "save",
                   "launch", "metrics"},
          st : {"idle", "sent", "ok", "failed"},
          arg : GrafanaArgs \cup {None}, ans : GrafanaAnswers \cup {None}] :
     /\ t.st # "idle" => t.arg \in GrafanaArgs
     /\ t.st # "idle" /\ t.stage \in {"links", "save"} =>
          t.arg.id \in Grafana!Items
     /\ t.st # "idle" /\ t.stage = "hide" =>
          t.arg.id \in Grafana!Items \ Owned
     /\ t.st \in {"ok", "failed"} /\ t.stage = "load" =>
          t.ans \in GrafanaAnswers}

(* Each list has the items of its tab that were listed, each once; a       *)
(* question is about an item, and nobody is asked whether to hide what is  *)
(* his own.                                                                *)
GrafanaShown(u) ==
  /\ u \in Grafana!UiType
  /\ \A tab \in Grafana!Tabs : /\ u.rows[tab] \subseteq Grafana!Of(tab)
                               /\ Fits(u.list[tab], u.rows[tab])
  /\ u.asked.op # None =>
       /\ u.asked.id \in Grafana!Items
       /\ u.asked.op = "hide" => u.asked.id \notin Owned
GrafanaInv == /\ GrafanaShown(ui) /\ srv \in Grafana!SrvType
              /\ net \in [Slots -> GrafanaTasks]

(* What loads ask for and answer, and what the other requests are about.   *)
LEMMA GrafanaTaskTypes ==
  /\ Grafana!NoTask \in GrafanaTasks
  /\ \A arg \in GrafanaArgs :
       /\ Grafana!Task("load", "load", arg) \in GrafanaTasks
       /\ Grafana!Task("confirm", "unhide", arg) \in GrafanaTasks
       /\ Grafana!Task("confirm", "delete", arg) \in GrafanaTasks
       /\ Grafana!Task("launch", "launch", arg) \in GrafanaTasks
       /\ Grafana!Task("metrics", "metrics", arg) \in GrafanaTasks
       /\ arg.id \in Grafana!Items =>
            /\ Grafana!Task("links", "links", arg) \in GrafanaTasks
            /\ Grafana!Task("save", "save", arg) \in GrafanaTasks
       /\ arg.id \in Grafana!Items \ Owned =>
            Grafana!Task("confirm", "hide", arg) \in GrafanaTasks
  BY DEF GrafanaTasks, Grafana!NoTask, Grafana!Task

(* The arguments that the handlers of the page capture.                    *)
LEMMA GrafanaArgTypes ==
  /\ Grafana!NoFilter \in Grafana!Filters
  /\ \A tab \in Grafana!Tabs, f \in Grafana!Filters, query \in BOOLEAN :
       Grafana!Load(tab, f, query) \in GrafanaArgs
  /\ \A i \in Grafana!Items \cup {None} :
       /\ [Grafana!NoArg EXCEPT !.id = i] \in GrafanaArgs
       /\ [Grafana!NoArg EXCEPT !.id = i].id = i
       /\ ui \in Grafana!UiType => /\ Grafana!Arg(i) \in GrafanaArgs
                                   /\ Grafana!Arg(i).id = i
<1>1. Grafana!NoFilter \in Grafana!Filters /\ "dashboards" \in Grafana!Tabs
  BY DEF Grafana!NoFilter, Grafana!Filters, Grafana!Tabs
<1> DEFINE nothing == None
<1>2. nothing \in Grafana!Items \cup {None}
  OBVIOUS
<1>3. Grafana!NoArg = [id |-> nothing, tab |-> "dashboards",
                       filters |-> Grafana!NoFilter, query |-> FALSE]
  BY Zenon DEF Grafana!NoArg
<1> HIDE DEF nothing
<1>4. Grafana!NoArg \in GrafanaArgs
  BY <1>1, <1>2, <1>3 DEF GrafanaArgs
<1>5. \A tab \in Grafana!Tabs, f \in Grafana!Filters, query \in BOOLEAN :
        Grafana!Load(tab, f, query) \in GrafanaArgs
  BY <1>4 DEF GrafanaArgs, Grafana!Load
<1>6. ASSUME NEW i \in Grafana!Items \cup {None}
      PROVE  /\ [Grafana!NoArg EXCEPT !.id = i] \in GrafanaArgs
             /\ [Grafana!NoArg EXCEPT !.id = i].id = i
             /\ ui \in Grafana!UiType => /\ Grafana!Arg(i) \in GrafanaArgs
                                         /\ Grafana!Arg(i).id = i
  BY <1>4 DEF GrafanaArgs, Grafana!Arg, Grafana!UiType
<1> QED BY <1>1, <1>5, <1>6

(* The sequences of the page are those of the orders.                      *)
LEMMA GrafanaSequences ==
  \A s : /\ Grafana!Range(s) = Range(s)
         /\ Grafana!IsInjective(s) <=> IsInjective(s)
         /\ \A x : Grafana!Contains(s, x) <=> \E n \in 1..Len(s) : s[n] = x
  BY Zenon DEF Grafana!Range, Range, Grafana!IsInjective, IsInjective,
     Grafana!Contains

(***************************************************************************)
(* Steps by what they do to the handlers.                                  *)
(***************************************************************************)
LEMMA GrafanaPuts ==
  ASSUME GrafanaInv, GrafanaShown(ui'), srv' \in Grafana!SrvType,
         \/ net' = net
         \/ \E n, t : t \in GrafanaTasks /\ net' = [net EXCEPT ![n] = t]
  PROVE  GrafanaInv'
<1>1. net' \in [Slots -> GrafanaTasks]
  BY DEF GrafanaInv
<1> QED BY <1>1 DEF GrafanaInv, GrafanaShown

(* A click that begins no handler.                                         *)
LEMMA GrafanaEdits ==
  ASSUME GrafanaInv, NEW u, GrafanaShown(u), Grafana!Edit(u)
  PROVE  GrafanaInv'
<1>1. ui' = u /\ srv' = srv /\ net' = net
  BY DEF Grafana!Edit
<1> QED BY <1>1, GrafanaPuts DEF GrafanaInv

(* A handler that starts changes none of the lists.                        *)
LEMMA GrafanaStarts ==
  ASSUME Grafana!BoundsFit, GrafanaInv, NEW u, GrafanaShown(u),
         u.starts = ui.starts, NEW op, NEW stage, NEW arg,
         Grafana!Task(op, stage, arg) \in GrafanaTasks,
         Grafana!Start(u, op, stage, arg)
  PROVE  GrafanaInv'
<1> DEFINE v == [u EXCEPT !.starts = @ + 1]
<1>1. /\ ui' = v /\ srv' = srv /\ ui.starts < MaxGrafanaStarts
      /\ \E n : net' = [net EXCEPT ![n] = Grafana!Task(op, stage, arg)]
  BY DEF Grafana!Start, Grafana!Begin
<1>2. /\ v \in Grafana!UiType /\ v.list = u.list /\ v.rows = u.rows
      /\ v.asked = u.asked
  <2> DEFINE starts == u.starts + 1
  <2>1. starts \in 0..MaxGrafanaStarts /\ u \in Grafana!UiType
    BY <1>1 DEF GrafanaShown, Grafana!UiType, Grafana!BoundsFit
  <2>2. v = [u EXCEPT !.starts = starts]
    OBVIOUS
  <2> HIDE DEF starts
  <2> QED BY <2>1, <2>2 DEF Grafana!UiType
<1> HIDE DEF v
<1>3. GrafanaShown(v)
  BY <1>2 DEF GrafanaShown
<1> QED BY <1>1, <1>3, GrafanaPuts DEF GrafanaInv

(* A state of the page that lists the same and asks the same, or nothing.  *)
GrafanaAlike(u, v) ==
  /\ v \in Grafana!UiType /\ v.list = u.list /\ v.rows = u.rows
  /\ v.asked = u.asked \/ v.asked.op = None
  /\ v.starts = u.starts
(* It keeps what the invariant says of the page.                           *)
LEMMA GrafanaAlikeShown ==
  ASSUME NEW u, NEW v, GrafanaShown(u), GrafanaAlike(u, v)
  PROVE  GrafanaShown(v)
  BY DEF GrafanaShown, GrafanaAlike

(* A question is asked, in place of the one before.                        *)
LEMMA GrafanaAsks ==
  ASSUME NEW u, GrafanaShown(u), NEW op \in Grafana!Asking,
         NEW i \in Grafana!Items, op = "hide" => i \notin Owned
  PROVE  /\ GrafanaShown(Grafana!Asked(u, op, i))
         /\ Grafana!Asked(u, op, i).starts = u.starts
<1> DEFINE v == Grafana!Asked(u, op, i)
<1>1. /\ v \in Grafana!UiType /\ v.list = u.list /\ v.rows = u.rows
      /\ v.asked.op = op /\ v.asked.id = i /\ v.starts = u.starts
  BY DEF GrafanaShown, Grafana!UiType, Grafana!Asked
<1> HIDE DEF v
<1>2. GrafanaShown(v)
  BY <1>1 DEF GrafanaShown
<1> QED BY <1>1, <1>2 DEF v

(* What closes a dialog or an answered question changes no list.           *)
LEMMA GrafanaCloses ==
  ASSUME NEW u \in Grafana!UiType
  PROVE  /\ GrafanaAlike(u, u)
         /\ GrafanaAlike(u, Grafana!Unasked(u))
         /\ GrafanaAlike(u, Grafana!Closed(u))
         /\ GrafanaAlike(u, Grafana!BeginLoad(u))
         /\ \A dialog \in Grafana!Dialogs :
              GrafanaAlike(u, [u EXCEPT !.dialog = dialog])
         /\ \A metrics \in [open : Datasources \cup {None}, loading : BOOLEAN] :
              GrafanaAlike(u, [u EXCEPT !.metrics = metrics])
         /\ \A filled \in BOOLEAN :
              GrafanaAlike(u, [u EXCEPT !.filled = filled])
         /\ \A f \in Grafana!Filters :
              GrafanaAlike(u, [u EXCEPT !.filters = f])
         /\ \A query \in [Grafana!Tabs -> BOOLEAN] :
              GrafanaAlike(u, [u EXCEPT !.query = query])
         /\ \A keys \in SUBSET Dashboards :
              GrafanaAlike(u, [u EXCEPT !.keys = keys])
<1>1. GrafanaAlike(u, u)
  BY DEF GrafanaAlike
<1>2. GrafanaAlike(u, Grafana!Unasked(u))
  <2> DEFINE nothing == None
             asked == [op |-> nothing, id |-> nothing]
             v == [u EXCEPT !.asked = asked]
  <2>1. Grafana!Unasked(u) = v
    BY DEF Grafana!Unasked, Grafana!Asked
  <2>2. /\ asked \in [op : Grafana!Asking \cup {None},
                      id : Grafana!Items \cup {None}]
        /\ asked.op = None
    OBVIOUS
  <2> HIDE DEF asked
  <2>3. GrafanaAlike(u, v)
    BY <2>2 DEF GrafanaAlike, Grafana!UiType
  <2> QED BY <2>1, <2>3
<1>3. GrafanaAlike(u, Grafana!Closed(u))
  <2> DEFINE nothing == None
             v == [u EXCEPT !.dialog = "none", !.editing = nothing,
                            !.filled = FALSE]
  <2>1. Grafana!Closed(u) = v /\ nothing \in Grafana!Items \cup {None}
        /\ "none" \in Grafana!Dialogs
    BY DEF Grafana!Closed, Grafana!Dialogs
  <2> HIDE DEF nothing
  <2>2. GrafanaAlike(u, v)
    BY <2>1 DEF GrafanaAlike, Grafana!UiType
  <2> QED BY <2>1, <2>2
<1>4. GrafanaAlike(u, Grafana!BeginLoad(u))
  BY DEF GrafanaAlike, Grafana!UiType, Grafana!BeginLoad
<1>5. ASSUME NEW dialog \in Grafana!Dialogs
      PROVE  GrafanaAlike(u, [u EXCEPT !.dialog = dialog])
  BY DEF GrafanaAlike, Grafana!UiType
<1>6. ASSUME NEW metrics \in [open : Datasources \cup {None}, loading : BOOLEAN]
      PROVE  GrafanaAlike(u, [u EXCEPT !.metrics = metrics])
  BY DEF GrafanaAlike, Grafana!UiType
<1>7. ASSUME NEW filled \in BOOLEAN
      PROVE  GrafanaAlike(u, [u EXCEPT !.filled = filled])
  BY DEF GrafanaAlike, Grafana!UiType
<1>8. ASSUME NEW f \in Grafana!Filters
      PROVE  GrafanaAlike(u, [u EXCEPT !.filters = f])
  BY DEF GrafanaAlike, Grafana!UiType
<1>9. ASSUME NEW query \in [Grafana!Tabs -> BOOLEAN]
      PROVE  GrafanaAlike(u, [u EXCEPT !.query = query])
  BY DEF GrafanaAlike, Grafana!UiType
<1>10. ASSUME NEW keys \in SUBSET Dashboards
       PROVE  GrafanaAlike(u, [u EXCEPT !.keys = keys])
  BY DEF GrafanaAlike, Grafana!UiType
<1> QED BY <1>1, <1>2, <1>3, <1>4, <1>5, <1>6, <1>7, <1>8, <1>9, <1>10

(***************************************************************************)
(* The tabs, the filters, the dialogs and the questions.                   *)
(***************************************************************************)
LEMMA GrafanaCards ==
  ASSUME ui \in Grafana!UiType, NEW i \in Grafana!Items
  PROVE  /\ Grafana!Card(i, "hide") => i \notin Owned
         /\ Grafana!Card(i, "drag") => /\ ui.tab = Grafana!Kind(i)
                                       /\ i \in Range(ui.list[ui.tab])
<1>1. ASSUME Grafana!Card(i, "hide") PROVE i \notin Owned
  <2>1. \A d : /\ "hide" \in Grafana!DashboardButtons(d) => d \notin Owned
               /\ "hide" \in Grafana!DatasourceButtons(d) => d \notin Owned
               /\ "hide" \in Grafana!FolderButtons(d) => d \notin Owned
    BY DEF Grafana!DashboardButtons, Grafana!DatasourceButtons,
       Grafana!FolderButtons
  <2>2. \/ i \in Dashboards /\ "hide" \in Grafana!DashboardButtons(i)
        \/ i \in Datasources /\ "hide" \in Grafana!DatasourceButtons(i)
        \/ i \in Folders /\ "hide" \in Grafana!FolderButtons(i)
    BY <1>1 DEF Grafana!Card, Grafana!Items
  <2> QED BY <2>1, <2>2
<1>2. ASSUME Grafana!Card(i, "drag")
      PROVE  ui.tab = Grafana!Kind(i) /\ i \in Range(ui.list[ui.tab])
  <2>1. /\ ui.tab = Grafana!Kind(i)
        /\ Grafana!Contains(ui.list[Grafana!Kind(i)], i)
    BY <1>2 DEF Grafana!Card, Grafana!InTab
  <2>2. ui.list[ui.tab] \in Seq(Grafana!Items)
    BY DEF Grafana!UiType
  <2> DEFINE s == ui.list[ui.tab]
  <2>3. \E n \in 1..Len(s) : s[n] = i
    BY <2>1, GrafanaSequences
  <2> HIDE DEF s
  <2> QED BY <2>1, <2>2, <2>3 DEF Range, s
<1> QED BY <1>1, <1>2

(* The tabs, the filters and the search.                                   *)
LEMMA GrafanaFilters ==
  ASSUME Grafana!BoundsFit, GrafanaInv,
         \/ Grafana!TypeQuery \/ Grafana!ClearFilters \/ Grafana!Search
         \/ \E tab \in Grafana!Tabs : Grafana!SetTab(tab)
         \/ \E f \in Grafana!Filters : Grafana!SetFilters(f)
  PROVE  GrafanaInv'
<1>1. /\ ui \in Grafana!UiType /\ GrafanaShown(ui)
      /\ ui.tab \in Grafana!Tabs /\ ui.filters \in Grafana!Filters
      /\ ui.query \in [Grafana!Tabs -> BOOLEAN]
  BY DEF GrafanaInv, GrafanaShown, Grafana!UiType
<1>2. ASSUME NEW u, GrafanaAlike(ui, u), Grafana!Edit(u) PROVE GrafanaInv'
  BY <1>1, <1>2, GrafanaAlikeShown, GrafanaEdits
<1>3. ASSUME NEW u, GrafanaAlike(ui, u), NEW tab \in Grafana!Tabs,
             NEW f \in Grafana!Filters, NEW query \in BOOLEAN,
             Grafana!Start(u, "load", "load", Grafana!Load(tab, f, query))
      PROVE  GrafanaInv'
  <2>1. /\ Grafana!Task("load", "load", Grafana!Load(tab, f, query))
             \in GrafanaTasks
        /\ GrafanaShown(u) /\ u.starts = ui.starts
    BY <1>1, <1>3, GrafanaTaskTypes, GrafanaArgTypes, GrafanaAlikeShown
       DEF GrafanaAlike
  <2> QED BY <1>3, <2>1, GrafanaStarts
<1>4. CASE Grafana!TypeQuery
  <2> DEFINE query == [ui.query EXCEPT ![ui.tab] = TRUE]
             u == [ui EXCEPT !.query = query]
  <2>1. query \in [Grafana!Tabs -> BOOLEAN]
    BY <1>1
  <2>2. Grafana!Edit(u)
    BY <1>1, <1>4 DEF Grafana!TypeQuery, Grafana!UiType
  <2> HIDE DEF query
  <2>3. GrafanaAlike(ui, u)
    BY <1>1, <2>1, GrafanaCloses
  <2> HIDE DEF u
  <2> QED BY <1>2, <2>2, <2>3
<1>5. CASE Grafana!ClearFilters
  <2> DEFINE typed == IF ui.tab = "folders" THEN ui.query[ui.tab] ELSE FALSE
             query == [ui.query EXCEPT ![ui.tab] = typed]
             v == [ui EXCEPT !.filters = Grafana!NoFilter]
             u == [v EXCEPT !.query = query]
  <2>1. query \in [Grafana!Tabs -> BOOLEAN]
    BY <1>1
  <2>2. Grafana!Edit(u)
    BY <1>1, <1>5 DEF Grafana!ClearFilters, Grafana!UiType
  <2> HIDE DEF typed, query
  <2>3. GrafanaAlike(ui, v)
    BY <1>1, GrafanaArgTypes, GrafanaCloses
  <2> HIDE DEF v
  <2>4. GrafanaAlike(v, u)
    BY <2>1, <2>3, GrafanaCloses DEF GrafanaAlike
  <2> HIDE DEF u
  <2>5. GrafanaAlike(ui, u)
    BY <2>3, <2>4 DEF GrafanaAlike
  <2> QED BY <1>2, <2>2, <2>5
<1>6. CASE Grafana!Search
  <2>1. ui.query[ui.tab] \in BOOLEAN /\ GrafanaAlike(ui, Grafana!BeginLoad(ui))
    BY <1>1, GrafanaCloses
  <2> QED BY <1>1, <1>3, <1>6, <2>1 DEF Grafana!Search
<1>7. ASSUME NEW tab \in Grafana!Tabs, Grafana!SetTab(tab) PROVE GrafanaInv'
  <2> DEFINE none == {}
             v == [ui EXCEPT !.tab = tab, !.filters = Grafana!NoFilter,
                             !.keys = none]
             u == Grafana!BeginLoad(v)
  <2>1. Grafana!Start(u, "load", "load",
                      Grafana!Load(tab, ui.filters, ui.query[tab]))
    BY <1>7 DEF Grafana!SetTab
  <2>2. none \in SUBSET Dashboards /\ ui.query[tab] \in BOOLEAN
    BY <1>1
  <2> HIDE DEF none
  <2>3. GrafanaAlike(ui, v)
    BY <1>1, <2>2, GrafanaArgTypes DEF GrafanaAlike, Grafana!UiType
  <2> HIDE DEF v
  <2>4. GrafanaAlike(v, u)
    BY <2>3, GrafanaCloses DEF GrafanaAlike
  <2> HIDE DEF u
  <2>5. GrafanaAlike(ui, u)
    BY <2>3, <2>4 DEF GrafanaAlike
  <2> QED BY <1>1, <1>3, <2>1, <2>2, <2>5
<1>8. ASSUME NEW f \in Grafana!Filters, Grafana!SetFilters(f) PROVE GrafanaInv'
  BY <1>1, <1>2, <1>8, GrafanaCloses DEF Grafana!SetFilters
<1> QED BY <1>4, <1>5, <1>6, <1>7, <1>8

(* A card is dragged: the new order is shown at once, and stored if it can.*)
LEMMA GrafanaReorders ==
  ASSUME GrafanaInv, NEW i \in Grafana!Items, NEW j \in Grafana!Items,
         Grafana!Reorder(i, j)
  PROVE  GrafanaInv'
<1> DEFINE order == ui.list[ui.tab]
           next == Grafana!Moved(order, i, j)
           list == [ui.list EXCEPT ![ui.tab] = next]
           stored == [srv.stored EXCEPT ![ui.tab] = next]
           u == [ui EXCEPT !.list = list]
           s == [srv EXCEPT !.stored = stored]
<1>1. /\ ui \in Grafana!UiType /\ srv \in Grafana!SrvType
      /\ ui.tab \in Grafana!Tabs /\ ui.list \in [Grafana!Tabs -> Seq(Grafana!Items)]
      /\ srv.stored \in [Grafana!Tabs -> Seq(Grafana!Items)]
      /\ order \in Seq(Grafana!Items)
      /\ Fits(order, ui.rows[ui.tab])
  BY DEF GrafanaInv, GrafanaShown, Grafana!UiType, Grafana!SrvType
<1>2. i \in Range(order) /\ j \in Range(order)
  BY <1>1, GrafanaCards DEF Grafana!Reorder
<1>3. ui' = u /\ srv' \in {s, srv} /\ net' = net
  BY <1>1 DEF Grafana!Reorder, Grafana!UiType, Grafana!SrvType
<1> HIDE DEF order
<1>4. next \in Seq(Grafana!Items) /\ Fits(next, ui.rows[ui.tab])
  <2>1. IsInjective(order) /\ Range(order) = ui.rows[ui.tab]
    BY <1>1 DEF Fits
  <2> QED BY <1>1, <1>2, <2>1, MovedFits, GrafanaOrders
<1> HIDE DEF next
<1>5. /\ list \in [Grafana!Tabs -> Seq(Grafana!Items)]
      /\ stored \in [Grafana!Tabs -> Seq(Grafana!Items)]
      /\ \A tab \in Grafana!Tabs :
           list[tab] = IF tab = ui.tab THEN next ELSE ui.list[tab]
  BY <1>1, <1>4
<1> HIDE DEF list, stored
<1>6. /\ u \in Grafana!UiType /\ u.list = list /\ u.rows = ui.rows
      /\ u.asked = ui.asked /\ srv' \in Grafana!SrvType
  BY <1>1, <1>3, <1>5 DEF Grafana!UiType, Grafana!SrvType
<1> HIDE DEF u, s
<1>7. GrafanaShown(u)
  BY <1>4, <1>5, <1>6 DEF GrafanaInv, GrafanaShown
<1> QED BY <1>3, <1>6, <1>7, GrafanaPuts

(* What is asked, opened and closed without a handler.                     *)
LEMMA GrafanaDialogs ==
  ASSUME GrafanaInv,
         \/ Grafana!CancelConfirm \/ Grafana!FillForm \/ Grafana!CloseEditor
         \/ Grafana!OpenGrafana \/ Grafana!CloseGrafana \/ Grafana!CloseMetrics
         \/ Grafana!KeyNamesRead
         \/ \E i \in Grafana!Items : Grafana!AskHide(i) \/ Grafana!AskDelete(i)
         \/ \E kind \in {"datasource", "folder"},
               i \in Grafana!Items \cup {None} : Grafana!OpenEditor(kind, i)
  PROVE  GrafanaInv'
<1>1. ui \in Grafana!UiType /\ GrafanaShown(ui)
  BY DEF GrafanaInv, GrafanaShown
<1>2. ASSUME NEW u, GrafanaAlike(ui, u), Grafana!Edit(u) PROVE GrafanaInv'
  BY <1>1, <1>2, GrafanaAlikeShown, GrafanaEdits
<1>3. CASE Grafana!CancelConfirm
  BY <1>1, <1>2, <1>3, GrafanaCloses DEF Grafana!CancelConfirm
<1>4. CASE Grafana!FillForm
  <2> DEFINE filled == ~ui.filled
             u == [ui EXCEPT !.filled = filled]
  <2>1. filled \in BOOLEAN /\ Grafana!Edit(u)
    BY <1>4, Zenon DEF Grafana!FillForm
  <2> HIDE DEF filled
  <2>2. GrafanaAlike(ui, u)
    BY <1>1, <2>1, GrafanaCloses
  <2> HIDE DEF u
  <2> QED BY <1>2, <2>1, <2>2
<1>5. CASE Grafana!CloseEditor \/ Grafana!CloseGrafana
  BY <1>1, <1>2, <1>5, GrafanaCloses DEF Grafana!CloseEditor,
     Grafana!CloseGrafana
<1>6. CASE Grafana!OpenGrafana
  <2>1. "grafana" \in Grafana!Dialogs
    BY DEF Grafana!Dialogs
  <2> QED BY <1>1, <1>2, <1>6, <2>1, GrafanaCloses DEF Grafana!OpenGrafana
<1>7. CASE Grafana!CloseMetrics
  <2> DEFINE nothing == None
             metrics == [open |-> nothing, loading |-> FALSE]
             u == [ui EXCEPT !.metrics = metrics]
  <2>1. /\ metrics \in [open : Datasources \cup {None}, loading : BOOLEAN]
        /\ Grafana!Edit(u)
    BY <1>7 DEF Grafana!CloseMetrics
  <2> HIDE DEF metrics
  <2>2. GrafanaAlike(ui, u)
    BY <1>1, <2>1, GrafanaCloses
  <2> HIDE DEF u
  <2> QED BY <1>2, <2>1, <2>2
<1>8. CASE Grafana!KeyNamesRead
  <2> DEFINE keys == Range(ui.list["dashboards"])
             u == [ui EXCEPT !.keys = keys]
  <2>1. keys \in SUBSET Dashboards
    <3>1. "dashboards" \in Grafana!Tabs /\ Grafana!Of("dashboards") = Dashboards
      BY DEF Grafana!Tabs, Grafana!Of
    <3> QED BY <1>1, <3>1 DEF GrafanaShown, Fits
  <2>2. Grafana!Edit(u)
    BY <1>8, GrafanaSequences DEF Grafana!KeyNamesRead, Grafana!Edit
  <2> HIDE DEF keys
  <2>3. GrafanaAlike(ui, u)
    BY <1>1, <2>1, GrafanaCloses
  <2> HIDE DEF u
  <2> QED BY <1>2, <2>2, <2>3
<1>9. ASSUME NEW i \in Grafana!Items, Grafana!AskHide(i) PROVE GrafanaInv'
  <2> DEFINE op == IF i \in ui.marked THEN "unhide" ELSE "hide"
  <2>1. op \in Grafana!Asking /\ i \notin Owned
    BY <1>1, <1>9, GrafanaCards DEF Grafana!Asking, Grafana!AskHide
  <2>2. Grafana!Edit(Grafana!Asked(ui, op, i))
    BY <1>9 DEF Grafana!AskHide
  <2> HIDE DEF op
  <2>3. GrafanaShown(Grafana!Asked(ui, op, i))
    BY <1>1, <2>1, GrafanaAsks
  <2> QED BY <2>2, <2>3, GrafanaEdits
<1>10. ASSUME NEW i \in Grafana!Items, Grafana!AskDelete(i) PROVE GrafanaInv'
  <2>1. "delete" \in Grafana!Asking
    BY DEF Grafana!Asking
  <2>2. GrafanaShown(Grafana!Asked(ui, "delete", i))
    BY <1>1, <2>1, GrafanaAsks
  <2> QED BY <1>10, <2>2, GrafanaEdits DEF Grafana!AskDelete
<1>11. ASSUME NEW kind \in {"datasource", "folder"},
              NEW i \in Grafana!Items \cup {None}, Grafana!OpenEditor(kind, i)
       PROVE  GrafanaInv'
  <2> DEFINE filled == i # None \/ kind = "datasource"
             u == [ui EXCEPT !.dialog = kind, !.editing = i, !.filled = filled]
  <2>1. filled \in BOOLEAN /\ Grafana!Edit(u)
    BY <1>11, Zenon DEF Grafana!OpenEditor
  <2>2. kind \in Grafana!Dialogs
    BY DEF Grafana!Dialogs
  <2> HIDE DEF filled
  <2>3. GrafanaAlike(ui, u)
    BY <1>1, <2>1, <2>2 DEF GrafanaAlike, Grafana!UiType
  <2> HIDE DEF u
  <2> QED BY <1>2, <2>1, <2>3
<1> QED BY <1>3, <1>4, <1>5, <1>6, <1>7, <1>8, <1>9, <1>10, <1>11

(* The handlers of the dialogs begin.                                      *)
LEMMA GrafanaHandlers ==
  ASSUME Grafana!BoundsFit, GrafanaInv,
         \/ Grafana!Confirm \/ Grafana!ConfirmGrafana
         \/ \E i \in Grafana!Items : Grafana!SaveEditor(i)
         \/ \E p \in Datasources : Grafana!FindLinked(p) \/ Grafana!ViewMetrics(p)
  PROVE  GrafanaInv'
<1>1. ui \in Grafana!UiType /\ GrafanaShown(ui)
  BY DEF GrafanaInv, GrafanaShown
<1>2. ASSUME NEW u, GrafanaAlike(ui, u), NEW op, NEW stage, NEW arg,
             Grafana!Task(op, stage, arg) \in GrafanaTasks,
             Grafana!Start(u, op, stage, arg)
      PROVE  GrafanaInv'
  <2>1. GrafanaShown(u) /\ u.starts = ui.starts
    BY <1>1, <1>2, GrafanaAlikeShown DEF GrafanaAlike
  <2> QED BY <1>2, <2>1, GrafanaStarts
<1>3. GrafanaAlike(ui, ui)
  BY <1>1, GrafanaCloses
<1>4. CASE Grafana!Confirm
  <2> DEFINE op == ui.asked.op
             i == ui.asked.id
  <2>1. /\ op \in {"hide", "unhide", "delete"} /\ i \in Grafana!Items
        /\ op = "hide" => i \notin Owned
    BY <1>1, <1>4 DEF Grafana!Confirm, GrafanaShown, Grafana!UiType,
       Grafana!Asking
  <2>2. Grafana!Start(ui, "confirm", op, Grafana!Arg(i))
    BY <1>4 DEF Grafana!Confirm
  <2> HIDE DEF op, i
  <2>3. Grafana!Arg(i) \in GrafanaArgs /\ Grafana!Arg(i).id = i
    BY <1>1, <2>1, GrafanaArgTypes
  <2>4. Grafana!Task("confirm", op, Grafana!Arg(i)) \in GrafanaTasks
    BY <2>1, <2>3, GrafanaTaskTypes
  <2> QED BY <1>2, <1>3, <2>2, <2>4
<1>5. CASE Grafana!ConfirmGrafana
  <2>1. Grafana!Task("launch", "launch", Grafana!Arg(None)) \in GrafanaTasks
    BY <1>1, GrafanaArgTypes, GrafanaTaskTypes
  <2> QED BY <1>2, <1>3, <1>5, <2>1 DEF Grafana!ConfirmGrafana
<1>6. ASSUME NEW i \in Grafana!Items, Grafana!SaveEditor(i) PROVE GrafanaInv'
  <2>1. Grafana!Task("save", "save", Grafana!Arg(i)) \in GrafanaTasks
    BY <1>1, GrafanaArgTypes, GrafanaTaskTypes
  <2> QED BY <1>2, <1>3, <1>6, <2>1 DEF Grafana!SaveEditor
<1>7. ASSUME NEW p \in Datasources, Grafana!FindLinked(p) PROVE GrafanaInv'
  <2>1. p \in Grafana!Items
    BY DEF Grafana!Items
  <2>2. Grafana!Task("links", "links", [Grafana!NoArg EXCEPT !.id = p])
          \in GrafanaTasks
    BY <2>1, GrafanaArgTypes, GrafanaTaskTypes
  <2> QED BY <1>2, <1>3, <1>7, <2>2 DEF Grafana!FindLinked
<1>8. ASSUME NEW p \in Datasources, Grafana!ViewMetrics(p) PROVE GrafanaInv'
  <2> DEFINE metrics == [open |-> p, loading |-> TRUE]
             u == [ui EXCEPT !.metrics = metrics]
  <2>1. p \in Grafana!Items
    BY DEF Grafana!Items
  <2>2. Grafana!Task("metrics", "metrics", Grafana!Arg(p)) \in GrafanaTasks
    BY <1>1, <2>1, GrafanaArgTypes, GrafanaTaskTypes
  <2>3. /\ metrics \in [open : Datasources \cup {None}, loading : BOOLEAN]
        /\ Grafana!Start(u, "metrics", "metrics", Grafana!Arg(p))
    BY <1>8 DEF Grafana!ViewMetrics
  <2> HIDE DEF metrics
  <2>4. GrafanaAlike(ui, u)
    BY <1>1, <2>3, GrafanaCloses
  <2> HIDE DEF u
  <2> QED BY <1>2, <2>2, <2>3, <2>4
<1> QED BY <1>4, <1>5, <1>6, <1>7, <1>8

(***************************************************************************)
(* The services.                                                           *)
(***************************************************************************)
LEMMA GrafanaServes ==
  ASSUME Grafana!ConstantsFit, GrafanaInv, NEW n \in Slots, Grafana!ServeSlot(n)
  PROVE  GrafanaInv'
<1> DEFINE t == net[n]
<1>1. /\ t \in GrafanaTasks /\ t.st = "sent" /\ t.arg \in GrafanaArgs
      /\ ui' = ui /\ GrafanaShown(ui) /\ srv \in Grafana!SrvType
  BY DEF GrafanaInv, GrafanaTasks, Grafana!ServeSlot, Grafana!ServeWrite,
     Grafana!ServeLoad, Grafana!Waiting
<1>2. CASE Grafana!ServeWrite(n)
  <2>1. PICK st \in {"ok", "failed"} :
          /\ net' = [net EXCEPT ![n] = [t EXCEPT !.st = st, !.ans = None]]
          /\ srv' = Grafana!Written(t) \/ srv' = srv
    BY <1>2 DEF Grafana!ServeWrite, Grafana!Reply
  <2> DEFINE x == [t EXCEPT !.st = st, !.ans = None]
             i == t.arg.id
  <2>2. x \in GrafanaTasks
    BY <1>1, <1>2 DEF GrafanaTasks, Grafana!ServeWrite
  <2>3. srv' \in Grafana!SrvType /\ srv'.stored = srv.stored
    <3>0. /\ srv.there \in SUBSET Grafana!Items
          /\ srv.hidden \in SUBSET (Grafana!Items \ Owned)
      BY <1>1 DEF Grafana!SrvType
    <3>1. CASE t.stage = "delete"
      <4>1. Grafana!Written(t) = [srv EXCEPT !.there = @ \ {i},
                                             !.hidden = @ \ {i}]
        BY <3>1 DEF Grafana!Written
      <4> QED BY <1>1, <2>1, <3>0, <4>1 DEF Grafana!SrvType
    <3>2. CASE t.stage = "hide"
      <4>1. Grafana!Written(t) = [srv EXCEPT !.hidden = @ \cup {i}]
        BY <3>2 DEF Grafana!Written
      <4>2. i \in Grafana!Items \ Owned
        BY <1>1, <3>2 DEF GrafanaTasks
      <4> QED BY <1>1, <2>1, <3>0, <4>1, <4>2 DEF Grafana!SrvType
    <3>3. CASE t.stage = "unhide"
      <4>1. Grafana!Written(t) = [srv EXCEPT !.hidden = @ \ {i}]
        BY <3>3 DEF Grafana!Written
      <4> QED BY <1>1, <2>1, <3>0, <4>1 DEF Grafana!SrvType
    <3>4. CASE t.stage = "save"
      <4>1. Grafana!Written(t) = [srv EXCEPT !.there = @ \cup {i}]
        BY <3>4 DEF Grafana!Written
      <4>2. i \in Grafana!Items
        BY <1>1, <3>4 DEF GrafanaTasks
      <4> QED BY <1>1, <2>1, <3>0, <4>1, <4>2 DEF Grafana!SrvType
    <3>5. CASE t.stage \in {"none", "load", "links", "launch", "metrics"}
      <4>1. Grafana!Written(t) = srv
        BY <3>5 DEF Grafana!Written
      <4> QED BY <1>1, <2>1, <4>1
    <3> QED BY <1>1, <3>1, <3>2, <3>3, <3>4, <3>5 DEF GrafanaTasks
  <2>4. net' = [net EXCEPT ![n] = x]
    BY <2>1
  <2> HIDE DEF x
  <2> QED BY <1>1, <2>2, <2>3, <2>4, GrafanaPuts
<1>3. CASE Grafana!ServeLoad(n)
  <2> DEFINE needs == Grafana!Needs(t.arg.tab)
  <2>1. PICK lost \in SUBSET needs :
          net' = [net EXCEPT ![n] =
                    [t EXCEPT !.st = "ok",
                       !.ans = [lists |-> [tab \in needs |->
                                             IF tab \in lost THEN {}
                                             ELSE Grafana!Listing(t.arg, tab)],
                                hidden |-> srv.hidden]]]
    BY <1>3 DEF Grafana!ServeLoad, Grafana!Reply
  <2> DEFINE lists == [tab \in needs |-> IF tab \in lost THEN {}
                                         ELSE Grafana!Listing(t.arg, tab)]
             ans == [lists |-> lists, hidden |-> srv.hidden]
             x == [t EXCEPT !.st = "ok", !.ans = ans]
  <2>2. needs \in SUBSET Grafana!Tabs
    BY <1>1 DEF Grafana!Needs, GrafanaArgs
  <2>3. \A tab : /\ Grafana!Listing(t.arg, tab) \subseteq Grafana!Of(tab)
                 /\ Grafana!Listing(t.arg, tab) \subseteq Grafana!Items
    BY <1>1 DEF Grafana!Listing, Grafana!SrvType
  <2> HIDE DEF needs
  <2>4. /\ lists \in [needs -> SUBSET Grafana!Items]
        /\ \A tab \in DOMAIN lists : lists[tab] \subseteq Grafana!Of(tab)
    BY <2>3
  <2>5. srv.hidden \in SUBSET Grafana!Items
    BY <1>1 DEF Grafana!SrvType
  <2>6. net' = [net EXCEPT ![n] = x]
    BY <2>1
  <2> HIDE DEF lists
  <2>7. lists \in GrafanaLists
    BY <2>2, <2>4 DEF GrafanaLists
  <2>8. ans \in GrafanaAnswers
    BY <2>4, <2>5, <2>7 DEF GrafanaAnswers
  <2> HIDE DEF ans
  <2>9. x \in GrafanaTasks
    BY <1>1, <2>8 DEF GrafanaTasks
  <2>10. srv' = srv
    BY <1>3 DEF Grafana!ServeLoad
  <2> HIDE DEF x
  <2> QED BY <1>1, <2>6, <2>9, <2>10, GrafanaPuts
<1> QED BY <1>2, <1>3 DEF Grafana!ServeSlot

(***************************************************************************)
(* The answers.  A load is shown in the order the browser gives, if any.   *)
(***************************************************************************)
LEMMA GrafanaLoadsEnd ==
  ASSUME Grafana!ConstantsFit, GrafanaInv, NEW n \in Slots,
         Grafana!DeliverLoad(n)
  PROVE  GrafanaInv'
<1> DEFINE ans == net[n].ans
           got == DOMAIN ans.lists
<1>1. /\ ui \in Grafana!UiType /\ srv \in Grafana!SrvType
      /\ ui.list \in [Grafana!Tabs -> Seq(Grafana!Items)]
      /\ ui.rows \in [Grafana!Tabs -> SUBSET Grafana!Items]
      /\ srv.stored \in [Grafana!Tabs -> Seq(Grafana!Items)]
      /\ ui.loaded \in SUBSET Grafana!Tabs
  BY DEF GrafanaInv, GrafanaShown, Grafana!UiType, Grafana!SrvType
<1>2. ans \in GrafanaAnswers
  BY DEF GrafanaInv, GrafanaTasks, Grafana!DeliverLoad, Grafana!Back
<1>3. /\ got \in SUBSET Grafana!Tabs
      /\ \A tab \in got : ans.lists[tab] \in SUBSET Grafana!Items
      /\ \A tab \in got : ans.lists[tab] \subseteq Grafana!Of(tab)
      /\ ans.hidden \in SUBSET Grafana!Items
  <2>1. ans.lists \in GrafanaLists /\ ans.hidden \in SUBSET Grafana!Items
        /\ \A tab \in got : ans.lists[tab] \subseteq Grafana!Of(tab)
    BY <1>2 DEF GrafanaAnswers
  <2>2. PICK S \in SUBSET Grafana!Tabs : ans.lists \in [S -> SUBSET Grafana!Items]
    BY <2>1 DEF GrafanaLists
  <2> QED BY <2>1, <2>2
<1>4. PICK readable \in SUBSET got, writable \in SUBSET got :
        LET saved == Grafana!Read(readable) IN
        /\ ui' = Grafana!Listed(ui, ans, saved)
        /\ srv' = [srv EXCEPT !.stored = [tab \in Grafana!Tabs |->
                     IF tab \in writable /\ ui'.list[tab] # saved[tab]
                     THEN ui'.list[tab] ELSE @[tab]]]
  BY DEF Grafana!DeliverLoad
<1> DEFINE saved == Grafana!Read(readable)
           order(tab) == Grafana!Reconciled(saved[tab], ans.lists[tab])
           list == [tab \in Grafana!Tabs |-> IF tab \in got THEN order(tab)
                                             ELSE ui.list[tab]]
           rows == [tab \in Grafana!Tabs |-> IF tab \in got
                                             THEN ans.lists[tab]
                                             ELSE ui.rows[tab]]
           loaded == ui.loaded \cup got
           marked == ans.hidden
           none == {}
           u == [ui EXCEPT !.list = list, !.rows = rows, !.loaded = loaded,
                           !.marked = marked, !.loading = FALSE, !.keys = none]
           stored == [tab \in Grafana!Tabs |->
                        IF tab \in writable /\ ui'.list[tab] # saved[tab]
                        THEN ui'.list[tab] ELSE srv.stored[tab]]
           s == [srv EXCEPT !.stored = stored]
<1>5. ui' = u /\ srv' = s /\ net' = [net EXCEPT ![n] = Grafana!NoTask]
  <2>1. Grafana!Listed(ui, ans, saved) = u
    BY <1>1 DEF Grafana!Listed, Grafana!UiType
  <2>2. srv' = s
    BY <1>1, <1>4 DEF Grafana!SrvType
  <2>3. net' = [net EXCEPT ![n] = Grafana!NoTask]
    BY DEF Grafana!DeliverLoad, Grafana!Finish
  <2> QED BY <1>4, <2>1, <2>2, <2>3
<1>6. saved \in [Grafana!Tabs -> Seq(Grafana!Items)]
  BY <1>1 DEF Grafana!Read
<1> HIDE DEF saved
<1>7. \A tab \in got : /\ order(tab) \in Seq(Grafana!Items)
                       /\ Fits(order(tab), ans.lists[tab])
  <2> SUFFICES ASSUME NEW tab \in got
               PROVE  /\ order(tab) \in Seq(Grafana!Items)
                      /\ Fits(order(tab), ans.lists[tab])
    OBVIOUS
  <2> DEFINE listed == ans.lists[tab]
             kept == saved[tab]
             new == NormalizedOrder(kept, listed)
  <2>1. listed \in SUBSET Grafana!Items /\ kept \in Seq(Grafana!Items)
    BY <1>3, <1>6
  <2>2. IsFiniteSet(Grafana!Items)
    BY DEF Grafana!ConstantsFit, Grafana!IsFiniteSet, IsFiniteSet
  <2>3. order(tab) = new
    BY GrafanaOrders DEF Grafana!Reconciled
  <2> HIDE DEF listed, kept
  <2>4. IsFiniteSet(listed)
    BY <2>1, <2>2, FS_Subset
  <2>5. new \in Seq(listed) /\ Fits(new, listed)
    BY <2>1, <2>4, NormalizedFits
  <2> HIDE DEF new
  <2>6. new \in Seq(Grafana!Items)
    BY <2>1, <2>5
  <2> QED BY <2>3, <2>5, <2>6 DEF listed
<1> HIDE DEF order
<1>8. /\ list \in [Grafana!Tabs -> Seq(Grafana!Items)]
      /\ rows \in [Grafana!Tabs -> SUBSET Grafana!Items]
      /\ \A tab \in Grafana!Tabs :
           IF tab \in got THEN list[tab] = order(tab) /\ rows[tab] = ans.lists[tab]
           ELSE list[tab] = ui.list[tab] /\ rows[tab] = ui.rows[tab]
  BY <1>1, <1>3, <1>7
<1> HIDE DEF list, rows
<1>9. /\ none \in SUBSET Dashboards /\ loaded \in SUBSET Grafana!Tabs
      /\ marked \in SUBSET Grafana!Items
  BY <1>1, <1>3
<1> HIDE DEF none, marked, loaded
<1>10. /\ u \in Grafana!UiType /\ u.list = list /\ u.rows = rows
       /\ u.asked = ui.asked
  BY <1>1, <1>8, <1>9 DEF Grafana!UiType
<1>11. stored \in [Grafana!Tabs -> Seq(Grafana!Items)]
  BY <1>1, <1>5, <1>8, <1>10
<1> HIDE DEF stored, u
<1>12. s \in Grafana!SrvType
  BY <1>1, <1>11 DEF Grafana!SrvType
<1> HIDE DEF s
<1>13. GrafanaShown(u)
  <2>1. \A tab \in Grafana!Tabs : /\ u.rows[tab] \subseteq Grafana!Of(tab)
                                  /\ Fits(u.list[tab], u.rows[tab])
    <3> SUFFICES ASSUME NEW tab \in Grafana!Tabs
                 PROVE  /\ u.rows[tab] \subseteq Grafana!Of(tab)
                        /\ Fits(u.list[tab], u.rows[tab])
      OBVIOUS
    <3>1. CASE tab \in got
      BY <1>3, <1>7, <1>8, <1>10, <3>1
    <3>2. CASE tab \notin got
      BY <1>8, <1>10, <3>2 DEF GrafanaInv, GrafanaShown
    <3> QED BY <3>1, <3>2
  <2> QED BY <1>10, <2>1 DEF GrafanaInv, GrafanaShown
<1>14. Grafana!NoTask \in GrafanaTasks
  BY GrafanaTaskTypes
<1> QED BY <1>5, <1>12, <1>13, <1>14, GrafanaPuts

(* The other answers: a question, a message, or the load.                  *)
LEMMA GrafanaWritesEnd ==
  ASSUME GrafanaInv, NEW n \in Slots,
         \/ Grafana!DeliverWrite(n) \/ Grafana!DeliverLinks(n)
         \/ Grafana!DeliverMetrics(n)
  PROVE  GrafanaInv'
<1> DEFINE t == net[n]
<1>1. /\ ui \in Grafana!UiType /\ GrafanaShown(ui)
      /\ t \in GrafanaTasks /\ t.st \in {"ok", "failed"} /\ t.arg \in GrafanaArgs
      /\ srv' = srv /\ srv \in Grafana!SrvType
      /\ ui.filters \in Grafana!Filters /\ ui.query[ui.tab] \in BOOLEAN
  BY DEF GrafanaInv, GrafanaShown, GrafanaTasks, Grafana!DeliverWrite,
     Grafana!DeliverLinks, Grafana!DeliverMetrics, Grafana!Back, Grafana!UiType
<1>2. Grafana!NoTask \in GrafanaTasks
  BY GrafanaTaskTypes
<1>3. ASSUME NEW u, GrafanaAlike(ui, u), NEW x \in GrafanaTasks, ui' = u,
             net' = [net EXCEPT ![n] = x]
      PROVE  GrafanaInv'
  <2>1. GrafanaShown(u)
    BY <1>1, <1>3, GrafanaAlikeShown
  <2> QED BY <1>1, <1>3, <2>1, GrafanaPuts
<1>4. CASE Grafana!DeliverWrite(n)
  <2> DEFINE after == Grafana!After(ui, t)
  <2>1. after \in {ui, Grafana!Unasked(ui), Grafana!Closed(ui)}
    BY DEF Grafana!After
  <2>2. GrafanaAlike(ui, after)
    BY <1>1, <2>1, GrafanaCloses
  <2>3. CASE t.st = "ok" /\ t.op # "launch"
    <3> DEFINE arg == Grafana!Load(t.arg.tab, ui.filters, ui.query[ui.tab])
               x == Grafana!Task(t.op, "load", arg)
               u == Grafana!BeginLoad(after)
    <3>1. ui' = u /\ net' = [net EXCEPT ![n] = x]
      BY <1>4, <2>3 DEF Grafana!DeliverWrite, Grafana!Continue
    <3>2. t.arg.tab \in Grafana!Tabs
      BY <1>1 DEF GrafanaArgs
    <3>3. arg \in GrafanaArgs
      BY <1>1, <3>2, GrafanaArgTypes
    <3> HIDE DEF arg
    <3>4. x \in GrafanaTasks
      BY <1>1, <3>3 DEF GrafanaTasks, Grafana!Task
    <3> HIDE DEF x, after
    <3>5. GrafanaAlike(after, u)
      BY <2>2, GrafanaCloses DEF GrafanaAlike
    <3> HIDE DEF u
    <3>6. GrafanaAlike(ui, u)
      BY <2>2, <3>5 DEF GrafanaAlike
    <3> QED BY <1>3, <3>1, <3>4, <3>6
  <2>4. CASE ~(t.st = "ok" /\ t.op # "launch")
    <3>1. ui' = after /\ net' = [net EXCEPT ![n] = Grafana!NoTask]
      BY <1>4, <2>4 DEF Grafana!DeliverWrite, Grafana!Finish
    <3> HIDE DEF after
    <3> QED BY <1>2, <1>3, <2>2, <3>1
  <2> QED BY <2>3, <2>4
<1>5. CASE Grafana!DeliverLinks(n)
  <2> DEFINE u == Grafana!Asked(ui, "delete", t.arg.id)
  <2>1. ui' = u /\ net' = [net EXCEPT ![n] = Grafana!NoTask]
    BY <1>5 DEF Grafana!DeliverLinks, Grafana!Finish
  <2>2. t.arg.id \in Grafana!Items /\ "delete" \in Grafana!Asking
    BY <1>1, <1>5 DEF GrafanaTasks, Grafana!DeliverLinks, Grafana!Asking
  <2>3. GrafanaShown(u)
    BY <1>1, <2>2, GrafanaAsks
  <2> HIDE DEF u
  <2> QED BY <1>1, <1>2, <2>1, <2>3, GrafanaPuts
<1>6. CASE Grafana!DeliverMetrics(n)
  <2> DEFINE metrics == [ui.metrics EXCEPT !.loading = FALSE]
             u == [ui EXCEPT !.metrics = metrics]
  <2>1. /\ metrics \in [open : Datasources \cup {None}, loading : BOOLEAN]
        /\ ui' = u /\ net' = [net EXCEPT ![n] = Grafana!NoTask]
    BY <1>1, <1>6 DEF Grafana!DeliverMetrics, Grafana!Finish, Grafana!UiType
  <2> HIDE DEF metrics
  <2>2. GrafanaAlike(ui, u)
    BY <1>1, <2>1, GrafanaCloses
  <2> HIDE DEF u
  <2> QED BY <1>2, <1>3, <2>1, <2>2
<1> QED BY <1>4, <1>5, <1>6

(***************************************************************************)
(* The page itself.                                                        *)
(***************************************************************************)
LEMMA GrafanaInit ==
  Grafana!BoundsFit /\ Grafana!ConstantsFit /\ Grafana!Init => GrafanaInv
<1> SUFFICES ASSUME Grafana!BoundsFit, Grafana!ConstantsFit, Grafana!Init
             PROVE  GrafanaInv
  OBVIOUS
<1>1. ui = Grafana!Fresh
  BY DEF Grafana!Init
<1> DEFINE empty == [tab \in Grafana!Tabs |-> <<>>]
           kept == [tab \in Grafana!Tabs |->
                      Grafana!Reverse(Grafana!SetToSeq(Grafana!Of(tab)))]
<1>2. /\ empty \in [Grafana!Tabs -> Seq(Grafana!Items)]
      /\ \A tab \in Grafana!Tabs : Fits(empty[tab], {})
  BY DEF Fits, Range, IsInjective
<1>3. kept \in [Grafana!Tabs -> Seq(Grafana!Items)]
  <2> SUFFICES ASSUME NEW tab \in Grafana!Tabs
               PROVE  Grafana!Reverse(Grafana!SetToSeq(Grafana!Of(tab)))
                        \in Seq(Grafana!Items)
    OBVIOUS
  <2> DEFINE all == Grafana!Of(tab)
             s == SetToSeq(all)
  <2>1. all \in SUBSET Grafana!Items
    BY DEF Grafana!Tabs, Grafana!Of, Grafana!Items
  <2>2. IsFiniteSet(Grafana!Items)
    BY DEF Grafana!ConstantsFit, Grafana!IsFiniteSet, IsFiniteSet
  <2>3. Grafana!SetToSeq(all) = s
    BY Zenon DEF Grafana!SetToSeq, SetToSeq, Grafana!IsInjective, IsInjective,
       Grafana!Cardinality, Cardinality
  <2>4. Grafana!Reverse(s) = [k \in 1..Len(s) |-> s[(Len(s) - k) + 1]]
    BY DEF Grafana!Reverse
  <2> HIDE DEF all
  <2>5. s \in Seq(all)
    BY <2>1, <2>2, FS_Subset, SetToSeqFits
  <2> HIDE DEF s
  <2>6. s \in Seq(Grafana!Items)
    BY <2>1, <2>5
  <2>7. [k \in 1..Len(s) |-> s[(Len(s) - k) + 1]] \in Seq(Grafana!Items)
    BY <2>6
  <2> QED BY <2>3, <2>4, <2>7 DEF all
<1>4. srv \in Grafana!SrvType
  <2>1. /\ srv \in [there : {Grafana!Items, Owned}, hidden : {{}},
                    stored : {empty, kept}]
        /\ Owned \in SUBSET Grafana!Items
    BY DEF Grafana!Init, Grafana!ConstantsFit
  <2> HIDE DEF empty, kept
  <2> QED BY <1>2, <1>3, <2>1 DEF Grafana!SrvType
<1> HIDE DEF kept
<1>5. /\ ui \in Grafana!UiType /\ ui.list = empty
      /\ ui.rows = [tab \in Grafana!Tabs |-> {}] /\ ui.asked.op = None
  <2> DEFINE none == {}
             nothing == None
             asked == [op |-> nothing, id |-> nothing]
             metrics == [open |-> nothing, loading |-> FALSE]
             query == [tab \in Grafana!Tabs |-> FALSE]
             rows == [tab \in Grafana!Tabs |-> {}]
  <2>1. /\ asked \in [op : Grafana!Asking \cup {None},
                      id : Grafana!Items \cup {None}]
        /\ metrics \in [open : Datasources \cup {None}, loading : BOOLEAN]
        /\ query \in [Grafana!Tabs -> BOOLEAN]
        /\ rows \in [Grafana!Tabs -> SUBSET Grafana!Items]
        /\ none \in SUBSET Grafana!Tabs /\ none \in SUBSET Grafana!Items
        /\ none \in SUBSET Dashboards
        /\ nothing \in Grafana!Items \cup {None}
        /\ 0 \in 0..MaxGrafanaStarts
        /\ "none" \in Grafana!Dialogs /\ "dashboards" \in Grafana!Tabs
        /\ asked.op = None
    BY DEF Grafana!BoundsFit, Grafana!Dialogs, Grafana!Tabs
  <2>2. Grafana!Fresh
          = [tab |-> "dashboards", filters |-> Grafana!NoFilter,
             query |-> query, list |-> empty, rows |-> rows, loaded |-> none,
             loading |-> TRUE, dialog |-> "none", editing |-> nothing,
             filled |-> FALSE, marked |-> none, asked |-> asked,
             metrics |-> metrics, keys |-> none, starts |-> 0]
    BY Zenon DEF Grafana!Fresh
  <2> HIDE DEF asked, metrics, query, empty, rows, none, nothing
  <2>3. /\ Grafana!Fresh \in Grafana!UiType /\ Grafana!Fresh.list = empty
        /\ Grafana!Fresh.rows = rows /\ Grafana!Fresh.asked = asked
    BY <1>2, <2>1, <2>2, GrafanaArgTypes DEF Grafana!UiType
  <2> QED BY <1>1, <2>1, <2>3 DEF rows
<1> HIDE DEF empty
<1>6. GrafanaShown(ui)
  BY <1>2, <1>5 DEF GrafanaShown
<1>7. net \in [Slots -> GrafanaTasks]
  <2>1. "dashboards" \in Grafana!Tabs
    BY DEF Grafana!Tabs
  <2>2. Grafana!Task("load", "load", Grafana!Load("dashboards",
                       Grafana!NoFilter, FALSE)) \in GrafanaTasks
    BY <2>1, GrafanaArgTypes, GrafanaTaskTypes
  <2> QED BY <2>2, GrafanaTaskTypes DEF Grafana!Init, Grafana!Quiet
<1> QED BY <1>4, <1>6, <1>7 DEF GrafanaInv

(* Every step of the page keeps its invariant.                             *)
LEMMA GrafanaNext ==
  Grafana!BoundsFit /\ Grafana!ConstantsFit /\ GrafanaInv
    /\ [Grafana!Next]_(Grafana!vars) => GrafanaInv'
<1> SUFFICES ASSUME Grafana!BoundsFit, Grafana!ConstantsFit, GrafanaInv,
                    [Grafana!Next]_(Grafana!vars)
             PROVE  GrafanaInv'
  OBVIOUS
<1>1. CASE UNCHANGED Grafana!vars
  BY <1>1, GrafanaPuts DEF Grafana!vars, GrafanaInv
<1>2. CASE Grafana!Clicks
  BY <1>2, GrafanaFilters, GrafanaReorders, GrafanaDialogs, GrafanaHandlers
     DEF Grafana!Clicks
<1>3. CASE Grafana!KeyNamesRead
  BY <1>3, GrafanaDialogs
<1>4. ASSUME NEW n \in Slots, Grafana!ServeSlot(n) \/ Grafana!DeliverSlot(n)
      PROVE  GrafanaInv'
  BY <1>4, GrafanaServes, GrafanaLoadsEnd, GrafanaWritesEnd
     DEF Grafana!DeliverSlot
<1> QED BY <1>1, <1>2, <1>3, <1>4 DEF Grafana!Next

(* What the page's invariant says of the properties.                       *)
LEMMA GrafanaTells ==
  GrafanaInv => Grafana!TypeOK /\ Grafana!OrderFitsCards
<1> SUFFICES ASSUME GrafanaInv PROVE Grafana!TypeOK /\ Grafana!OrderFitsCards
  OBVIOUS
<1>1. ui.loaded \in SUBSET Grafana!Tabs
  BY DEF GrafanaInv, GrafanaShown, Grafana!UiType
<1> QED BY <1>1, GrafanaOrders DEF GrafanaInv, GrafanaShown, Grafana!TypeOK,
        Grafana!OrderFitsCards

-----------------------------------------------------------------------------
(***************************************************************************)
(* The whole: a behaviour visits one page, and keeps that page's invariant.*)
(***************************************************************************)
Pages == {"shares", "board", "dialog", "alerts", "form", "query", "tools",
          "grafana", "editor"}
IInv == /\ page \in Pages
        /\ page = "shares" => SharesInv
        /\ page = "board" => BoardInv
        /\ page = "dialog" => DialogInv
        /\ page = "alerts" => AlertsInv
        /\ page = "form" => FormInv
        /\ page = "query" => QueryInv
        /\ page = "tools" => ToolsInv
        /\ page = "grafana" => GrafanaInv
        /\ page = "editor" => EditorInv

(* The pages share their bounds, but for integrations and Grafana. *)
LEMMA BoundsFitAll ==
  /\ Shares!BoundsFit /\ Board!BoundsFit /\ Dialog!BoundsFit
  /\ Alerts!BoundsFit /\ Form!BoundsFit /\ Query!BoundsFit
  /\ Tools!BoundsFit /\ Grafana!BoundsFit /\ Editor!BoundsFit
<1>1. Shares!BoundsFit /\ Tools!BoundsFit /\ Grafana!BoundsFit
  BY ConstantsAssumption
<1>2. /\ Slots \subseteq Nat /\ 1 \in Slots /\ IsFiniteSet(Slots)
      /\ MaxStarts \in Nat /\ MaxGrafanaStarts \in Nat
  BY <1>1 DEF Shares!BoundsFit, Grafana!BoundsFit, Shares!IsFiniteSet,
     IsFiniteSet
<1>3. Board!BoundsFit
  BY <1>2 DEF Board!BoundsFit, Board!IsFiniteSet, IsFiniteSet
<1>4. Dialog!BoundsFit
  BY <1>2 DEF Dialog!BoundsFit, Dialog!IsFiniteSet, IsFiniteSet
<1>5. Alerts!BoundsFit
  BY <1>2 DEF Alerts!BoundsFit, Alerts!IsFiniteSet, IsFiniteSet
<1>6. Form!BoundsFit
  BY <1>2 DEF Form!BoundsFit, Form!IsFiniteSet, IsFiniteSet
<1>7. Query!BoundsFit
  BY <1>2 DEF Query!BoundsFit, Query!IsFiniteSet, IsFiniteSet
<1>8. Editor!BoundsFit
  BY <1>2 DEF Editor!BoundsFit, Editor!IsFiniteSet, IsFiniteSet
<1> QED BY <1>1, <1>3, <1>4, <1>5, <1>6, <1>7, <1>8

(* The constants of each page are what its module asks for. *)
LEMMA ConstantsFitAll ==
  /\ Shares!ConstantsFit /\ Board!ConstantsFit /\ Dialog!ConstantsFit
  /\ Alerts!ConstantsFit /\ Form!ConstantsFit /\ Query!ConstantsFit
  /\ Tools!ConstantsFit /\ Grafana!ConstantsFit
BY ConstantsAssumption

(* Every page opens in its invariant. *)
LEMMA InitHolds == Init => IInv
<1> SUFFICES ASSUME Init PROVE IInv
  OBVIOUS
<1> USE BoundsFitAll, ConstantsFitAll
<1>1. page = "shares" /\ Shares!Init => IInv
  BY SharesInit DEF IInv, Pages
<1>2. page = "board" /\ Board!Init => IInv
  BY BoardInit DEF IInv, Pages
<1>3. page = "dialog" /\ Dialog!Init => IInv
  BY DialogInit DEF IInv, Pages
<1>4. page = "alerts" /\ Alerts!Init => IInv
  BY AlertsInit DEF IInv, Pages
<1>5. page = "form" /\ Form!Init => IInv
  BY FormInit DEF IInv, Pages
<1>6. page = "query" /\ Query!Init => IInv
  BY QueryInitInv DEF IInv, Pages
<1>7. page = "tools" /\ Tools!Init => IInv
  BY ToolsInit DEF IInv, Pages
<1>8. page = "grafana" /\ Grafana!Init => IInv
  BY GrafanaInit DEF IInv, Pages
<1>9. page = "editor" /\ Editor!Init => IInv
  BY EditorInit DEF IInv, Pages
<1> QED BY <1>1, <1>2, <1>3, <1>4, <1>5, <1>6, <1>7, <1>8, <1>9 DEF Init

(* No step leaves the page, and each page's steps keep its invariant. *)
LEMMA NextKeeps == IInv /\ [Next]_vars => IInv'
<1> SUFFICES ASSUME IInv, [Next]_vars PROVE IInv'
  OBVIOUS
<1> USE BoundsFitAll, ConstantsFitAll
<1>1. page' = page /\ page \in Pages
  BY DEF IInv, Next, vars
<1>2. page = "shares" => SharesInv'
  <2> SUFFICES ASSUME page = "shares" PROVE SharesInv'
    OBVIOUS
  <2>1. SharesInv /\ [Shares!Next]_(Shares!vars)
    BY DEF IInv, Next, vars, Shares!vars
  <2> QED BY <2>1, SharesNext
<1>3. page = "board" => BoardInv'
  <2> SUFFICES ASSUME page = "board" PROVE BoardInv'
    OBVIOUS
  <2>1. BoardInv /\ [Board!Next]_(Board!vars)
    BY DEF IInv, Next, vars, Board!vars
  <2> QED BY <2>1, BoardNext
<1>4. page = "dialog" => DialogInv'
  <2> SUFFICES ASSUME page = "dialog" PROVE DialogInv'
    OBVIOUS
  <2>1. DialogInv /\ [Dialog!Next]_(Dialog!vars)
    BY DEF IInv, Next, vars, Dialog!vars
  <2> QED BY <2>1, DialogNext
<1>5. page = "alerts" => AlertsInv'
  <2> SUFFICES ASSUME page = "alerts" PROVE AlertsInv'
    OBVIOUS
  <2>1. AlertsInv /\ [Alerts!Next]_(Alerts!vars)
    BY DEF IInv, Next, vars, Alerts!vars
  <2> QED BY <2>1, AlertsNext
<1>6. page = "form" => FormInv'
  <2> SUFFICES ASSUME page = "form" PROVE FormInv'
    OBVIOUS
  <2>1. FormInv /\ [Form!Next]_(Form!vars)
    BY DEF IInv, Next, vars, Form!vars
  <2> QED BY <2>1, FormNext
<1>7. page = "query" => QueryInv'
  <2> SUFFICES ASSUME page = "query" PROVE QueryInv'
    OBVIOUS
  <2>1. QueryInv /\ [Query!Next]_(Query!vars)
    BY DEF IInv, Next, vars, Query!vars
  <2> QED BY <2>1, QueryNext
<1>8. page = "tools" => ToolsInv'
  <2> SUFFICES ASSUME page = "tools" PROVE ToolsInv'
    OBVIOUS
  <2>1. ToolsInv /\ [Tools!Next]_(Tools!vars)
    BY DEF IInv, Next, vars, Tools!vars
  <2> QED BY <2>1, ToolsNext
<1>9. page = "grafana" => GrafanaInv'
  <2> SUFFICES ASSUME page = "grafana" PROVE GrafanaInv'
    OBVIOUS
  <2>1. GrafanaInv /\ [Grafana!Next]_(Grafana!vars)
    BY DEF IInv, Next, vars, Grafana!vars
  <2> QED BY <2>1, GrafanaNext
<1>10. page = "editor" => EditorInv'
  <2> SUFFICES ASSUME page = "editor" PROVE EditorInv'
    OBVIOUS
  <2>1. EditorInv /\ [Editor!Next]_(Editor!vars)
    BY DEF IInv, Next, vars, Editor!vars
  <2> QED BY <2>1, EditorNext
<1> QED
  BY <1>1, <1>2, <1>3, <1>4, <1>5, <1>6, <1>7, <1>8, <1>9, <1>10
  DEF IInv, Pages

(***************************************************************************)
(* Whatever page is visited, its inductive invariant holds throughout.     *)
(***************************************************************************)
THEOREM IInvHolds == Spec => []IInv
<1> QED BY InitHolds, NextKeeps, PTL DEF Spec

(***************************************************************************)
(* Every page's state keeps the shape its component gives it, with any     *)
(* number of items, handlers and answers under way.                        *)
(***************************************************************************)
THEOREM TypeCorrect == Spec => []TypeOK
<1>1. IInv => TypeOK
  BY SharesTells, BoardTells, DialogTells, AlertsTells, FormTells,
     QueryTells, ToolsTells, GrafanaTells, EditorTells
  DEF IInv, Pages, TypeOK
<1> QED BY <1>1, IInvHolds, PTL

(***************************************************************************)
(* The incident board and the alerts page number their loads (loadData):   *)
(* once nothing is under way and nothing failed, they show what the        *)
(* service lists, however their loads and writes overlapped; but for rows  *)
(* of the board that handleAddNote put back, its answer being older.       *)
(***************************************************************************)
THEOREM SettledListIsCurrentHolds == Spec => []SettledListIsCurrent
<1>1. IInv => SettledListIsCurrent
  BY BoardTells, AlertsTells DEF IInv, SettledListIsCurrent
<1> QED BY <1>1, IInvHolds, PTL

(***************************************************************************)
(* normalizeOrderedIds, moveIdInOrderedIds and Grafana's reconciling leave *)
(* every listed card in the order exactly once, whatever order was stored. *)
(***************************************************************************)
THEOREM OrdersFitHolds == Spec => []OrdersFit
<1>1. IInv => OrdersFit
  BY AlertsTells, ToolsTells, GrafanaTells DEF IInv, OrdersFit
<1> QED BY <1>1, IInvHolds, PTL

(***************************************************************************)
(* The guards of the Jira button, of the loader of metric names and of the *)
(* timer that closes a question let nothing run twice.                     *)
(***************************************************************************)
THEOREM OneAtATimeHolds == Spec => []OneAtATime
<1>1. IInv => OneAtATime
  BY DialogTells, QueryTells, ToolsTells DEF IInv, OneAtATime
<1> QED BY <1>1, IInvHolds, PTL

(***************************************************************************)
(* handleSaveRule makes a new rule once for each key, while no request     *)
(* fails, whatever is clicked and edited during the save.                  *)
(***************************************************************************)
THEOREM RuleOncePerScopeHolds == Spec => []RuleOncePerScope
<1>1. IInv => RuleOncePerScope
  BY FormTells DEF IInv, RuleOncePerScope
<1> QED BY <1>1, IInvHolds, PTL

(***************************************************************************)
(* The rule editor holds no channel its visibility hides, the ticks of     *)
(* users cover the groups ticked, and a datasource is shared only after    *)
(* the dashboard was saved.                                                *)
(***************************************************************************)
THEOREM SavesFitHolds == Spec => []SavesFit
<1>1. IInv => SavesFit
  BY FormTells, SharesTells, EditorTells DEF IInv, SavesFit
<1> QED BY <1>1, IInvHolds, PTL

=============================================================================
