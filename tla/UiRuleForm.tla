---------------------------- MODULE UiRuleForm ----------------------------
(***************************************************************************)
(* The rule editor (components/alertmanager/RuleEditor.jsx and             *)
(* RuleEditorWizard.jsx) and the saving of a rule (handleSaveRule of       *)
(* pages/AlertManagerPage.jsx): the four steps, the keys a rule is made    *)
(* for, its labels, its visibility, and the channels that fit it.  The     *)
(* query of the second step is UiRuleQuery.                                *)
(***************************************************************************)
EXTENDS UiPage, UiSequences

CONSTANTS Scopes, Active,  \* the keys offered, the one the session is on
          Groups, Labels,
          Channels, ChannelVisibility, ChannelGroups,
          EditsInFlight     \* bound: the form is edited while a handler runs

Visibilities == {"private", "group", "public"}
(* What the module takes for granted of its constants. *)
ConstantsFit == /\ Active \in Scopes
                /\ IsFiniteSet(Scopes)
                /\ EditsInFlight \in BOOLEAN
                /\ ChannelVisibility \in [Channels -> Visibilities]
                /\ ChannelGroups \in [Channels -> SUBSET Groups]

(* The keys chosen, in the order they were; "auto" is the session's key.   *)
KeyChoices == {c \in BoundedSeq(Scopes, Cardinality(Scopes)) : IsInjective(c)}

Payloads == [visibility : Visibilities, groups : SUBSET Groups,
             channels : SUBSET Channels, labels : SUBSET Labels]

UiType == [open : BOOLEAN, id : BOOLEAN, step : 0..3, named : BOOLEAN,
           expr : BOOLEAN, auto : BOOLEAN, scopes : KeyChoices,
           rows : SUBSET Labels, form : Payloads, known : SUBSET Channels,
           saving : BOOLEAN, testing : BOOLEAN, result : BOOLEAN,
           starts : 0..MaxStarts, failed : BOOLEAN]
SrvType == [rules : [Scopes \cup {None} -> Nat],
            updated : Scopes \cup {None}, channels : SUBSET Channels]
TypeOK == ui \in UiType /\ srv \in SrvType

-----------------------------------------------------------------------------
(* isChannelSelectableForRuleVisibility: a private rule takes private      *)
(* channels, a group's rule those and its groups', a public one any.       *)
IsSelectable(c, visibility, groups) ==
  LET of == ChannelVisibility[c] IN
  \/ of = "private"
  \/ visibility = "group" /\ of = "group" /\ ChannelGroups[c] \cap groups # {}
  \/ visibility = "public"
Selectable(u) == {c \in u.known : IsSelectable(c, u.form.visibility, u.form.groups)}

(* The two effects that follow a change: channels that are no longer       *)
(* selectable leave the selection, and the labels follow the rows as long  *)
(* as there is one.                                                        *)
Pruned(u) == [u EXCEPT !.form.channels = @ \cap Selectable(u)]
Relabelled(u) == [u EXCEPT !.form.labels = IF u.rows = {} THEN @ ELSE u.rows]

-----------------------------------------------------------------------------
(* The editor opens on the default form, or on an existing rule.           *)
Empty == [visibility |-> "private", groups |-> {}, channels |-> {},
          labels |-> {}]
Editing(id, form, known, scopes) ==
  Pruned([open |-> TRUE, id |-> id, step |-> 0, named |-> id, expr |-> id,
          auto |-> scopes = <<>>, scopes |-> scopes, rows |-> form.labels,
          form |-> form, known |-> known, saving |-> FALSE, testing |-> FALSE,
          result |-> FALSE, starts |-> 0, failed |-> FALSE])
(* The page knows the channels, or their listing has failed; a rule that   *)
(* exists is public here, with every channel and every label.              *)
Existing == [visibility |-> "public", groups |-> {}, channels |-> Channels,
             labels |-> Labels]
Init == /\ \E known \in {{}, Channels} :
             ui \in {Editing(FALSE, Empty, known, <<>>),
                     Editing(TRUE, Existing, known, <<Active>>)}
        /\ srv = [rules |-> [s \in Scopes \cup {None} |-> 0],
                  updated |-> None, channels |-> Channels]
        /\ net = Quiet

-----------------------------------------------------------------------------
(* The service. *)
Executed(t) ==
  CASE t.stage = "create" -> [srv EXCEPT !.rules[Head(t.arg.scopes)] = @ + 1]
    [] t.stage = "update" -> [srv EXCEPT !.updated = Head(t.arg.scopes)]
    [] OTHER -> srv
Serve(n) ==
  LET t == net[n] IN
  /\ Waiting(n)
  /\ \/ srv' = Executed(t) /\ \E st \in {"ok", "failed"} : Reply(n, st, None)
     \/ UNCHANGED srv /\ Reply(n, "failed", None)
  /\ UNCHANGED ui

-----------------------------------------------------------------------------
(* The steps: a click on a step goes there whatever is missing, "Next"     *)
(* asks what the step needs.                                               *)
At(step) == ui.open /\ ui.step = step
Edit(u) == /\ EditsInFlight \/ Settled
           /\ ui' = u /\ UNCHANGED <<srv, net>>
ChannelErrors == {c \in ui.form.channels \cap ui.known : c \notin Selectable(ui)}
HasErrors == ~ui.named \/ ~ui.expr \/ ChannelErrors # {}
CanProceed == CASE ui.step = 0 -> ui.named
                [] ui.step = 1 -> ui.expr
                [] ui.step = 2 -> TRUE
                [] ui.step = 3 -> ChannelErrors = {}
NextStep == /\ ui.open /\ ui.step < 3 /\ CanProceed
            /\ Edit([ui EXCEPT !.step = @ + 1])
PreviousStep == /\ ui.open /\ ui.step > 0
                /\ Edit([ui EXCEPT !.step = @ - 1])
ClickStep(step) == ui.open /\ step # ui.step /\ Edit([ui EXCEPT !.step = step])

(* Step 1: the name, the keys and the templates.  Auto leaves the choice   *)
(* of keys, whose buttons are disabled meanwhile; switched off, nothing is *)
(* chosen, and the last key taken away switches it on again.               *)
NameRule == At(0) /\ ~ui.named /\ Edit([ui EXCEPT !.named = TRUE])
ToggleAuto == At(0) /\ Edit([ui EXCEPT !.auto = ~@, !.scopes = <<>>])
ToggleScope(k) ==
  LET place == CHOOSE n \in DOMAIN ui.scopes : ui.scopes[n] = k
      chosen == IF Contains(ui.scopes, k) THEN RemoveAt(ui.scopes, place)
                ELSE Append(ui.scopes, k) IN
  /\ At(0) /\ ~ui.auto
  /\ Edit([ui EXCEPT !.scopes = chosen, !.auto = chosen = <<>>])
ApplyTemplate == At(0) /\ ~ui.expr /\ Edit([ui EXCEPT !.expr = TRUE])
(* Step 3: the rows of the labels. *)
AddLabel(l) == /\ At(2) /\ l \notin ui.rows
               /\ Edit(Relabelled([ui EXCEPT !.rows = @ \cup {l}]))
RemoveLabel(l) == /\ At(2) /\ l \in ui.rows
                  /\ Edit(Relabelled([ui EXCEPT !.rows = @ \ {l}]))
(* Step 4: the visibility, the groups it is shared with, the channels.     *)
SetVisibility(v) ==
  /\ At(3) /\ v # ui.form.visibility
  /\ Edit(Pruned([ui EXCEPT !.form.visibility = v,
                    !.form.groups = IF v = "group" THEN @ ELSE {}]))
ToggleGroup(g) ==
  /\ At(3) /\ ui.form.visibility = "group"
  /\ Edit(Pruned([ui EXCEPT !.form.groups = IF g \in @ THEN @ \ {g}
                                            ELSE @ \cup {g}]))
ToggleChannel(c) ==
  /\ At(3) /\ c \in Selectable(ui)
  /\ Edit([ui EXCEPT !.form.channels = IF c \in @ THEN @ \ {c} ELSE @ \cup {c}])
(* "All Channels" is the empty selection; with none it selects each.       *)
AllChannels ==
  /\ At(3) /\ Selectable(ui) # {}
  /\ Edit([ui EXCEPT !.form.channels = IF @ # {} THEN {} ELSE Selectable(ui)])
Cancel == /\ ui.open
          /\ ui' = [ui EXCEPT !.open = FALSE]
          /\ UNCHANGED <<srv, net>>
CloseResult == ui.open /\ ui.result /\ Edit([ui EXCEPT !.result = FALSE])

-----------------------------------------------------------------------------
(* The handlers. *)
NoArg == [scopes |-> <<>>, form |-> Empty]
RefreshChannels == /\ At(3) /\ Selectable(ui) = {} /\ ~Running("channels")
                   /\ Start(ui, "channels", "channels", NoArg)
TestRule == /\ ui.open /\ ui.id /\ ~ui.testing
            /\ Start([ui EXCEPT !.testing = TRUE], "test", "test", NoArg)
(* The keys a rule is saved for: one rule each.  With none it is saved     *)
(* without a key.                                                          *)
Targets == IF ui.auto THEN <<Active>>
           ELSE IF ui.scopes = <<>> THEN <<None>> ELSE ui.scopes
SubmitAgain == CanProceed /\ ~HasErrors
CanSubmit == CanProceed /\ ~HasErrors /\ ~ui.saving
Submit == /\ At(3) /\ CanSubmit
          /\ Start([ui EXCEPT !.saving = TRUE], "save",
                   IF ui.id THEN "update" ELSE "create",
                   [scopes |-> Targets, form |-> ui.form])

Noted(u, t) == [u EXCEPT !.failed = @ \/ t.st = "failed"]
(* handleSaveRule: an existing rule is saved for the first key, and a rule *)
(* created for each other, one after the other; then the page reloads, and *)
(* the editor closes.  The first that fails ends it, and what was created  *)
(* before remains.                                                         *)
DeliverSave(n) ==
  LET t == net[n] rest == Tail(t.arg.scopes) IN
  /\ Back(n) /\ t.stage \in {"create", "update"}
  /\ IF t.st = "failed"
     THEN /\ ui' = Noted([ui EXCEPT !.saving = FALSE], t)
          /\ Finish(n)
     ELSE /\ UNCHANGED ui
          /\ Continue(n, IF rest = <<>> THEN "reload" ELSE "create",
                      [t.arg EXCEPT !.scopes = rest])
  /\ UNCHANGED srv
(* reloadData never rejects, and what it could not list stays as it was.   *)
DeliverReload(n) ==
  LET t == net[n]
      listed == IF t.st = "ok" THEN srv.channels ELSE ui.known IN
  /\ Back(n) /\ t.stage \in {"reload", "channels"}
  /\ ui' = Noted(Pruned([ui EXCEPT !.known = listed,
                    !.saving = IF t.op = "save" THEN FALSE ELSE @,
                    !.open = IF t.op = "save" THEN FALSE ELSE @]), t)
  /\ Finish(n) /\ UNCHANGED srv
(* The test's answer, or its error, is shown in a dialog. *)
DeliverTest(n) == /\ Back(n) /\ net[n].stage = "test"
                  /\ ui' = Noted([ui EXCEPT !.testing = FALSE,
                                            !.result = TRUE], net[n])
                  /\ Finish(n) /\ UNCHANGED srv

-----------------------------------------------------------------------------
Clicks == \/ NextStep \/ PreviousStep \/ NameRule \/ ToggleAuto \/ ApplyTemplate
          \/ AllChannels \/ Cancel \/ CloseResult \/ RefreshChannels
          \/ TestRule \/ Submit
          \/ \E step \in 0..3 : ClickStep(step)
          \/ \E k \in Scopes : ToggleScope(k)
          \/ \E l \in Labels : AddLabel(l) \/ RemoveLabel(l)
          \/ \E v \in Visibilities : SetVisibility(v)
          \/ \E g \in Groups : ToggleGroup(g)
          \/ \E c \in Channels : ToggleChannel(c)
DeliverSlot(n) == DeliverSave(n) \/ DeliverReload(n) \/ DeliverTest(n)
Next == Clicks \/ \E n \in Slots : Serve(n) \/ DeliverSlot(n)

Fairness == \A n \in Slots : WF_vars(Serve(n)) /\ WF_vars(DeliverSlot(n))
Spec == Init /\ [][Next]_vars /\ Fairness

-----------------------------------------------------------------------------
(* While no request has failed, saving creates at most one rule for a key, *)
(* and none for the key the existing rule was saved for.                   *)
RuleOncePerScope ==
  ~ui.failed => \A s \in Scopes \cup {None} :
                  srv.rules[s] + (IF srv.updated = s /\ s # None THEN 1 ELSE 0) <= 1

(* A rule is saved only with channels that its visibility and its groups   *)
(* let it use, whatever was chosen before they were changed.               *)
SavedChannelsFit ==
  \A n \in Slots :
    net[n].op = "save" =>
      LET form == net[n].arg.form IN
      \A c \in form.channels : IsSelectable(c, form.visibility, form.groups)

(* The editor stops showing that it saves or tests. *)
Busy == ui.saving \/ ui.testing
=============================================================================
