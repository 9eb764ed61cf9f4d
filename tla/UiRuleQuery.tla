---------------------------- MODULE UiRuleQuery ----------------------------
(***************************************************************************)
(* The query of the rule editor (components/alertmanager/RuleEditor.jsx):  *)
(* the metric explorer, the PromQL text with its preview and its           *)
(* suggestions, and the builder.  The reads its effects begin are dropped  *)
(* by their cleanups; they are part of `ui', one of each kind at most.     *)
(* Bound: the editor stays open.                                           *)
(***************************************************************************)
EXTENDS UiPage, UiSequences

CONSTANTS Scopes, MaxRows   \* keys to query, bound: rows of the builder

(* What the module takes for granted of its constants. *)
ConstantsFit == MaxRows \in Nat \ {0}

Texts == {"short", "one", "two", "built"}   \* built by the builder
Contexts == {"metric", "labelKey", "labelValue"}
Rows == {"blank", "metric", "complete"}
Maybe(S) == S \cup {None}

(* `names', `labels' and `values' are known by the scope they were read    *)
(* for, `shown' is the text the preview is about, and `late' that of an    *)
(* evaluation given up when its answer had begun to arrive.                *)
UiType == [mode : {"promql", "builder"}, expr : Texts, context : Contexts,
           scope : Scopes, rows : BoundedSeq(Rows, MaxRows),
           names : Maybe(Scopes), namesLoading : BOOLEAN,
           namesError : BOOLEAN, request : Nat,
           labels : Maybe(Scopes), labelsRead : BOOLEAN,
           values : Maybe(Scopes), valuesRead : BOOLEAN,
           shown : Maybe(Texts), previewing : BOOLEAN,
           preview : {"idle", "due", "sent", "ok", "failed"},
           late : Maybe(Texts), starts : 0..MaxStarts]
SrvType == [Scopes -> BOOLEAN]
TypeOK == ui \in UiType /\ srv \in SrvType

-----------------------------------------------------------------------------
(* The effects. *)

(* The preview: any change gives the evaluation up, and a text of three    *)
(* characters or more is evaluated once it has not changed for a while.    *)
(* What had begun to arrive is not held back.                              *)
PreviewAgain(u) ==
  LET v == [u EXCEPT !.late = IF u.preview = "ok" THEN ui.expr ELSE @] IN
  IF u.mode = "promql" /\ u.expr # "short"
  THEN [v EXCEPT !.preview = "due"]
  ELSE [v EXCEPT !.preview = "idle", !.shown = None, !.previewing = FALSE]
(* The label names are read once, the label values when a value is typed.  *)
(* Neither is read again for another scope.                                *)
ReadLabels(u) == [u EXCEPT !.labelsRead = u.mode = "promql" /\ u.labels = None]
ReadValues(u) == [u EXCEPT !.valuesRead = /\ u.mode = "promql"
                                          /\ u.context = "labelValue"
                                          /\ u.values = None]
(* The metric names are loaded when there are none, none are being loaded  *)
(* and the last load has not failed.                                       *)
LoadsNames(u) == /\ u.mode = "promql" /\ u.names = None
                 /\ ~u.namesLoading /\ ~u.namesError
BeginNames(u) == [u EXCEPT !.request = @ + 1, !.namesLoading = TRUE,
                           !.namesError = FALSE]
NamesArg(u) == [scope |-> u.scope, request |-> u.request + 1]
(* Bound: what the user does here counts as a start. *)
Edit(u) ==
  /\ ui.starts < MaxStarts
  /\ LET v == [u EXCEPT !.starts = @ + 1] IN
     IF LoadsNames(v)
     THEN ui' = BeginNames(v) /\ Begin("names", "names", NamesArg(v))
     ELSE ui' = v /\ UNCHANGED net
  /\ UNCHANGED srv

(* The builder's rows as a text: the complete rows, or no change.          *)
Composite(u) == IF u.mode = "builder" /\ Contains(u.rows, "complete")
                THEN "built" ELSE u.expr
Composed(u) == [u EXCEPT !.expr = Composite(u)]

-----------------------------------------------------------------------------
Fresh(scope) ==
  [mode |-> "promql", expr |-> "short", context |-> "metric",
   scope |-> scope, rows |-> <<"blank">>, names |-> None,
   namesLoading |-> TRUE, namesError |-> FALSE, request |-> 1,
   labels |-> None, labelsRead |-> TRUE, values |-> None,
   valuesRead |-> FALSE, shown |-> None, previewing |-> FALSE,
   preview |-> "idle", late |-> None, starts |-> 0]
(* A scope without samples has no metric names. *)
Init == /\ ui \in {Fresh(scope) : scope \in Scopes}
        /\ srv \in [Scopes -> BOOLEAN]
        /\ net = [Quiet EXCEPT ![1] = Task("names", "names",
                                           [scope |-> ui.scope, request |-> 1])]

-----------------------------------------------------------------------------
(* The editor. *)

(* The key chosen first, the rule's own, or the session's. *)
ChooseScope(s) ==
  /\ s # ui.scope
  /\ Edit(PreviewAgain(ReadValues(ReadLabels([ui EXCEPT !.scope = s]))))
SetMode(mode) ==
  /\ mode # ui.mode
  /\ Edit(PreviewAgain(ReadValues(ReadLabels(Composed([ui EXCEPT !.mode = mode])))))
(* The text is typed, or a template, a metric or a suggestion put in it;   *)
(* where the cursor is decides what is suggested next.                     *)
SetExpr(e, context) ==
  Edit(PreviewAgain(ReadValues([ui EXCEPT !.expr = e, !.context = context])))
TypeExpr(e, context) == /\ ui.mode = "promql" /\ e # ui.expr
                        /\ SetExpr(e, context)
Offered == CASE ui.context = "metric" -> ui.names
             [] ui.context = "labelKey" -> ui.labels
             [] ui.context = "labelValue" -> ui.values
ApplySuggestion(e) ==
  /\ ui.mode = "promql" /\ Offered # None /\ e # ui.expr
  /\ SetExpr(e, IF ui.context = "labelKey" THEN "labelValue" ELSE ui.context)
(* A metric of the explorer: appended to the text, or put into the last    *)
(* row that has none and otherwise into the first.                         *)
BlankRow == LET blank == {i \in DOMAIN ui.rows : ui.rows[i] = "blank"}
            IN IF blank = {} THEN 1
               ELSE CHOOSE i \in blank : \A j \in blank : i >= j
PickMetric ==
  /\ ui.names # None
  /\ IF ui.mode = "promql"
     THEN ui.expr # "two" /\ SetExpr("two", "metric")
     ELSE LET to == IF ui.rows[BlankRow] = "complete" THEN "complete"
                    ELSE "metric" IN
          Edit([ui EXCEPT !.rows[BlankRow] = to])
RefreshNames == /\ ~ui.namesLoading /\ ui.starts < MaxStarts
                /\ ui' = [BeginNames(ui) EXCEPT !.starts = @ + 1]
                /\ Begin("names", "names", NamesArg(ui))
                /\ UNCHANGED srv
(* The builder: there is always a row. *)
AddRow == /\ ui.mode = "builder" /\ Len(ui.rows) < MaxRows
          /\ Edit([ui EXCEPT !.rows = Append(@, "blank")])
UpdateRow(i, row) ==
  /\ ui.mode = "builder" /\ i \in DOMAIN ui.rows /\ row # ui.rows[i]
  /\ Edit(Composed([ui EXCEPT !.rows[i] = row]))
RemoveRow(i) ==
  /\ ui.mode = "builder" /\ i \in DOMAIN ui.rows
  /\ Edit(Composed([ui EXCEPT !.rows = IF Len(@) = 1 THEN <<"blank">>
                                       ELSE RemoveAt(@, i)]))

-----------------------------------------------------------------------------
(* The reads. *)
ServeNames(n) == /\ Waiting(n)
                 /\ \E st \in {"ok", "failed"} :
                      Reply(n, st, srv[net[n].arg.scope])
                 /\ UNCHANGED <<ui, srv>>
(* The names have come: those of a scope that has none leave the editor    *)
(* without names, so that its effect loads them again (its new number is   *)
(* left out here: no other load is open).                                  *)
DeliverNames(n) ==
  LET t == net[n]
      v == [ui EXCEPT !.names = IF t.st = "ok" /\ t.ans THEN t.arg.scope
                                ELSE None,
                      !.namesError = t.st = "failed", !.namesLoading = FALSE] IN
  /\ Back(n)
  /\ IF t.arg.request # ui.request THEN UNCHANGED ui /\ Finish(n)
     ELSE IF LoadsNames(v)
     THEN /\ ui' = [BeginNames(v) EXCEPT !.request = ui.request]
          /\ Continue(n, "names", [t.arg EXCEPT !.scope = ui.scope])
     ELSE ui' = v /\ Finish(n)
  /\ UNCHANGED srv
DeliverLabels == /\ ui.labelsRead
                 /\ \E got \in {ui.scope, None} :
                      ui' = [ui EXCEPT !.labels = got, !.labelsRead = FALSE]
                 /\ UNCHANGED <<srv, net>>
(* Values that could not be read are kept as none, and not read again.     *)
DeliverValues == /\ ui.valuesRead
                 /\ ui' = [ui EXCEPT !.values = ui.scope, !.valuesRead = FALSE]
                 /\ UNCHANGED <<srv, net>>
EvaluateDue == /\ ui.preview = "due"
               /\ ui' = [ui EXCEPT !.preview = "sent", !.previewing = TRUE]
               /\ UNCHANGED <<srv, net>>
Evaluate == /\ ui.preview = "sent"
            /\ \E st \in {"ok", "failed"} : ui' = [ui EXCEPT !.preview = st]
            /\ UNCHANGED <<srv, net>>
(* Valid, invalid or failed: the preview is about the text evaluated.      *)
ShowPreview == /\ ui.preview \in {"ok", "failed"}
               /\ ui' = [ui EXCEPT !.shown = ui.expr, !.previewing = FALSE,
                                   !.preview = "idle"]
               /\ UNCHANGED <<srv, net>>
ShowLate == /\ ui.late # None
            /\ ui' = [ui EXCEPT !.shown = ui.late, !.previewing = FALSE,
                                !.late = None]
            /\ UNCHANGED <<srv, net>>

-----------------------------------------------------------------------------
Clicks == \/ PickMetric \/ RefreshNames \/ AddRow
          \/ \E s \in Scopes : ChooseScope(s)
          \/ \E mode \in {"promql", "builder"} : SetMode(mode)
          \/ \E e \in {"short", "one", "two"}, c \in Contexts : TypeExpr(e, c)
          \/ \E e \in {"one", "two"} : ApplySuggestion(e)
          \/ \E i \in 1..MaxRows : RemoveRow(i) \/ \E row \in Rows : UpdateRow(i, row)
Reads == \/ DeliverLabels \/ DeliverValues \/ EvaluateDue \/ Evaluate
         \/ ShowPreview \/ ShowLate
Next == Clicks \/ Reads \/ \E n \in Slots : ServeNames(n) \/ DeliverNames(n)

Fairness == /\ \A n \in Slots : WF_vars(ServeNames(n)) /\ WF_vars(DeliverNames(n))
            /\ WF_vars(EvaluateDue) /\ WF_vars(Evaluate) /\ WF_vars(ShowPreview)
Spec == Init /\ [][Next]_vars /\ Fairness

-----------------------------------------------------------------------------
(* Never are two loads of the metric names open: the effect and the button *)
(* both wait for the one that is.                                          *)
OneNamesLoad ==
  \A m, n \in Slots : net[m].st # "idle" /\ net[n].st # "idle" => m = n

(* A preview that shows that it is evaluating stops doing so, however the  *)
(* text, the scope and the mode change and whatever is given up.           *)
Busy == ui.previewing
=============================================================================
