---------------------------- MODULE UiOperations ----------------------------
(***************************************************************************)
(* The pages of the web interface on which the work is done: the sharing   *)
(* of keys, incidents, alerts, the rule editor, integrations and Grafana.  *)
(* A behaviour is one visit of one page, which `page' names.               *)
(***************************************************************************)
EXTENDS Naturals, FiniteSets

CONSTANTS None,
          Keys, DefaultKey, Active,      \* Active: the session's key
          Users, Groups, Members,        \* with whom keys are shared
          Incidents, IncidentVisibility, MayUpdate,
          Integrations, FirstIntegration, Assignees, Me, MayRead,
          Rules, Silences, MyAlerts,     \* MyAlerts: those the user created
          Teams, Labels,                 \* Teams: the groups of the user
          Channels, ChannelVisibility, ChannelGroups,
          Jiras, MyItems, TabOf,         \* the tab of channels and Jiras
          Dashboards, Datasources, Folders, Owned,
          DefaultDatasource, Syncable,
          Slots, MaxStarts,              \* bounds, as in UiPage
          MaxToolsStarts,                \* bound: integrations
          MaxGrafanaStarts,              \* bound: Grafana and its editor
          MaxRows,                       \* bound: rows of the query builder
          EditsInFlight                  \* bound: edits while a rule is saved

VARIABLES page, ui, srv, net
vars == <<page, ui, srv, net>>

Shares == INSTANCE UiKeyShares WITH Default <- DefaultKey
Board == INSTANCE UiIncidents WITH Visibility <- IncidentVisibility
Dialog == INSTANCE UiIncidentDialog WITH
  Default <- FirstIntegration, Users <- Assignees
Alerts == INSTANCE UiAlerts WITH Mine <- MyAlerts
Form == INSTANCE UiRuleForm WITH Scopes <- Keys, Groups <- Teams
Query == INSTANCE UiRuleQuery WITH Scopes <- Keys
Tools == INSTANCE UiIntegrations WITH
  Mine <- MyItems, Visibility <- TabOf, Groups <- Teams,
  MaxStarts <- MaxToolsStarts
Grafana == INSTANCE UiGrafana WITH
  Default <- DefaultDatasource, MaxStarts <- MaxGrafanaStarts
Editor == INSTANCE UiDashboardEditor WITH
  Groups <- Teams, MaxStarts <- MaxGrafanaStarts

ASSUME ConstantsAssumption ==
  /\ Shares!BoundsFit /\ Tools!BoundsFit /\ Grafana!BoundsFit
  /\ Shares!ConstantsFit /\ Board!ConstantsFit /\ Dialog!ConstantsFit
  /\ Alerts!ConstantsFit /\ Form!ConstantsFit /\ Query!ConstantsFit
  /\ Tools!ConstantsFit /\ Grafana!ConstantsFit /\ Editor!ConstantsFit

Init == \/ page = "shares" /\ Shares!Init
        \/ page = "board" /\ Board!Init
        \/ page = "dialog" /\ Dialog!Init
        \/ page = "alerts" /\ Alerts!Init
        \/ page = "form" /\ Form!Init
        \/ page = "query" /\ Query!Init
        \/ page = "tools" /\ Tools!Init
        \/ page = "grafana" /\ Grafana!Init
        \/ page = "editor" /\ Editor!Init
Next == /\ UNCHANGED page
        /\ \/ page = "shares" /\ Shares!Next
           \/ page = "board" /\ Board!Next
           \/ page = "dialog" /\ Dialog!Next
           \/ page = "alerts" /\ Alerts!Next
           \/ page = "form" /\ Form!Next
           \/ page = "query" /\ Query!Next
           \/ page = "tools" /\ Tools!Next
           \/ page = "grafana" /\ Grafana!Next
           \/ page = "editor" /\ Editor!Next

(* The fairness of the modules, for the one the behaviour is of: requests  *)
(* are answered or time out, and the browser runs what continues after an  *)
(* await, and the timers.                                                  *)
Serves(n) ==
  /\ UNCHANGED page
  /\ \/ page = "shares" /\ Shares!Serve(n)
     \/ page = "board" /\ Board!ServeSlot(n)
     \/ page = "dialog" /\ Dialog!Serve(n)
     \/ page = "alerts" /\ Alerts!ServeSlot(n)
     \/ page = "form" /\ Form!Serve(n)
     \/ page = "query" /\ Query!ServeNames(n)
     \/ page = "tools" /\ Tools!ServeSlot(n)
     \/ page = "grafana" /\ Grafana!ServeSlot(n)
     \/ page = "editor" /\ Editor!Serve(n)
Delivers(n) ==
  /\ UNCHANGED page
  /\ \/ page = "shares" /\ Shares!DeliverSlot(n)
     \/ page = "board" /\ Board!DeliverSlot(n)
     \/ page = "dialog" /\ Dialog!DeliverSlot(n)
     \/ page = "alerts" /\ Alerts!DeliverSlot(n)
     \/ page = "form" /\ Form!DeliverSlot(n)
     \/ page = "query" /\ Query!DeliverNames(n)
     \/ page = "tools" /\ Tools!DeliverSlot(n)
     \/ page = "grafana" /\ Grafana!DeliverSlot(n)
     \/ page = "editor" /\ Editor!DeliverSlot(n)
Previews == /\ page = "query" /\ UNCHANGED page
            /\ Query!EvaluateDue \/ Query!Evaluate \/ Query!ShowPreview
Fairness == /\ \A n \in Slots : WF_vars(Serves(n)) /\ WF_vars(Delivers(n))
            /\ WF_vars(Previews)
Spec == Init /\ [][Next]_vars /\ Fairness

-----------------------------------------------------------------------------
(* What each module says of its state's values. *)
TypeOK == /\ page \in {"shares", "board", "dialog", "alerts", "form", "query",
                      "tools", "grafana", "editor"}
          /\ page = "shares" => Shares!TypeOK
          /\ page = "board" => Board!TypeOK
          /\ page = "dialog" => Dialog!TypeOK
          /\ page = "alerts" => Alerts!TypeOK
          /\ page = "form" => Form!TypeOK
          /\ page = "query" => Query!TypeOK
          /\ page = "tools" => Tools!TypeOK
          /\ page = "grafana" => Grafana!TypeOK
          /\ page = "editor" => Editor!TypeOK

(* Pages that number their loads (loadData of the two hooks) show, once    *)
(* nothing is under way, what the service lists now: no load that was      *)
(* overtaken, and no list older than the page's own last write, but for a  *)
(* row of the board that the late answer of a note has put back.           *)
SettledListIsCurrent == /\ page = "board" => Board!SettledBoardIsCurrent
                        /\ page = "alerts" => Alerts!SettledListIsCurrent

(* The orders cards are dragged into fit what is listed, each card once,   *)
(* through loads, deletions, filters and a storage that fails.             *)
OrdersFit == /\ page = "alerts" => Alerts!OrderFitsRules
             /\ page = "tools" => Tools!OrderFitsItems
             /\ page = "grafana" => Grafana!OrderFitsCards

(* What the pages mean to run once at a time does: the ticket of an        *)
(* incident, the load of metric names, the timer that closes a question.   *)
OneAtATime == /\ page = "dialog" => Dialog!OneTicketAtATime
              /\ page = "query" => Query!OneNamesLoad
              /\ page = "tools" => Tools!TimerClosesItsOwn

(* Saving a rule makes one for each key, unless a request failed.          *)
RuleOncePerScope == page = "form" => Form!RuleOncePerScope

(* What a form would save fits what it shows: the channels the visibility  *)
(* of the rule, the ticked groups the ticked users; and a datasource is    *)
(* shared as a dashboard only after that was saved.                        *)
SavesFit == /\ page = "form" => Form!SavedChannelsFit
            /\ page = "shares" => Shares!TicksCovered
            /\ page = "editor" => Editor!SyncFollowsSave

(* No spinner turns and no button stays busy for ever.                     *)
Busy == \/ page = "shares" /\ Shares!Busy
        \/ page = "board" /\ Board!Busy
        \/ page = "dialog" /\ Dialog!Busy
        \/ page = "alerts" /\ Alerts!Busy
        \/ page = "form" /\ Form!Busy
        \/ page = "query" /\ Query!Busy
        \/ page = "tools" /\ Tools!Busy
        \/ page = "grafana" /\ Grafana!Busy
BusyEnds == Busy ~> ~Busy
=============================================================================
