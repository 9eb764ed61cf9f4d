----------------------------- MODULE UiKeyShares -----------------------------
(***************************************************************************)
(* The sharing dialog of the API keys page (pages/ApiKeyPage.jsx): the     *)
(* users and groups it offers, which are listed once, the ticks, which a   *)
(* group's members share with their group, and the saving of them.         *)
(***************************************************************************)
EXTENDS UiPage

CONSTANTS Keys, Default,    \* the user's keys; the default one is not shared
          Users,            \* the other users
          Groups, Members   \* the user's groups, and whom of them each has

(* What the module takes for granted of its constants. *)
ConstantsFit == /\ Default \in Keys
                /\ Members \in [Groups -> SUBSET Users]

Tabs == {"groups", "users"}
Asks == [key : Keys, with : SUBSET Users, groups : SUBSET Groups,
         usersKnown : BOOLEAN, groupsKnown : BOOLEAN]

(* `usersKnown' and `groupsKnown' say that allUsers and allGroups are not  *)
(* empty, `byHand' is the history of the users ticked one by one since the *)
(* dialog opened, `shown' the shared_with of the keys listed.              *)
UiType == [usersKnown : BOOLEAN, groupsKnown : BOOLEAN,
           dialog : Keys \cup {None}, tab : Tabs, users : SUBSET Users,
           groups : SUBSET Groups, byHand : SUBSET Users,
           shown : [Keys -> SUBSET Users], loading : BOOLEAN,
           starts : 0..MaxStarts]
SrvType == [Keys -> SUBSET Users]
TypeOK == /\ ui \in UiType /\ srv \in SrvType
          /\ \A n \in Slots : net[n].st # "idle" => net[n].arg \in Asks

Init == /\ srv \in {s \in [Keys -> SUBSET Users] : s[Default] = {}}
        /\ ui = [usersKnown |-> FALSE, groupsKnown |-> FALSE, dialog |-> None,
                 tab |-> "groups", users |-> {}, groups |-> {}, byHand |-> {},
                 shown |-> srv, loading |-> FALSE, starts |-> 0]
        /\ net = Quiet

-----------------------------------------------------------------------------
(* The service: a key is shared with the users and the members of groups.  *)
Shared(users, groups) == users \cup UNION {Members[g] : g \in groups}
Serve(n) ==
  LET t == net[n] IN
  /\ Waiting(n)
  /\ \/ /\ srv' = IF t.stage = "save"
                  THEN [srv EXCEPT ![t.arg.key] = Shared(t.arg.with, t.arg.groups)]
                  ELSE srv
        /\ \E st \in {"ok", "failed"} : Reply(n, st, srv)
     \/ UNCHANGED srv /\ Reply(n, "failed", None)
  /\ UNCHANGED ui

-----------------------------------------------------------------------------
(* inferSelectedGroupsFromShares: the groups each of whose members, of     *)
(* whom there is one at least, has the key, as far as they are known.      *)
Inferred(a) == {g \in Groups : /\ a.usersKnown /\ a.groupsKnown
                               /\ Members[g] # {} /\ Members[g] \subseteq a.with}
(* The dialog opens on the shares listed when its button was pressed.      *)
Opened(u, a) == [u EXCEPT !.dialog = a.key, !.tab = "groups", !.users = a.with,
                          !.groups = Inferred(a), !.byHand = {}]

(* openShareModal lists the users and then the groups where it knows none. *)
OpenShare(k) ==
  LET a == [key |-> k, with |-> ui.shown[k], groups |-> {},
            usersKnown |-> ui.usersKnown, groupsKnown |-> ui.groupsKnown] IN
  /\ ui.dialog = None /\ k # Default
  /\ IF ui.usersKnown /\ ui.groupsKnown
     THEN ui' = Opened(ui, a) /\ UNCHANGED <<srv, net>>
     ELSE Start(ui, "open", IF ui.usersKnown THEN "groups" ELSE "users", a)
(* A listing that fails counts as empty. *)
DeliverUsers(n) ==
  LET got == net[n].st = "ok"
      a == [net[n].arg EXCEPT !.usersKnown = got]
      u == [ui EXCEPT !.usersKnown = got] IN
  /\ Back(n) /\ net[n].stage = "users"
  /\ IF a.groupsKnown THEN ui' = Opened(u, a) /\ Finish(n)
     ELSE ui' = u /\ Continue(n, "groups", a)
  /\ UNCHANGED srv
DeliverGroups(n) ==
  LET got == net[n].st = "ok" IN
  /\ Back(n) /\ net[n].stage = "groups"
  /\ ui' = Opened([ui EXCEPT !.groupsKnown = got],
                  [net[n].arg EXCEPT !.groupsKnown = got])
  /\ Finish(n) /\ UNCHANGED srv

-----------------------------------------------------------------------------
(* The ticks. *)
In(tab) == ui.dialog # None /\ ui.tab = tab
Edit(u) == ui' = u /\ UNCHANGED <<srv, net>>
SetTab(tab) == ui.dialog # None /\ tab # ui.tab /\ Edit([ui EXCEPT !.tab = tab])

(* getGroupMemberUserIds, of the users listed. *)
MemberIds(g) == IF ui.usersKnown THEN Members[g] ELSE {}
(* A group that is ticked ticks its members; one that is unticked unticks  *)
(* those that no other ticked group has.                                   *)
Covered(groups) == UNION {MemberIds(g) : g \in groups}
Uncovered(groups) == {}
Kept(groups) == Covered(groups)
ToggleShareGroup(g) ==
  LET rest == ui.groups \ {g} IN
  /\ In("groups") /\ ui.groupsKnown
  /\ Edit(IF g \notin ui.groups
          THEN [ui EXCEPT !.groups = @ \cup {g}, !.users = @ \cup MemberIds(g)]
          ELSE [ui EXCEPT !.groups = rest,
                          !.users = @ \ (MemberIds(g) \ Kept(rest))])
ToggleUser(x) ==
  /\ In("users") /\ ui.usersKnown
  /\ Edit([ui EXCEPT !.users = IF x \in @ THEN @ \ {x} ELSE @ \cup {x},
                     !.byHand = @ \cup {x}])
Closed(u) == [u EXCEPT !.dialog = None, !.groups = {}, !.tab = "groups"]
Cancel == ui.dialog # None /\ Edit(Closed(ui))

-----------------------------------------------------------------------------
(* handleSaveShares, and the refresh at its end; it closes the dialog of   *)
(* whatever key is open by then.                                           *)
SaveShares ==
  /\ ui.dialog # None /\ ~ui.loading
  /\ Start([ui EXCEPT !.loading = TRUE], "save", "save",
           [key |-> ui.dialog, with |-> ui.users, groups |-> ui.groups,
            usersKnown |-> ui.usersKnown, groupsKnown |-> ui.groupsKnown])
DeliverSave(n) ==
  LET t == net[n] IN
  /\ Back(n) /\ t.stage = "save"
  /\ IF t.st = "ok" THEN UNCHANGED ui /\ Continue(n, "read", t.arg)
     ELSE ui' = [ui EXCEPT !.loading = FALSE] /\ Finish(n)
  /\ UNCHANGED srv
DeliverRead(n) ==
  LET t == net[n] IN
  /\ Back(n) /\ t.stage = "read"
  /\ ui' = IF t.st = "ok"
           THEN [ui EXCEPT !.loading = FALSE, !.shown = t.ans, !.dialog = None,
                           !.users = {}, !.groups = {}]
           ELSE [ui EXCEPT !.loading = FALSE]
  /\ Finish(n) /\ UNCHANGED srv

-----------------------------------------------------------------------------
Clicks == \/ Cancel \/ SaveShares
          \/ \E k \in Keys : OpenShare(k)
          \/ \E tab \in Tabs : SetTab(tab)
          \/ \E g \in Groups : ToggleShareGroup(g)
          \/ \E x \in Users : ToggleUser(x)
DeliverSlot(n) == \/ DeliverUsers(n) \/ DeliverGroups(n)
                  \/ DeliverSave(n) \/ DeliverRead(n)
Next == Clicks \/ \E n \in Slots : Serve(n) \/ DeliverSlot(n)

Fairness == \A n \in Slots : WF_vars(Serve(n)) /\ WF_vars(DeliverSlot(n))
Spec == Init /\ [][Next]_vars /\ Fairness

-----------------------------------------------------------------------------
(* The dialog never shows a group ticked and a member of it unticked, but  *)
(* for members ticked by hand: saving shares the key with every member of  *)
(* a ticked group, so that a missing tick would hide who gets it.          *)
TicksCovered ==
  ui.dialog # None /\ ui.usersKnown /\ ~Running("open") =>
    Shared({}, ui.groups) \ ui.byHand \subseteq ui.users

(* The dialog stops showing that it saves. *)
Busy == ui.loading
=============================================================================
