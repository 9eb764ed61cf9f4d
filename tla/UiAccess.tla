------------------------------ MODULE UiAccess ------------------------------
(***************************************************************************)
(* Who uses the web interface and with which key: the request function,    *)
(* the session and the API keys page.  A behaviour is of one of them,      *)
(* which `page' names.  The session comes with its lemmas, which           *)
(* UiAccessProofs cites for each of the two sessions.                      *)
(***************************************************************************)
EXTENDS Naturals, FiniteSets

CONSTANTS None,
          Callers, Calls, Tokens,  \* of the request function
          Account,                 \* who uses the browser alone
          Accounts,                \* who use it one after the other
          OidcEnabled, PasswordEnabled,
          Own, Foreign, First,     \* the keys of the API keys page
          Slots, MaxStarts, MaxExecuted,  \* bounds of the modules
          MaxInFlight,             \* bound: requests open at once
          Refreshers,              \* bound: which refreshes, one account
          RefreshersOfMany         \* bound: which refreshes, several accounts

VARIABLES page, ui, srv, net
vars == <<page, ui, srv, net>>

Api == INSTANCE UiApi
Session == INSTANCE UiSessionProofs WITH Accounts <- {Account}
(* Several accounts, one after the other in the same browser. *)
Switch == INSTANCE UiSessionProofs WITH Refreshers <- RefreshersOfMany
KeyPage == INSTANCE UiApiKeys

ASSUME ConstantsAssumption ==
  /\ Api!ConstantsFit /\ Session!ConstantsFit /\ Switch!ConstantsFit
  /\ KeyPage!ConstantsFit /\ KeyPage!BoundsFit

Init == \/ page = "api" /\ Api!Init
        \/ page = "session" /\ Session!Init
        \/ page = "accounts" /\ Switch!Init
        \/ page = "keys" /\ KeyPage!Init
Next == /\ UNCHANGED page
        /\ \/ page = "api" /\ Api!Next
           \/ page = "session" /\ Session!Next
           \/ page = "accounts" /\ Switch!Next
           \/ page = "keys" /\ KeyPage!Next

(* The fairness of the three modules, for the one the behaviour is of.     *)
(* Of several accounts nothing is asked but safety.                        *)
Requests(c) == page = "api" /\ Api!Progress(c) /\ UNCHANGED page
SessionServes(o) == /\ page = "session" /\ UNCHANGED page
                    /\ \E res \in Session!Results : Session!Answer(o, res)
SessionLists(o) == /\ page = "session" /\ UNCHANGED page
                   /\ \E listed \in BOOLEAN : Session!AnswerKeys(o, listed)
SessionDelivers(o) ==
  page = "session" /\ Session!DeliverAnswer(o) /\ UNCHANGED page
Serves(n) == page = "keys" /\ KeyPage!ServeSlot(n) /\ UNCHANGED page
Delivers(n) == page = "keys" /\ KeyPage!DeliverSlot(n) /\ UNCHANGED page
Fairness == /\ \A c \in Callers : WF_vars(Requests(c))
            /\ \A o \in Session!Ops : /\ WF_vars(SessionServes(o))
                                      /\ WF_vars(SessionLists(o))
                                      /\ WF_vars(SessionDelivers(o))
            /\ \A n \in Slots : WF_vars(Serves(n)) /\ WF_vars(Delivers(n))
Spec == Init /\ [][Next]_vars /\ Fairness

-----------------------------------------------------------------------------
(* What each module says of its state's values. *)
TypeOK == /\ page \in {"api", "session", "accounts", "keys"}
          /\ page = "api" => Api!TypeOK
          /\ page = "session" => Session!TypeOK
          /\ page = "accounts" => Switch!TypeOK
          /\ page = "keys" => KeyPage!TypeOK

(* request() of api.js repeats no write behind its caller's back, however  *)
(* its attempts end.                                                       *)
WriteExecutedOnce == page = "api" => Api!WriteExecutedOnce

(* AuthContext sends queries with the scope of the account signed in,      *)
(* though user and scope come with two answers: only somebody who signs in *)
(* between these can mix them.                                             *)
ScopeFollowsUser == /\ page = "session" => Session!ScopeFollowsUser
                    /\ page = "accounts" => Switch!ScopeFollowsUser

(* The OIDC callback can still take the second factor it asks for.         *)
MfaRetryPossible == /\ page = "session" => Session!MfaRetryPossible
                    /\ page = "accounts" => Switch!MfaRetryPossible

(* Nobody who must change the password works before the form, the tour or  *)
(* the refresh after them; one account alone: the effect of App does not   *)
(* see one user follow another without a signed-out moment between them.   *)
NoWorkBeforePasswordChange ==
  page = "session" => Session!NoWorkBeforePasswordChange

(* Nothing keeps waiting: requests settle, the loading screen goes, and    *)
(* forms that show that they save stop doing so.  The session is that of   *)
(* one account.                                                            *)
Busy == \/ page = "api" /\ Api!Busy
        \/ page = "session" /\ Session!Busy
        \/ page = "keys" /\ KeyPage!Busy
BusyEnds == Busy ~> ~Busy
=============================================================================
