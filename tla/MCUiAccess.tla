----------------------------- MODULE MCUiAccess -----------------------------
(* UiAccess with a bound on the accounts that share a browser, for TLC.    *)
EXTENDS UiAccess

(* Bound: of several accounts nobody has a second factor to set up or to   *)
(* give, nor a password to change.  All of it that loads the user is the   *)
(* refresh after the tour, which is the one the header sends.              *)
NoSetup == \A x \in Accounts : srv.mfa[x] = "off" /\ ~srv.needs[x]
MCInit == Init /\ (page = "accounts" => NoSetup)
MCSpec == MCInit /\ [][Next]_vars /\ Fairness
=============================================================================
