------------------------------- MODULE UiPage -------------------------------
(***************************************************************************)
(* What the page modules of the web interface share.  `ui' is the React    *)
(* state of one page in one browser tab, `srv' what the services keep,     *)
(* `net' the asynchronous handlers of the page that are at an await.  A    *)
(* handler runs to its next await in one action; the service answers it in *)
(* another (Reply), and a third continues the handler with what was read   *)
(* then, however old it has become (Finish or Continue).                   *)
(***************************************************************************)
EXTENDS Naturals, FiniteSets

CONSTANTS None,       \* nothing: no row, no answer
          Slots,      \* bound: handlers that wait at one time, 1..n
          MaxStarts   \* bound: handlers the user starts

(* What the module takes for granted of its constants.  The first load of  *)
(* a page takes slot 1.                                                    *)
BoundsFit == /\ Slots \subseteq Nat /\ 1 \in Slots
             /\ IsFiniteSet(Slots)
             /\ MaxStarts \in Nat

VARIABLES ui, srv, net
vars == <<ui, srv, net>>

(* A handler at an await: its name, what it awaits, and the values its     *)
(* closure captured when it began.                                         *)
Task(op, stage, arg) ==
  [op |-> op, stage |-> stage, st |-> "sent", arg |-> arg, ans |-> None]
NoTask == [op |-> "none", stage |-> "none", st |-> "idle", arg |-> None,
           ans |-> None]
Quiet == [i \in Slots |-> NoTask]

Free == {i \in Slots : net[i].st = "idle"}
FirstFree == CHOOSE i \in Free : \A j \in Free : i <= j
Running(op) == \E i \in Slots : net[i].st # "idle" /\ net[i].op = op
Settled == Free = Slots

Begin(op, stage, arg) ==
  /\ Free # {}
  /\ net' = [net EXCEPT ![FirstFree] = Task(op, stage, arg)]
(* The user starts a handler: what it sets before its first await is u.    *)
Start(u, op, stage, arg) == /\ ui.starts < MaxStarts
                            /\ ui' = [u EXCEPT !.starts = @ + 1]
                            /\ Begin(op, stage, arg)
                            /\ UNCHANGED srv
Finish(i) == net' = [net EXCEPT ![i] = NoTask]
Continue(i, stage, arg) == net' = [net EXCEPT ![i] = Task(@.op, stage, arg)]

(* requestJson resolves with the answer or rejects. *)
Waiting(i) == net[i].st = "sent"
Reply(i, st, ans) ==
  net' = [net EXCEPT ![i] = [@ EXCEPT !.st = st, !.ans = ans]]
Back(i) == net[i].st \notin {"idle", "sent"}
=============================================================================
