------------------------- MODULE ResolverReadsProofs -------------------------
(***************************************************************************)
(* Safety of request_json for a cacheable GET, with and without Redis, for *)
(* any number of attempts.  That an attempt gets past the second look is   *)
(* left to TLC.                                                            *)
(***************************************************************************)
EXTENDS ResolverReads, TLAPS

\* _read_inflight_lock is held from the second look to the registration.
LockHeld == \A c \in Calls : lock = c <=> call[c] \in {"locked", "blank"}

\* Without Redis nothing suspends but the upstream and a wait.
LocalNeverSuspends ==
    ~remote => \A c \in Calls :
        call[c] \notin {"missed", "locked", "blank", "storing", "stored", "closing"}

(***************************************************************************)
(* A value that came after the second look was sent by an attempt that     *)
(* cannot remove its entry before the lock is free.                        *)
(***************************************************************************)
MissedIsInflight ==
    \A c \in Calls : call[c] = "blank" => cached = NoCall \/ inflight # NoCall

(***************************************************************************)
(* Where an attempt is tells what became of its future and its entry: it   *)
(* has neither before it is the owner, and a successful one has resolved   *)
(* the future before it removes the entry.                                 *)
(***************************************************************************)
Shape ==
    \A c \in Calls :
        /\ call[c] \in {"new", "missed", "locked", "blank", "waiting"}
             => future[c] = "none" /\ inflight # c
        /\ call[c] = "returned" => future[c] # "open" /\ inflight # c
        /\ call[c] = "closing" /\ ending[c] = "returned" => future[c] # "open"

IInv == /\ TypeOK /\ LockHeld /\ LocalNeverSuspends /\ OneUpstream
        /\ MissedIsInflight /\ NoNeedlessFetch /\ Shape

LEMMA InitIInv == Init => IInv
<1> SUFFICES ASSUME Init PROVE IInv
  OBVIOUS
<1> USE NoCallAssumption DEF Init
<1>1. TypeOK
  BY DEF TypeOK, CallStates, FutureStates, Ends
<1>2. LockHeld /\ LocalNeverSuspends /\ OneUpstream /\ MissedIsInflight /\ NoNeedlessFetch
  BY DEF LockHeld, LocalNeverSuspends, OneUpstream, Owns, MissedIsInflight, NoNeedlessFetch
<1>3. Shape
  BY DEF Shape
<1> QED BY <1>1, <1>2, <1>3 DEF IInv

(***************************************************************************)
(* Registering keeps the invariant, when the attempt has just missed the   *)
(* cache and the entry it finds, or not, has not been removed since.       *)
(***************************************************************************)
LEMMA RegisterStep ==
  ASSUME IInv, NEW c \in Calls, call[c] \in {"new", "blank"},
         inflight = NoCall => cached = NoCall,
         Register(c), UNCHANGED <<remote, cached, ending>>,
         lock' = IF lock = c THEN NoCall ELSE lock
  PROVE  IInv'
<1> USE NoCallAssumption DEF IInv, Goes
<1>1. CASE inflight = NoCall
  <2>1. /\ inflight' = c
        /\ future' = [future EXCEPT ![c] = "open"]
        /\ call' = [call EXCEPT ![c] = "fetching"]
        /\ joined' = joined
    BY <1>1 DEF Register, NothingInflight, SomeInflight
  <2>2. TypeOK'
    BY <2>1 DEF TypeOK, CallStates, FutureStates
  <2>3. LockHeld' /\ LocalNeverSuspends'
    BY <2>1 DEF LockHeld, LocalNeverSuspends, TypeOK
  <2>4. OneUpstream' /\ MissedIsInflight' /\ NoNeedlessFetch'
    BY <2>1, <1>1 DEF OneUpstream, MissedIsInflight, NoNeedlessFetch, Owns, TypeOK
  <2>5. Shape'
    BY <2>1, <1>1 DEF Shape, TypeOK
  <2> QED BY <2>2, <2>3, <2>4, <2>5
<1>2. CASE inflight # NoCall
  <2>1. /\ inflight' = inflight /\ future' = future
        /\ call' = [call EXCEPT ![c] = "waiting"]
        /\ joined' = [joined EXCEPT ![c] = inflight]
    BY <1>2 DEF Register, NothingInflight, SomeInflight
  <2>2. TypeOK'
    BY <2>1, <1>2 DEF TypeOK, CallStates, FutureStates
  <2>3. LockHeld' /\ LocalNeverSuspends'
    BY <2>1 DEF LockHeld, LocalNeverSuspends, TypeOK
  <2>4. OneUpstream' /\ MissedIsInflight' /\ NoNeedlessFetch'
    BY <2>1, <1>2 DEF OneUpstream, MissedIsInflight, NoNeedlessFetch, Owns, TypeOK
  <2>5. Shape'
    BY <2>1, <1>2 DEF Shape, TypeOK
  <2> QED BY <2>2, <2>3, <2>4, <2>5
<1> QED BY <1>1, <1>2

(***************************************************************************)
(* The owner ends, and removes its entry at once or waits for the lock: it *)
(* has resolved its future if it says that it succeeded.                   *)
(***************************************************************************)
LEMMA CloseStep ==
  ASSUME IInv, NEW c \in Calls, call[c] \in {"fetching", "storing", "stored"},
         NEW end \in Ends, Close(c, end),
         \E f \in FutureStates : /\ future' = [future EXCEPT ![c] = f]
                                 /\ end = "returned" => f # "open",
         cached' = cached \/ (~remote /\ cached' = c),
         UNCHANGED <<remote, lock, joined>>
  PROVE  IInv'
<1> USE NoCallAssumption DEF IInv, Goes
<1>0. inflight = c /\ lock # c
  BY DEF OneUpstream, Owns, LockHeld
<1>a. PICK f \in FutureStates : /\ future' = [future EXCEPT ![c] = f]
                                /\ end = "returned" => f # "open"
  OBVIOUS
<1>1. CASE lock = NoCall
  <2>1. /\ inflight' = NoCall /\ ending' = ending
        /\ call' = [call EXCEPT ![c] = end]
    BY <1>1 DEF Close, LockFree
  <2>2. TypeOK'
    BY <1>a, <2>1 DEF TypeOK, CallStates, Ends
  <2>3. LockHeld' /\ LocalNeverSuspends'
    BY <2>1, <1>1 DEF LockHeld, LocalNeverSuspends, TypeOK, Ends
  <2>4. OneUpstream' /\ NoNeedlessFetch'
    BY <2>1, <1>0 DEF OneUpstream, NoNeedlessFetch, Owns, TypeOK, Ends
  <2>5. MissedIsInflight'
    BY <2>1, <1>1 DEF LockHeld, MissedIsInflight, TypeOK, Ends
  <2>6. Shape'
    BY <1>a, <2>1, <1>0 DEF Shape, TypeOK, Ends
  <2> QED BY <2>2, <2>3, <2>4, <2>5, <2>6
<1>2. CASE lock # NoCall
  <2>1. /\ inflight' = inflight
        /\ call' = [call EXCEPT ![c] = "closing"]
        /\ ending' = [ending EXCEPT ![c] = end]
    BY <1>2 DEF Close, LockFree
  <2>2. remote
    BY <1>2 DEF LockHeld, LocalNeverSuspends, TypeOK
  <2>3. TypeOK'
    BY <1>a, <2>1 DEF TypeOK, CallStates, Ends
  <2>4. LockHeld' /\ LocalNeverSuspends'
    BY <2>1, <2>2 DEF LockHeld, LocalNeverSuspends, TypeOK
  <2>5. OneUpstream' /\ MissedIsInflight' /\ NoNeedlessFetch'
    BY <2>1, <2>2, <1>0 DEF OneUpstream, MissedIsInflight, NoNeedlessFetch, Owns, TypeOK
  <2>6. Shape'
    BY <1>a, <2>1, <1>0 DEF Shape, TypeOK, Ends
  <2> QED BY <2>3, <2>4, <2>5, <2>6
<1> QED BY <1>1, <1>2
(***************************************************************************)
(* An attempt that is not at its lookup moves, or ends, and leaves cache,  *)
(* entry and futures as they are.                                          *)
(***************************************************************************)
LEMMA MoveStep ==
  ASSUME IInv, NEW c \in Calls, NEW s,
         \/ s = "returned" /\ call[c] \in {"new", "locked", "waiting"}
         \/ s = "missed" /\ call[c] = "new" /\ remote
         \/ s = "locked" /\ call[c] = "missed"
         \/ s = "blank" /\ call[c] = "locked" /\ cached = NoCall
         \/ s = "storing" /\ call[c] = "fetching" /\ remote
         \/ s = "raised" /\ call[c] \in {"waiting", "fetching"}
         \/ s = "cancelled" /\ call[c] \in {"missed", "locked", "blank", "waiting",
                                            "fetching", "closing"},
         Goes(c, s),
         UNCHANGED <<remote, cached, inflight, ending, joined>>,
         \/ future' = future
         \/ /\ \E f \in FutureStates : f # "open" /\ future' = [future EXCEPT ![c] = f]
            /\ call[c] = "fetching" /\ s = "raised",
         lock' = IF s \in {"locked", "blank"} THEN c
                 ELSE IF lock = c THEN NoCall ELSE lock,
         s = "locked" => lock = NoCall
  PROVE  IInv'
<1> USE NoCallAssumption DEF IInv
<1>1. /\ call' = [call EXCEPT ![c] = s]
      /\ s \in CallStates
  BY DEF Goes, CallStates, Ends
<1>2. TypeOK'
  BY <1>1 DEF TypeOK
<1>3. LockHeld'
  BY <1>1 DEF LockHeld, TypeOK
<1>4. LocalNeverSuspends'
  BY <1>1 DEF LocalNeverSuspends, TypeOK
<1>5. OneUpstream' /\ MissedIsInflight' /\ NoNeedlessFetch'
  BY <1>1 DEF OneUpstream, MissedIsInflight, NoNeedlessFetch, Owns, TypeOK
<1>6. Shape'
  BY <1>1 DEF Shape, TypeOK
<1> QED BY <1>2, <1>3, <1>4, <1>5, <1>6

LEMMA LookupStep ==
  ASSUME IInv, NEW c \in Calls, Read(c) \/ Lookup(c)
  PROVE  IInv'
<1>0. lock = c <=> call[c] \in {"locked", "blank"}
  BY DEF IInv, LockHeld
<1>1. CASE Read(c)
  <2>1. call[c] = "new" /\ UNCHANGED <<remote, cached, lock, ending>>
    BY <1>1 DEF Read
  <2>2. CASE Register(c) /\ cached = NoCall
    BY <1>0, <2>1, <2>2, RegisterStep
  <2>3. CASE Goes(c, "returned") /\ UNCHANGED <<inflight, future, joined>>
    BY <1>0, <2>1, <2>3, MoveStep
  <2>4. CASE remote /\ Goes(c, "missed") /\ UNCHANGED <<inflight, future, joined>>
    BY <1>0, <2>1, <2>4, MoveStep
  <2> QED BY <1>1, <2>2, <2>3, <2>4 DEF Read
<1>2. CASE Acquire(c)
  BY <1>0, <1>2, MoveStep DEF Acquire
<1>3. CASE Reread(c)
  <2>1. CASE cached = NoCall
    BY <1>0, <1>3, <2>1, MoveStep DEF Reread
  <2>2. CASE cached # NoCall
    BY <1>0, <1>3, <2>2, MoveStep DEF Reread
  <2> QED BY <2>1, <2>2
<1>4. CASE Enter(c)
  BY <1>0, <1>4, RegisterStep DEF Enter, IInv, MissedIsInflight
<1> QED BY <1>1, <1>2, <1>3, <1>4 DEF Lookup

LEMMA OwnerStep ==
  ASSUME IInv, NEW c \in Calls,
         \/ Fetch(c) \/ Write(c) \/ Stored(c) \/ StoreError(c)
  PROVE  IInv'
<1>0. /\ lock = c <=> call[c] \in {"locked", "blank"}
      /\ future \in [Calls -> FutureStates]
      /\ {"returned", "raised", "cancelled"} = Ends
      /\ "open" \in FutureStates
  BY DEF IInv, LockHeld, TypeOK, Ends, FutureStates
<1>1. ASSUME NEW outcome \in {"value", "error"}, Resolve(c, outcome)
      PROVE  \E f \in FutureStates : f # "open" /\ future' = [future EXCEPT ![c] = f]
  <2>1. future' = [future EXCEPT ![c] = IF future[c] = "open" THEN outcome ELSE future[c]]
    BY <1>0, <1>1 DEF Resolve
  <2>2. outcome \in FutureStates /\ outcome # "open" /\ future[c] \in FutureStates
    BY <1>0 DEF FutureStates
  <2> QED BY <2>1, <2>2
<1>2. CASE Succeed(c) /\ remote
  BY <1>0, <1>2, MoveStep DEF Succeed
<1>3. CASE Succeed(c) /\ ~remote
  BY <1>0, <1>1, <1>3, CloseStep DEF Succeed
<1>4. CASE Write(c)
  <2>1. /\ call[c] = "storing" /\ cached' = c
        /\ call' = [call EXCEPT ![c] = "stored"]
        /\ UNCHANGED <<remote, lock, inflight, future, ending, joined>>
    BY <1>4 DEF Write, Goes
  <2>2. inflight = c
    BY <2>1 DEF IInv, OneUpstream, Owns
  <2> USE NoCallAssumption DEF IInv
  <2>3. TypeOK'
    BY <2>1 DEF TypeOK, CallStates
  <2>4. LockHeld' /\ LocalNeverSuspends'
    BY <2>1 DEF LockHeld, LocalNeverSuspends, TypeOK
  <2>5. OneUpstream' /\ MissedIsInflight' /\ NoNeedlessFetch'
    BY <2>1, <2>2 DEF OneUpstream, MissedIsInflight, NoNeedlessFetch, Owns, TypeOK
  <2>6. Shape'
    BY <2>1 DEF Shape, TypeOK
  <2> QED BY <2>3, <2>4, <2>5, <2>6
<1>5. CASE Stored(c)
  BY <1>0, <1>1, <1>5, CloseStep DEF Stored, ResolveValue
<1>6. CASE StoreError(c)
  <2>1. \E f \in FutureStates : future' = [future EXCEPT ![c] = f]
    BY <1>0, <1>6 DEF StoreError
  <2> QED BY <1>0, <1>6, <2>1, CloseStep DEF StoreError
<1>7. CASE BadJson(c)
  BY <1>0, <1>1, <1>7, CloseStep DEF BadJson
<1>8. CASE UpstreamError(c)
  BY <1>0, <1>1, <1>8, MoveStep DEF UpstreamError
<1>9. CASE OwnFailure(c)
  BY <1>0, <1>9, MoveStep DEF OwnFailure
<1> QED BY <1>2, <1>3, <1>4, <1>5, <1>6, <1>7, <1>8, <1>9 DEF Fetch

LEMMA RemovedStep ==
  ASSUME IInv, NEW c \in Calls, Removed(c)
  PROVE  IInv'
<1> USE NoCallAssumption DEF IInv
<1>1. /\ call[c] = "closing" /\ lock = NoCall /\ inflight' = NoCall
      /\ call' = [call EXCEPT ![c] = ending[c]]
      /\ UNCHANGED <<remote, cached, lock, future, ending, joined>>
  BY DEF Removed, Goes
<1>2. inflight = c /\ ending[c] \in Ends
  BY <1>1 DEF OneUpstream, Owns, TypeOK
<1>3. TypeOK'
  BY <1>1, <1>2 DEF TypeOK, CallStates, Ends
<1>4. LockHeld' /\ LocalNeverSuspends'
  BY <1>1, <1>2 DEF LockHeld, LocalNeverSuspends, TypeOK, Ends
<1>5. OneUpstream' /\ NoNeedlessFetch'
  BY <1>1, <1>2 DEF OneUpstream, NoNeedlessFetch, Owns, TypeOK, Ends
<1>6. MissedIsInflight'
  BY <1>1, <1>2 DEF LockHeld, MissedIsInflight, TypeOK, Ends
<1>7. Shape'
  BY <1>1, <1>2 DEF Shape, TypeOK, Ends
<1> QED BY <1>3, <1>4, <1>5, <1>6, <1>7

(***************************************************************************)
(* A cancelled waiter takes the future it awaits with it, which is not its *)
(* own; a cancelled owner removes its entry or waits to.                   *)
(***************************************************************************)
LEMMA CancelStep ==
  ASSUME IInv, NEW c \in Calls, Cancel(c)
  PROVE  IInv'
<1>0. /\ lock = c <=> call[c] \in {"locked", "blank"}
      /\ future \in [Calls -> FutureStates]
      /\ lock' = IF lock = c THEN NoCall ELSE lock
      /\ UNCHANGED <<remote, cached, joined>>
  BY DEF IInv, LockHeld, TypeOK, Cancel, Releases
<1>1. CASE /\ call[c] \in {"missed", "locked", "blank", "fetching", "closing"}
           /\ Goes(c, "cancelled")
           /\ UNCHANGED <<inflight, future, ending>>
  BY <1>0, <1>1, MoveStep
<1>2. CASE /\ call[c] \in {"storing", "stored"}
           /\ Close(c, "cancelled")
           /\ UNCHANGED future
  <2>1. \E f \in FutureStates : future' = [future EXCEPT ![c] = f]
    BY <1>0, <1>2
  <2>2. "cancelled" \in Ends /\ lock' = lock
    BY <1>0, <1>2 DEF Ends
  <2> QED BY <1>0, <1>2, <2>1, <2>2, CloseStep
<1>3. CASE /\ call[c] = "waiting"
           /\ Resolve(joined[c], "cancelled")
           /\ Goes(c, "cancelled")
           /\ UNCHANGED <<inflight, ending>>
  <2> USE NoCallAssumption DEF IInv
  <2> DEFINE g == joined[c]
             f == IF future[g] = "open" THEN "cancelled" ELSE future[g]
  <2>1. /\ g \in Calls
        /\ future' = [future EXCEPT ![g] = f]
        /\ call' = [call EXCEPT ![c] = "cancelled"]
        /\ lock' = lock
    BY <1>0, <1>3 DEF TypeOK, Resolve, Goes
  <2>2. f \in FutureStates /\ f # "open" /\ (future[g] = "none" => f = "none")
    BY <1>0, <2>1 DEF FutureStates
  <2> HIDE DEF f, g
  <2>3. TypeOK'
    BY <1>0, <1>3, <2>1, <2>2 DEF TypeOK, CallStates, Ends
  <2>4. LockHeld' /\ LocalNeverSuspends'
    BY <1>0, <1>3, <2>1 DEF LockHeld, LocalNeverSuspends, TypeOK
  <2>5. OneUpstream' /\ MissedIsInflight' /\ NoNeedlessFetch'
    BY <1>0, <1>3, <2>1 DEF OneUpstream, MissedIsInflight, NoNeedlessFetch, Owns, TypeOK
  <2>6. Shape'
    BY <1>0, <1>3, <2>1, <2>2 DEF Shape, TypeOK
  <2> QED BY <2>3, <2>4, <2>5, <2>6
<1> QED BY <1>1, <1>2, <1>3 DEF Cancel

LEMMA NextIInv == IInv /\ [Next]_vars => IInv'
<1> SUFFICES ASSUME IInv, [Next]_vars PROVE IInv'
  OBVIOUS
<1>1. ASSUME NEW c \in Calls, CallStep(c)
      PROVE  IInv'
  <2>1. CASE Wake(c)
    <3>1. /\ call[c] = "waiting" /\ \E e \in {"returned", "raised", "cancelled"} : Goes(c, e)
          /\ UNCHANGED <<remote, cached, lock, inflight, future, ending, joined>>
      BY <2>1 DEF Wake
    <3>2. lock # c
      BY <3>1 DEF IInv, LockHeld
    <3> QED BY <3>1, <3>2, MoveStep
  <2> QED BY <1>1, <2>1, LookupStep, OwnerStep, RemovedStep, CancelStep DEF CallStep
<1>2. CASE Expire
  BY <1>2 DEF Expire, IInv, TypeOK, LockHeld, LocalNeverSuspends, OneUpstream, Owns,
              MissedIsInflight, NoNeedlessFetch, Shape
<1>3. CASE UNCHANGED vars
  BY <1>3 DEF vars, IInv, TypeOK, LockHeld, LocalNeverSuspends, OneUpstream, Owns,
              MissedIsInflight, NoNeedlessFetch, Shape
<1> QED BY <1>1, <1>2, <1>3 DEF Next

LEMMA IInvHolds == Spec => []IInv
  BY InitIInv, NextIInv, PTL DEF Spec

(***************************************************************************)
(* The state of the shared reads keeps its types.                          *)
(***************************************************************************)
THEOREM TypeCorrect == Spec => []TypeOK
<1>1. IInv => TypeOK
  BY DEF IInv
<1> QED BY IInvHolds, <1>1, PTL

(***************************************************************************)
(* An attempt that asks the upstream is the one in _read_inflight until it *)
(* has removed its entry, so that two requests for one key never overlap.  *)
(***************************************************************************)
THEOREM OneUpstreamHolds == Spec => []OneUpstream
<1>1. IInv => OneUpstream
  BY DEF IInv
<1> QED BY IInvHolds, <1>1, PTL

(***************************************************************************)
(* Nothing is read from the upstream while the cache has the answer, with  *)
(* Redis too: the lock keeps an entry in place from the second look to the *)
(* registration.                                                           *)
(***************************************************************************)
THEOREM NoNeedlessFetchHolds == Spec => []NoNeedlessFetch
<1>1. IInv => NoNeedlessFetch
  BY DEF IInv
<1> QED BY IInvHolds, <1>1, PTL

(***************************************************************************)
(* An attempt that succeeded has left no entry in _read_inflight and no    *)
(* waiter on an open future.                                               *)
(***************************************************************************)
THEOREM SuccessLeavesNothingHolds == Spec => []SuccessLeavesNothing
<1>1. IInv => SuccessLeavesNothing
  BY DEF IInv, Shape, SuccessLeavesNothing
<1> QED BY IInvHolds, <1>1, PTL

=============================================================================
