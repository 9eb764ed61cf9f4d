--------------------------- MODULE TtlCacheProofs ---------------------------
(***************************************************************************)
(* Safety of TTLCache.get_or_set, and that it implements SharedFetch, for  *)
(* any number of calls.  That waiters are released is left to TLC.         *)
(***************************************************************************)
EXTENDS TtlCache, TLAPS

(***************************************************************************)
(* Where a call is tells what became of its future: a call that has not    *)
(* registered one has none, an owner's is open or was cancelled by a       *)
(* waiter, and an open one that is not an owner's was left by a            *)
(* cancellation.  Nobody is answered before the end of its call.           *)
(***************************************************************************)
Shape ==
    \A c \in Calls :
        /\ call[c] \in {"new", "missed"} => future[c] = "none" /\ joined[c] = NoCall
        /\ call[c] = "waiting" => future[c] = "none"
        /\ Owns(c) => future[c] \in {"open", "cancelled"}
        /\ future[c] = "open" => Owns(c) \/ call[c] = "cancelled"
        /\ call[c] \in {"new", "missed", "waiting"} \/ Owns(c) => answer[c] = NoCall

\* Only calls that talk to Redis are between a lookup and a registration.
LocalNeverSuspends ==
    ~remote => \A c \in Calls : call[c] \notin {"missed", "storing", "stored"}

IInv == TypeOK /\ OneFlight /\ Shape /\ LocalNeverSuspends /\ NoNeedlessFetch

LEMMA InitIInv == Init => IInv
  BY NoCallAssumption, Zenon
  DEF Init, IInv, TypeOK, OneFlight, Owns, Shape, LocalNeverSuspends, NoNeedlessFetch,
      CallStates, FutureStates

(***************************************************************************)
(* Registering keeps the invariant, when it is reached with no value in    *)
(* the cache or with a Redis.                                              *)
(***************************************************************************)
LEMMA RegisterStep ==
  ASSUME IInv, NEW c \in Calls, call[c] \in {"new", "missed"},
         remote \/ cached = NoCall,
         Register(c), UNCHANGED <<remote, cached, answer>>
  PROVE  IInv'
<1> USE NoCallAssumption DEF IInv, Goes
<1>1. CASE pending = NoCall
  <2>1. /\ pending' = c
        /\ future' = [future EXCEPT ![c] = "open"]
        /\ call' = [call EXCEPT ![c] = "fetching"]
        /\ joined' = joined
    BY <1>1 DEF Register, NothingPending, SomePending
  <2>2. TypeOK'
    BY <2>1 DEF TypeOK, CallStates, FutureStates
  <2>3. OneFlight'
    BY <2>1, <1>1 DEF OneFlight, Owns, TypeOK
  <2>4. Shape'
    BY <2>1 DEF Shape, Owns, TypeOK
  <2>5. LocalNeverSuspends' /\ NoNeedlessFetch'
    BY <2>1 DEF LocalNeverSuspends, NoNeedlessFetch, TypeOK
  <2> QED BY <2>2, <2>3, <2>4, <2>5
<1>2. CASE pending # NoCall
  <2>1. /\ pending' = pending
        /\ future' = future
        /\ call' = [call EXCEPT ![c] = "waiting"]
        /\ joined' = [joined EXCEPT ![c] = pending]
    BY <1>2 DEF Register, NothingPending, SomePending
  <2>2. TypeOK'
    BY <2>1, <1>2 DEF TypeOK, CallStates, FutureStates
  <2>3. OneFlight'
    BY <2>1 DEF OneFlight, Owns, TypeOK
  <2>4. Shape'
    BY <2>1 DEF Shape, Owns, TypeOK
  <2>5. LocalNeverSuspends' /\ NoNeedlessFetch'
    BY <2>1 DEF LocalNeverSuspends, NoNeedlessFetch, TypeOK
  <2> QED BY <2>2, <2>3, <2>4, <2>5
<1> QED BY <1>1, <1>2

(***************************************************************************)
(* However a flight ends, the invariant holds after it.                    *)
(***************************************************************************)
LEMMA SettleStep ==
  ASSUME IInv, NEW c \in Calls, Owns(c),
         NEW outcome \in {"value", "nothing", "error"},
         Settle(c, outcome), cached' \in {cached, c}
  PROVE  IInv'
<1> USE NoCallAssumption DEF IInv, Goes
<1>1. /\ pending' = NoCall
      /\ future' = [future EXCEPT ![c] = Outcome(c, outcome)]
      /\ remote' = remote
      /\ joined' = joined
      /\ pending = c
  BY DEF Settle, OneFlight
<1>2. \E e \in {"raised", "returned"} : call' = [call EXCEPT ![c] = e]
  BY DEF Settle
<1>3. answer' \in [Calls -> Calls \cup {NoCall}]
      /\ \A d \in Calls \ {c} : answer'[d] = answer[d]
  BY DEF Settle, TypeOK
<1>4. Outcome(c, outcome) \in {"value", "nothing", "error", "cancelled"}
  BY DEF Outcome, Shape
<1>5. TypeOK'
  BY <1>1, <1>2, <1>3, <1>4 DEF TypeOK, CallStates, FutureStates
<1>6. OneFlight'
  BY <1>1, <1>2 DEF OneFlight, Owns, TypeOK
<1>7. Shape'
  BY <1>1, <1>2, <1>3, <1>4 DEF Shape, Owns, TypeOK
<1>8. LocalNeverSuspends' /\ NoNeedlessFetch'
  BY <1>1, <1>2 DEF LocalNeverSuspends, NoNeedlessFetch, TypeOK
<1> QED BY <1>5, <1>6, <1>7, <1>8

LEMMA NextIInv ==
  ASSUME IInv, [Next]_vars
  PROVE  IInv'
<1> USE NoCallAssumption
<1>1. ASSUME NEW c \in Calls, Lookup(c)
      PROVE  IInv'
  <2>1. CASE cached # NoCall
    <3>1. /\ call[c] = "new"
          /\ call' = [call EXCEPT ![c] = "returned"]
          /\ answer' = [answer EXCEPT ![c] = cached]
          /\ UNCHANGED <<remote, cached, pending, future, joined>>
      BY <1>1, <2>1 DEF Lookup, Goes
    <3>2. TypeOK' /\ OneFlight'
      BY <3>1 DEF IInv, TypeOK, OneFlight, Owns, CallStates
    <3>3. Shape' /\ LocalNeverSuspends' /\ NoNeedlessFetch'
      BY <3>1 DEF IInv, TypeOK, Shape, Owns, LocalNeverSuspends, NoNeedlessFetch
    <3> QED BY <3>2, <3>3 DEF IInv
  <2>2. CASE cached = NoCall /\ remote
    <3>1. /\ call[c] = "new"
          /\ call' = [call EXCEPT ![c] = "missed"]
          /\ UNCHANGED <<remote, cached, pending, future, joined, answer>>
      BY <1>1, <2>2 DEF Lookup, Goes, LookupSuspends
    <3>2. TypeOK' /\ OneFlight'
      BY <3>1 DEF IInv, TypeOK, OneFlight, Owns, CallStates
    <3>3. Shape' /\ LocalNeverSuspends' /\ NoNeedlessFetch'
      BY <3>1, <2>2 DEF IInv, TypeOK, Shape, Owns, LocalNeverSuspends, NoNeedlessFetch
    <3> QED BY <3>2, <3>3 DEF IInv
  <2>3. CASE cached = NoCall /\ ~remote
    BY <1>1, <2>3, RegisterStep DEF Lookup, LookupSuspends
  <2> QED BY <2>1, <2>2, <2>3
<1>2. ASSUME NEW c \in Calls, Resume(c)
      PROVE  IInv'
  BY <1>2, RegisterStep DEF Resume, IInv, LocalNeverSuspends
<1>3. ASSUME NEW c \in Calls, FetchValue(c)
      PROVE  IInv'
  <2>1. CASE remote
    <3>1. /\ call[c] = "fetching"
          /\ call' = [call EXCEPT ![c] = "storing"]
          /\ UNCHANGED <<remote, cached, pending, future, joined, answer>>
      BY <1>3, <2>1 DEF FetchValue, Goes
    <3>2. TypeOK' /\ OneFlight'
      BY <3>1 DEF IInv, TypeOK, OneFlight, Owns, CallStates
    <3>3. Shape' /\ LocalNeverSuspends' /\ NoNeedlessFetch'
      BY <3>1, <2>1 DEF IInv, TypeOK, Shape, Owns, LocalNeverSuspends, NoNeedlessFetch
    <3> QED BY <3>2, <3>3 DEF IInv
  <2>2. CASE ~remote
    BY <1>3, <2>2, SettleStep DEF FetchValue, Owns, IInv, TypeOK
  <2> QED BY <2>1, <2>2
<1>4. ASSUME NEW c \in Calls, Write(c)
      PROVE  IInv'
  <2>1. /\ call[c] = "storing"
        /\ cached' = c
        /\ call' = [call EXCEPT ![c] = "stored"]
        /\ UNCHANGED <<remote, pending, future, joined, answer>>
    BY <1>4 DEF Write, Goes
  <2>2. TypeOK' /\ OneFlight'
    BY <2>1 DEF IInv, TypeOK, OneFlight, Owns, CallStates
  <2>3. Shape' /\ LocalNeverSuspends' /\ NoNeedlessFetch'
    BY <2>1 DEF IInv, TypeOK, Shape, Owns, LocalNeverSuspends, NoNeedlessFetch
  <2> QED BY <2>2, <2>3 DEF IInv
<1>5. ASSUME NEW c \in Calls, Stored(c) \/ FetchNothing(c) \/ FetchError(c)
      PROVE  IInv'
  BY <1>5, SettleStep DEF Stored, FetchNothing, FetchError, Owns
<1>6. ASSUME NEW c \in Calls, Wake(c)
      PROVE  IInv'
  <2>1. /\ call[c] = "waiting"
        /\ \E e \in {"returned", "raised", "cancelled"} : call' = [call EXCEPT ![c] = e]
        /\ joined[c] \in Calls
        /\ answer' \in {answer, [answer EXCEPT ![c] = joined[c]]}
        /\ UNCHANGED <<remote, cached, pending, future, joined>>
    BY <1>6 DEF Wake, Goes, IInv, TypeOK
  <2>2. TypeOK' /\ OneFlight'
    BY <2>1 DEF IInv, TypeOK, OneFlight, Owns, CallStates
  <2>3. Shape' /\ LocalNeverSuspends' /\ NoNeedlessFetch'
    BY <2>1 DEF IInv, TypeOK, Shape, Owns, LocalNeverSuspends, NoNeedlessFetch
  <2> QED BY <2>2, <2>3 DEF IInv
<1>7. ASSUME NEW c \in Calls, Cancel(c)
      PROVE  IInv'
  <2>1. CASE call[c] = "missed"
    <3>1. /\ call' = [call EXCEPT ![c] = "cancelled"]
          /\ UNCHANGED <<remote, cached, pending, future, joined, answer>>
      BY <1>7, <2>1 DEF Cancel, Goes
    <3> QED BY <3>1, <2>1 DEF IInv, TypeOK, OneFlight, Owns, CallStates, Shape,
                              LocalNeverSuspends, NoNeedlessFetch
  <2>2. CASE Owns(c)
    <3>1. /\ call' = [call EXCEPT ![c] = "cancelled"]
          /\ pending = c /\ pending' = NoCall
          /\ UNCHANGED <<remote, cached, future, joined, answer>>
      BY <1>7, <2>2 DEF Cancel, Goes, Owns, IInv, OneFlight
    <3>2. TypeOK' /\ OneFlight'
      BY <3>1 DEF IInv, TypeOK, OneFlight, Owns, CallStates
    <3>3. Shape' /\ LocalNeverSuspends' /\ NoNeedlessFetch'
      BY <3>1 DEF IInv, TypeOK, Shape, Owns, LocalNeverSuspends, NoNeedlessFetch
    <3> QED BY <3>2, <3>3 DEF IInv
  <2>3. CASE call[c] = "waiting"
    <3>1. /\ call' = [call EXCEPT ![c] = "cancelled"]
          /\ joined[c] \in Calls
          /\ future' = [future EXCEPT ![joined[c]] = IF @ = "open" THEN "cancelled" ELSE @]
          /\ UNCHANGED <<remote, cached, pending, joined, answer>>
      BY <1>7, <2>3 DEF Cancel, Goes, Owns, IInv, TypeOK
    <3>2. TypeOK' /\ OneFlight'
      BY <3>1, <2>3 DEF IInv, TypeOK, OneFlight, Owns, CallStates, FutureStates
    <3>3. Shape'
      BY <3>1, <2>3 DEF IInv, TypeOK, Shape, Owns
    <3>4. LocalNeverSuspends' /\ NoNeedlessFetch'
      BY <3>1 DEF IInv, TypeOK, LocalNeverSuspends, NoNeedlessFetch
    <3> QED BY <3>2, <3>3, <3>4 DEF IInv
  <2> QED BY <1>7, <2>1, <2>2, <2>3 DEF Cancel, Owns
<1>8. CASE Expire
  BY <1>8 DEF Expire, IInv, TypeOK, OneFlight, Owns, Shape, LocalNeverSuspends, NoNeedlessFetch
<1>9. CASE UNCHANGED vars
  BY <1>9 DEF vars, IInv, TypeOK, OneFlight, Owns, Shape, LocalNeverSuspends, NoNeedlessFetch
<1> QED
  BY <1>1, <1>2, <1>3, <1>4, <1>5, <1>6, <1>7, <1>8, <1>9 DEF Next, CallStep, Fetched

THEOREM IInvHolds == Spec => []IInv
<1>1. IInv /\ [Next]_vars => IInv'
  BY NextIInv
<1> QED BY InitIInv, <1>1, PTL DEF Spec

(***************************************************************************)
(* Every variable keeps its type; a waiter always waits for a call.        *)
(***************************************************************************)
THEOREM TypeCorrect == Spec => []TypeOK
<1>1. IInv => TypeOK
  BY DEF IInv
<1> QED BY IInvHolds, <1>1, PTL

(***************************************************************************)
(* Two flights never overlap and no flight leaves its future in _pending.  *)
(***************************************************************************)
THEOREM OneFlightHolds == Spec => []OneFlight
<1>1. IInv => OneFlight
  BY DEF IInv
<1> QED BY IInvHolds, <1>1, PTL

(***************************************************************************)
(* Without Redis nothing is fetched that the cache has.                    *)
(***************************************************************************)
THEOREM NoNeedlessFetchHolds == Spec => []NoNeedlessFetch
<1>1. IInv => NoNeedlessFetch
  BY DEF IInv
<1> QED BY IInvHolds, <1>1, PTL

(***************************************************************************)
(* Only a cancelled owner leaves a waiter on a future nobody resolves.     *)
(***************************************************************************)
THEOREM StrandedOnlyByCancelHolds == Spec => []StrandedOnlyByCancel
<1>1. IInv => StrandedOnlyByCancel
  BY DEF IInv, Shape, StrandedOnlyByCancel, TypeOK
<1> QED BY IInvHolds, <1>1, PTL
-----------------------------------------------------------------------------
(* Refinement *)

\* The fetch call c takes its answer from, as Promise maps it.
SourceOf(c) ==
    IF future[c] # "none" THEN c
    ELSE IF joined[c] # NoCall THEN joined[c]
    ELSE answer[c]

LEMMA PromiseInit == Init => Promise!Init
  BY NoCallAssumption DEF Init, Promise!Init

(***************************************************************************)
(* Becoming the owner of a flight starts a fetch; finding one joins it.    *)
(***************************************************************************)
LEMMA PromiseRegister ==
  ASSUME IInv, NEW c \in Calls, call[c] \in {"new", "missed"},
         Register(c), UNCHANGED <<remote, cached, answer>>
  PROVE  Promise!Next
<1> USE NoCallAssumption DEF Goes
<1>1. SourceOf(c) = NoCall /\ future[c] = "none"
  BY DEF IInv, Shape, SourceOf
<1>2. CASE pending = NoCall
  <2>1. /\ pending' = c
        /\ future' = [future EXCEPT ![c] = "open"]
        /\ call' = [call EXCEPT ![c] = "fetching"]
        /\ joined' = joined
    BY <1>2 DEF Register, NothingPending, SomePending
  <2>2. Promise!Start(c)
    BY <1>1, <1>2, <2>1 DEF Promise!Start, SourceOf, IInv, TypeOK
  <2> QED BY <2>2 DEF Promise!Next
<1>3. CASE pending # NoCall
  <2>1. /\ pending' = pending
        /\ future' = future
        /\ call' = [call EXCEPT ![c] = "waiting"]
        /\ joined' = [joined EXCEPT ![c] = pending]
    BY <1>3 DEF Register, NothingPending, SomePending
  <2>2. pending # c
    BY DEF IInv, OneFlight, Owns
  <2>3. Promise!Join(c)
    BY <1>1, <1>3, <2>1, <2>2 DEF Promise!Join, SourceOf, IInv, TypeOK
  <2> QED BY <2>3 DEF Promise!Next
<1> QED BY <1>2, <1>3

(***************************************************************************)
(* Settling a flight ends the fetch; the value is delivered only when it   *)
(* is in the cache.                                                        *)
(***************************************************************************)
LEMMA PromiseSettle ==
  ASSUME IInv, NEW c \in Calls, Owns(c),
         NEW outcome \in {"value", "nothing", "error"},
         Settle(c, outcome),
         \/ cached' = c /\ call[c] = "fetching"
         \/ cached' = cached,
         outcome = "value" => cached' = c \/ call[c] = "stored"
  PROVE  Promise!Next
<1> USE NoCallAssumption DEF Goes
<1>1. /\ pending = c
      /\ pending' = NoCall
      /\ future' = [future EXCEPT ![c] = Outcome(c, outcome)]
      /\ joined' = joined
      /\ future[c] \in {"open", "cancelled"}
      /\ answer[c] = NoCall
  BY DEF Settle, IInv, OneFlight, Shape
<1>2. Outcome(c, outcome) \in {"value", "nothing", "error", "cancelled"}
      /\ (Outcome(c, outcome) = "value" <=> outcome = "value" /\ future[c] = "open")
  BY <1>1 DEF Outcome
<1>3. \/ answer' = [answer EXCEPT ![c] = c] /\ outcome = "value" /\ future[c] = "open"
      \/ answer' = answer /\ ~(outcome = "value" /\ future[c] = "open")
  BY <1>1 DEF Settle, IInv, TypeOK
<1>4. \A d \in Calls : SourceOf(d)' = SourceOf(d)
  BY <1>1, <1>2, <1>3 DEF SourceOf, IInv, TypeOK
<1>5. {d \in Calls : future'[d] = "value"} =
         IF outcome = "value" /\ future[c] = "open"
           THEN {d \in Calls : future[d] = "value"} \cup {c}
           ELSE {d \in Calls : future[d] = "value"}
  BY <1>1, <1>2 DEF IInv, TypeOK
<1>6. Promise!End(c)
  BY <1>1, <1>3, <1>4, <1>5 DEF Promise!End, SourceOf
<1> QED BY <1>6 DEF Promise!Next

(***************************************************************************)
(* Every step of the code is a step of SharedFetch or leaves it alone.     *)
(***************************************************************************)
LEMMA PromiseNext ==
  ASSUME IInv, [Next]_vars
  PROVE  [Promise!Next]_(Promise!shared)
<1> USE NoCallAssumption
<1>1. ASSUME NEW c \in Calls, Lookup(c)
      PROVE  [Promise!Next]_(Promise!shared)
  <2>1. CASE cached # NoCall
    <3>1. /\ answer' = [answer EXCEPT ![c] = cached]
          /\ SourceOf(c) = NoCall /\ future[c] = "none" /\ joined[c] = NoCall
          /\ pending # c
          /\ UNCHANGED <<cached, pending, future, joined>>
          /\ call' = [call EXCEPT ![c] = "returned"]
      BY <1>1, <2>1 DEF Lookup, Goes, SourceOf, IInv, Shape, OneFlight, Owns
    <3>2. Promise!Hit(c)
      BY <2>1, <3>1 DEF Promise!Hit, SourceOf, IInv, TypeOK
    <3> QED BY <3>2 DEF Promise!Next
  <2>2. CASE cached = NoCall /\ remote
    <3>1. /\ call' = [call EXCEPT ![c] = "missed"]
          /\ pending # c
          /\ UNCHANGED <<cached, pending, future, joined, answer>>
      BY <1>1, <2>2 DEF Lookup, Goes, LookupSuspends, IInv, OneFlight, Owns
    <3> QED BY <3>1 DEF Promise!shared, IInv, TypeOK
  <2>3. CASE cached = NoCall /\ ~remote
    BY <1>1, <2>3, PromiseRegister DEF Lookup, LookupSuspends
  <2> QED BY <2>1, <2>2, <2>3
<1>2. ASSUME NEW c \in Calls, Resume(c)
      PROVE  Promise!Next
  BY <1>2, PromiseRegister DEF Resume
<1>3. ASSUME NEW c \in Calls, FetchValue(c)
      PROVE  [Promise!Next]_(Promise!shared)
  <2>1. CASE remote
    <3>1. /\ call[c] = "fetching"
          /\ call' = [call EXCEPT ![c] = "storing"]
          /\ UNCHANGED <<cached, pending, future, joined, answer>>
      BY <1>3, <2>1 DEF FetchValue, Goes
    <3> QED BY <3>1 DEF Promise!shared, IInv, TypeOK
  <2>2. CASE ~remote
    BY <1>3, <2>2, PromiseSettle DEF FetchValue, Owns
  <2> QED BY <2>1, <2>2
<1>4. ASSUME NEW c \in Calls, Write(c)
      PROVE  Promise!Next
  <2>1. /\ call[c] = "storing"
        /\ cached' = c
        /\ call' = [call EXCEPT ![c] = "stored"]
        /\ pending = c
        /\ UNCHANGED <<pending, future, joined, answer>>
    BY <1>4 DEF Write, Goes, IInv, OneFlight, Owns
  <2>2. Promise!Store(c)
    BY <2>1 DEF Promise!Store, IInv, TypeOK
  <2> QED BY <2>2 DEF Promise!Next
<1>5. ASSUME NEW c \in Calls, Stored(c) \/ FetchNothing(c) \/ FetchError(c)
      PROVE  Promise!Next
  BY <1>5, PromiseSettle DEF Stored, FetchNothing, FetchError, Owns
<1>6. ASSUME NEW c \in Calls, Wake(c)
      PROVE  [Promise!Next]_(Promise!shared)
  <2>1. /\ call[c] = "waiting" /\ future[c] = "none" /\ answer[c] = NoCall
        /\ joined[c] \in Calls
        /\ pending # c
        /\ UNCHANGED <<cached, pending, future, joined>>
    BY <1>6 DEF Wake, IInv, TypeOK, Shape, OneFlight, Owns
  <2>2. \E e \in {"returned", "raised", "cancelled"} : call' = [call EXCEPT ![c] = e]
    BY <1>6 DEF Wake, Goes
  <2>3. CASE future[joined[c]] = "value"
    <3>1. answer' = [answer EXCEPT ![c] = joined[c]]
      BY <1>6, <2>3 DEF Wake
    <3>2. Promise!Deliver(c)
      BY <2>1, <2>2, <2>3, <3>1 DEF Promise!Deliver, SourceOf, IInv, TypeOK
    <3> QED BY <3>2 DEF Promise!Next
  <2>4. CASE future[joined[c]] # "value"
    <3>1. answer' = answer
      BY <1>6, <2>4 DEF Wake
    <3> QED BY <2>1, <2>2, <3>1 DEF Promise!shared, IInv, TypeOK
  <2> QED BY <2>3, <2>4
<1>7. ASSUME NEW c \in Calls, Cancel(c)
      PROVE  [Promise!Next]_(Promise!shared)
  <2>1. call' = [call EXCEPT ![c] = "cancelled"] /\ UNCHANGED <<cached, joined, answer>>
    BY <1>7 DEF Cancel, Goes
  <2>2. CASE call[c] = "missed"
    <3>1. UNCHANGED <<pending, future>> /\ pending # c
      BY <1>7, <2>2 DEF Cancel, IInv, OneFlight, Owns
    <3> QED BY <2>1, <3>1 DEF Promise!shared, IInv, TypeOK
  <2>3. CASE Owns(c)
    <3>1. pending = c /\ pending' = NoCall /\ UNCHANGED future
      BY <1>7, <2>3 DEF Cancel, IInv, OneFlight, Owns
    <3>2. Promise!End(c)
      BY <2>1, <3>1 DEF Promise!End, IInv, TypeOK
    <3> QED BY <3>2 DEF Promise!Next
  <2>4. CASE call[c] = "waiting"
    <3>1. /\ future' = [future EXCEPT ![joined[c]] = IF @ = "open" THEN "cancelled" ELSE @]
          /\ joined[c] \in Calls
          /\ pending # c
          /\ UNCHANGED pending
      BY <1>7, <2>4 DEF Cancel, Owns, IInv, TypeOK, OneFlight
    <3>2. \A d \in Calls : (future'[d] = "none" <=> future[d] = "none")
                          /\ (future'[d] = "value" <=> future[d] = "value")
      BY <3>1 DEF IInv, TypeOK
    <3> QED BY <2>1, <3>1, <3>2 DEF Promise!shared, IInv, TypeOK
  <2> QED BY <1>7, <2>2, <2>3, <2>4 DEF Cancel, Owns
<1>8. CASE Expire
  <2>1. Promise!Drop
    BY <1>8 DEF Expire, Promise!Drop
  <2> QED BY <2>1 DEF Promise!Next
<1>9. CASE UNCHANGED vars
  BY <1>9 DEF vars, Promise!shared
<1> QED
  BY <1>1, <1>2, <1>3, <1>4, <1>5, <1>6, <1>7, <1>8, <1>9 DEF Next, CallStep, Fetched

(***************************************************************************)
(* get_or_set keeps the promise of SharedFetch: an answer is what the      *)
(* cache held, or a flight that was under way, during the call.            *)
(***************************************************************************)
THEOREM KeepsPromiseHolds == Spec => KeepsPromise
<1>1. IInv /\ [Next]_vars => [Promise!Next]_(Promise!shared)
  BY PromiseNext
<1> QED BY IInvHolds, PromiseInit, <1>1, PTL DEF Spec, KeepsPromise, Promise!Spec
=============================================================================
