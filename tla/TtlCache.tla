------------------------------ MODULE TtlCache ------------------------------
(***************************************************************************)
(* TTLCache.get_or_set: concurrent calls for one key share one run of the  *)
(* factory through a future registered in _pending.  One asyncio loop, so  *)
(* a step runs from one suspension point to the next.  Calls are one-shot; *)
(* a call and the future it registers have the same name, and so has the   *)
(* value its factory returns.                                              *)
(*                                                                         *)
(* Without Redis neither get nor set ever suspends (_lock is never held    *)
(* across an await), with Redis both do.  Left out: Redis errors (they are *)
(* answered as the factory's) and the reconnection in _ensure_redis.       *)
(***************************************************************************)
EXTENDS Naturals, FiniteSets

CONSTANTS Calls, NoCall

ASSUME NoCallAssumption == NoCall \notin Calls

VARIABLES
    remote,   \* is a Redis configured and connected
    cached,   \* the call whose value the key has, NoCall for a miss
    pending,  \* the future in _pending
    future,   \* call -> state of the future it registered
    call,     \* call -> where it is
    joined,   \* call -> the future it awaits
    answer    \* call -> the call whose value it returned

vars == <<remote, cached, pending, future, call, joined, answer>>

CallStates == {"new", "missed", "waiting", "fetching", "storing",
               "stored", "returned", "raised", "cancelled"}
FutureStates == {"none", "open", "value", "nothing", "error", "cancelled"}

Init ==
    /\ remote \in BOOLEAN
    /\ cached = NoCall
    /\ pending = NoCall
    /\ future = [c \in Calls |-> "none"]
    /\ call = [c \in Calls |-> "new"]
    /\ joined = [c \in Calls |-> NoCall]
    /\ answer = [c \in Calls |-> NoCall]

Goes(c, s) == call' = [call EXCEPT ![c] = s]

\* Does another call run between the lookup and the registration?
AlwaysSuspends == TRUE
LookupSuspends == remote

\* The block under _lock: become the owner of a flight, or join the one there is.
Unchecked == TRUE
NothingPending == pending = NoCall

Blindly == TRUE
SomePending == pending # NoCall

Register(c) ==
    \/ /\ NothingPending
       /\ pending' = c
       /\ future' = [future EXCEPT ![c] = "open"]
       /\ Goes(c, "fetching")
       /\ UNCHANGED joined
    \/ /\ SomePending
       /\ joined' = [joined EXCEPT ![c] = pending]
       /\ Goes(c, "waiting")
       /\ UNCHANGED <<pending, future>>

\* get_or_set is called, as far as the answer of get (and, without Redis, on).
Lookup(c) ==
    /\ call[c] = "new"
    /\ \/ /\ cached # NoCall
          /\ answer' = [answer EXCEPT ![c] = cached]
          /\ Goes(c, "returned")
          /\ UNCHANGED <<pending, future, joined>>
       \/ /\ cached = NoCall
          /\ IF LookupSuspends
               THEN Goes(c, "missed") /\ UNCHANGED <<pending, future, joined>>
               ELSE Register(c)
          /\ UNCHANGED answer
    /\ UNCHANGED <<remote, cached>>

\* A get that missed resumes.
Resume(c) ==
    /\ call[c] = "missed"
    /\ Register(c)
    /\ UNCHANGED <<remote, cached, answer>>

(***************************************************************************)
(* The owner is done: the future gets its outcome and is deregistered.  A  *)
(* future that a cancelled waiter cancelled refuses a result with          *)
(* InvalidStateError, so the owner raises although it has the value.       *)
(***************************************************************************)
OnlyValues(c, outcome) == IF outcome = "value" THEN outcome ELSE future[c]
Outcome(c, outcome) == IF future[c] = "open" THEN outcome ELSE future[c]

Settle(c, outcome) ==
    /\ future' = [future EXCEPT ![c] = Outcome(c, outcome)]
    /\ pending' = NoCall
    /\ IF outcome = "error" \/ future[c] = "cancelled"
         THEN Goes(c, "raised") /\ UNCHANGED answer
         ELSE /\ Goes(c, "returned")
              /\ answer' = [answer EXCEPT ![c] = IF outcome = "value" THEN c ELSE NoCall]
    /\ UNCHANGED <<remote, joined>>

\* The factory returns a value: set puts it in the cache, or sends it to Redis.
FetchValue(c) ==
    /\ call[c] = "fetching"
    /\ IF remote
         THEN /\ Goes(c, "storing")
              /\ UNCHANGED <<remote, cached, pending, future, joined, answer>>
         ELSE cached' = c /\ Settle(c, "value")

\* Redis has taken the value, and set is not back yet.
Write(c) ==
    /\ call[c] = "storing"
    /\ cached' = c
    /\ Goes(c, "stored")
    /\ UNCHANGED <<remote, pending, future, joined, answer>>

\* set returns from Redis.
Stored(c) ==
    /\ call[c] = "stored"
    /\ Settle(c, "value")
    /\ UNCHANGED cached

\* The factory returns None, which is answered but not cached.
FetchNothing(c) ==
    /\ call[c] = "fetching"
    /\ Settle(c, "nothing")
    /\ UNCHANGED cached

\* The factory, or set, raises an Exception.
FetchError(c) ==
    /\ call[c] \in {"fetching", "storing", "stored"}
    /\ Settle(c, "error")
    /\ UNCHANGED cached

\* A waiter runs again once the future it awaits is done.
Wake(c) ==
    /\ call[c] = "waiting"
    /\ LET f == joined[c] IN
          \/ /\ future[f] = "value"
             /\ answer' = [answer EXCEPT ![c] = f]
             /\ Goes(c, "returned")
          \/ future[f] = "nothing" /\ Goes(c, "returned") /\ UNCHANGED answer
          \/ future[f] = "error" /\ Goes(c, "raised") /\ UNCHANGED answer
          \/ future[f] = "cancelled" /\ Goes(c, "cancelled") /\ UNCHANGED answer
    /\ UNCHANGED <<remote, cached, pending, future, joined>>

(***************************************************************************)
(* The task is cancelled, by with_timeout or because the client went away. *)
(* CancelledError is no Exception: an owner deregisters its future without *)
(* an outcome.  Cancelling a waiter cancels the future it awaits.          *)
(***************************************************************************)
Cancel(c) ==
    /\ \/ /\ call[c] = "missed"
          /\ UNCHANGED <<pending, future>>
       \/ /\ call[c] \in {"fetching", "storing", "stored"}
          /\ pending' = NoCall
          /\ UNCHANGED future
       \/ /\ call[c] = "waiting"
          /\ future' = [future EXCEPT ![joined[c]] = IF @ = "open" THEN "cancelled" ELSE @]
          /\ UNCHANGED pending
    /\ Goes(c, "cancelled")
    /\ UNCHANGED <<remote, cached, joined, answer>>

\* The TTL of the value runs out, or clear is called.
Expire ==
    /\ cached # NoCall
    /\ cached' = NoCall
    /\ UNCHANGED <<remote, pending, future, call, joined, answer>>

Fetched(c) == FetchValue(c) \/ FetchNothing(c) \/ FetchError(c)

CallStep(c) ==
    \/ Lookup(c)
    \/ Resume(c)
    \/ Fetched(c)
    \/ Write(c)
    \/ Stored(c)
    \/ Wake(c)
    \/ Cancel(c)

Next == (\E c \in Calls : CallStep(c)) \/ Expire

(***************************************************************************)
(* The event loop runs every ready task; a factory is an HTTP request with *)
(* a client timeout, so it ends in one of its three ways.                  *)
(***************************************************************************)
Fairness ==
    \A c \in Calls : WF_vars(Resume(c)) /\ WF_vars(Fetched(c))
                     /\ WF_vars(Write(c)) /\ WF_vars(Stored(c)) /\ WF_vars(Wake(c))

Spec == Init /\ [][Next]_vars /\ Fairness
-----------------------------------------------------------------------------
Owns(c) == call[c] \in {"fetching", "storing", "stored"}

TypeOK ==
    /\ remote \in BOOLEAN
    /\ cached \in Calls \cup {NoCall}
    /\ pending \in Calls \cup {NoCall}
    /\ future \in [Calls -> FutureStates]
    /\ call \in [Calls -> CallStates]
    /\ joined \in [Calls -> Calls \cup {NoCall}]
    /\ \A c \in Calls : call[c] = "waiting" => joined[c] \in Calls
    /\ answer \in [Calls -> Calls \cup {NoCall}]

(***************************************************************************)
(* The registered future belongs to the one call that is running the       *)
(* factory, and no call runs it unregistered: however a flight ends, by a  *)
(* value, None, an exception or a cancellation, it leaves nothing behind   *)
(* in _pending, and two flights never overlap.                             *)
(***************************************************************************)
OneFlight == \A c \in Calls : Owns(c) <=> pending = c

(***************************************************************************)
(* Without Redis a flight is under way only while the key has no value: no *)
(* fetch repeats one whose value is still good.  (With Redis a call that   *)
(* missed before the flight ended may register after it.)                  *)
(***************************************************************************)
NoNeedlessFetch == ~remote /\ pending # NoCall => cached = NoCall

(***************************************************************************)
(* A waiter is left on a future nobody will ever resolve only when the     *)
(* owner was cancelled: no outcome of the factory strands one.             *)
(***************************************************************************)
StrandedOnlyByCancel ==
    \A c \in Calls :
        call[c] = "waiting" /\ future[joined[c]] = "open"
        => Owns(joined[c]) \/ call[joined[c]] = "cancelled"

(***************************************************************************)
(* Every waiter is answered, in some way, unless its owner was cancelled.  *)
(***************************************************************************)
WaitersReleased ==
    \A c \in Calls :
        call[c] = "waiting" ~> call[c] # "waiting" \/ call[joined[c]] = "cancelled"

(***************************************************************************)
(* get_or_set implements SharedFetch: every answer is what the cache held, *)
(* or a flight joined, during the call.                                    *)
(***************************************************************************)
Promise == INSTANCE SharedFetch WITH
    flight <- pending,
    stored <- pending # NoCall /\ call[pending] = "stored",
    held <- cached,
    ready <- {c \in Calls : future[c] = "value"},
    source <- [c \in Calls |-> IF future[c] # "none" THEN c
                               ELSE IF joined[c] # NoCall THEN joined[c]
                               ELSE answer[c]]

KeepsPromise == Promise!Spec
=============================================================================
