---------------------------- MODULE ResolverReads ----------------------------
(***************************************************************************)
(* ResolverProxyService.request_json for a cacheable GET: attempts with    *)
(* the same cache key share one upstream request through a future in       *)
(* _read_inflight.  The cache is looked at again under _read_inflight_lock,*)
(* and the entry is removed under that lock, in a finally that encloses    *)
(* only _finalize_success_response: a request that fails before leaves it. *)
(*                                                                         *)
(* Attempts are one-shot: with_retry repeats none, as no httpx error gets  *)
(* past _request_upstream.  An attempt, the future it registers and the    *)
(* value it reads have one name.                                           *)
(*                                                                         *)
(* The read cache is a TTLCache: its get and set suspend only with a Redis *)
(* and only then can the lock be found taken.  Left out: a look at the     *)
(* cache that raises, which ends the attempt as Cancel does.               *)
(***************************************************************************)
EXTENDS Naturals, FiniteSets

CONSTANTS Calls, NoCall

ASSUME NoCallAssumption == NoCall \notin Calls

VARIABLES
    remote,    \* is a Redis behind the read cache
    cached,    \* the attempt whose value is cached, NoCall for a miss
    lock,      \* who holds _read_inflight_lock
    inflight,  \* the future in _read_inflight
    future,    \* attempt -> state of the future it registered
    call,      \* attempt -> where it is
    ending,    \* attempt -> how it ends once it has removed its entry
    joined     \* attempt -> the future it awaits

vars == <<remote, cached, lock, inflight, future, call, ending, joined>>

Ends == {"returned", "raised", "cancelled"}
CallStates == {"new", "missed", "locked", "blank", "waiting",
               "fetching", "storing", "stored", "closing"} \cup Ends
FutureStates == {"none", "open", "value", "error", "cancelled"}

Init ==
    /\ remote \in BOOLEAN
    /\ cached = NoCall
    /\ lock = NoCall
    /\ inflight = NoCall
    /\ future = [c \in Calls |-> "none"]
    /\ call = [c \in Calls |-> "new"]
    /\ ending = [c \in Calls |-> "returned"]
    /\ joined = [c \in Calls |-> NoCall]

Goes(c, s) == call' = [call EXCEPT ![c] = s]

\* set_result and set_exception are skipped on a future that is done.
Resolve(c, outcome) ==
    future' = [future EXCEPT ![c] = IF @ = "open" THEN outcome ELSE @]
-----------------------------------------------------------------------------
(* _prepare_read_cache *)

Unchecked == TRUE
NothingInflight == inflight = NoCall

Blindly == TRUE
SomeInflight == inflight # NoCall

Register(c) ==
    \/ /\ NothingInflight
       /\ inflight' = c
       /\ future' = [future EXCEPT ![c] = "open"]
       /\ Goes(c, "fetching")
       /\ UNCHANGED joined
    \/ /\ SomeInflight
       /\ joined' = [joined EXCEPT ![c] = inflight]
       /\ Goes(c, "waiting")
       /\ UNCHANGED <<inflight, future>>

\* The first look at the cache; without Redis all of _prepare_read_cache.
Read(c) ==
    /\ call[c] = "new"
    /\ \/ /\ cached # NoCall
          /\ Goes(c, "returned")
          /\ UNCHANGED <<inflight, future, joined>>
       \/ /\ cached = NoCall
          /\ IF remote THEN Goes(c, "missed") /\ UNCHANGED <<inflight, future, joined>>
                       ELSE Register(c)
    /\ UNCHANGED <<remote, cached, lock, ending>>

Acquire(c) ==
    /\ call[c] = "missed"
    /\ lock = NoCall
    /\ lock' = c
    /\ Goes(c, "locked")
    /\ UNCHANGED <<remote, cached, inflight, future, ending, joined>>

\* The second look, which Redis answers at some moment the lock is held.
Reread(c) ==
    /\ call[c] = "locked"
    /\ IF cached = NoCall
         THEN Goes(c, "blank") /\ UNCHANGED lock
         ELSE Goes(c, "returned") /\ lock' = NoCall
    /\ UNCHANGED <<remote, cached, inflight, future, ending, joined>>

Enter(c) ==
    /\ call[c] = "blank"
    /\ Register(c)
    /\ lock' = NoCall
    /\ UNCHANGED <<remote, cached, ending>>
-----------------------------------------------------------------------------
(* The owner. *)

\* The finally: remove the entry, at once or when the lock is free.
FreeAnyway == TRUE
LockFree == lock = NoCall

Close(c, end) ==
    IF LockFree
      THEN inflight' = NoCall /\ Goes(c, end) /\ UNCHANGED ending
      ELSE Goes(c, "closing") /\ ending' = [ending EXCEPT ![c] = end] /\ UNCHANGED inflight

\* The upstream answers with JSON; set puts it in the cache, or sends it to Redis.
Succeed(c) ==
    /\ call[c] = "fetching"
    /\ IF remote
         THEN Goes(c, "storing") /\ UNCHANGED <<cached, inflight, future, ending>>
         ELSE cached' = c /\ Resolve(c, "value") /\ Close(c, "returned")
    /\ UNCHANGED <<remote, lock, joined>>

\* Redis has taken the value, and set is not back yet.
Write(c) ==
    /\ call[c] = "storing"
    /\ cached' = c
    /\ Goes(c, "stored")
    /\ UNCHANGED <<remote, lock, inflight, future, ending, joined>>

\* set returns from Redis.
NotResolved(c) == UNCHANGED future
ResolveValue(c) == Resolve(c, "value")
Stored(c) ==
    /\ call[c] = "stored"
    /\ ResolveValue(c)
    /\ Close(c, "returned")
    /\ UNCHANGED <<remote, cached, lock, joined>>

\* set raises what it does not catch, as redis's own ConnectionError.
StoreError(c) ==
    /\ call[c] = "storing"
    /\ Close(c, "raised")
    /\ UNCHANGED <<remote, cached, lock, future, joined>>

\* The upstream answers with something else than JSON.
BadJson(c) ==
    /\ call[c] = "fetching"
    /\ Resolve(c, "error")
    /\ Close(c, "raised")
    /\ UNCHANGED <<remote, cached, lock, joined>>

\* It times out, cannot be reached, or answers with a status of 400 or more.
UpstreamError(c) ==
    /\ call[c] = "fetching"
    /\ Resolve(c, "error")
    /\ Goes(c, "raised")
    /\ UNCHANGED <<remote, cached, lock, inflight, ending, joined>>

\* The context token cannot be signed, or the audit row cannot be written.
OwnFailure(c) ==
    /\ call[c] = "fetching"
    /\ Goes(c, "raised")
    /\ UNCHANGED <<remote, cached, lock, inflight, future, ending, joined>>

Removed(c) ==
    /\ call[c] = "closing"
    /\ lock = NoCall
    /\ inflight' = NoCall
    /\ Goes(c, ending[c])
    /\ UNCHANGED <<remote, cached, lock, future, ending, joined>>
-----------------------------------------------------------------------------
\* A waiter runs again once the future it awaits is done.
Wake(c) ==
    /\ call[c] = "waiting"
    /\ \/ future[joined[c]] = "value" /\ Goes(c, "returned")
       \/ future[joined[c]] = "error" /\ Goes(c, "raised")
       \/ future[joined[c]] = "cancelled" /\ Goes(c, "cancelled")
    /\ UNCHANGED <<remote, cached, lock, inflight, future, ending, joined>>

(***************************************************************************)
(* with_timeout, or a client that goes away, cancels the task.  Under the  *)
(* lock it is released; a waiter takes the future it awaits with it; and a *)
(* finally interrupted while it waits for the lock removes nothing.        *)
(***************************************************************************)
KeepsLock(c) == UNCHANGED lock
Releases(c) == lock' = IF lock = c THEN NoCall ELSE lock

Cancel(c) ==
    /\ \/ /\ call[c] \in {"missed", "locked", "blank", "fetching", "closing"}
          /\ Goes(c, "cancelled")
          /\ UNCHANGED <<inflight, future, ending>>
       \/ /\ call[c] \in {"storing", "stored"}
          /\ Close(c, "cancelled")
          /\ UNCHANGED future
       \/ /\ call[c] = "waiting"
          /\ Resolve(joined[c], "cancelled")
          /\ Goes(c, "cancelled")
          /\ UNCHANGED <<inflight, ending>>
    /\ Releases(c)
    /\ UNCHANGED <<remote, cached, joined>>

Expire ==
    /\ cached # NoCall
    /\ cached' = NoCall
    /\ UNCHANGED <<remote, lock, inflight, future, call, ending, joined>>

Lookup(c) == Acquire(c) \/ Reread(c) \/ Enter(c)
Fetch(c) == Succeed(c) \/ BadJson(c) \/ UpstreamError(c) \/ OwnFailure(c)

CallStep(c) ==
    \/ Read(c)
    \/ Lookup(c)
    \/ Fetch(c)
    \/ Write(c)
    \/ Stored(c)
    \/ StoreError(c)
    \/ Removed(c)
    \/ Wake(c)
    \/ Cancel(c)

Next == (\E c \in Calls : CallStep(c)) \/ Expire

(***************************************************************************)
(* The event loop runs every ready task; asyncio.Lock wakes its waiters    *)
(* first come, first served; the upstream client has a timeout.            *)
(***************************************************************************)
Fairness ==
    \A c \in Calls : WF_vars(Lookup(c)) /\ WF_vars(Fetch(c)) /\ WF_vars(Write(c))
                     /\ WF_vars(Stored(c)) /\ WF_vars(Removed(c)) /\ WF_vars(Wake(c))

Spec == Init /\ [][Next]_vars /\ Fairness
-----------------------------------------------------------------------------
Owns(c) == call[c] \in {"fetching", "storing", "stored", "closing"}
Over(c) == call[c] \in Ends

TypeOK ==
    /\ remote \in BOOLEAN
    /\ cached \in Calls \cup {NoCall}
    /\ lock \in Calls \cup {NoCall}
    /\ inflight \in Calls \cup {NoCall}
    /\ future \in [Calls -> FutureStates]
    /\ call \in [Calls -> CallStates]
    /\ ending \in [Calls -> Ends]
    /\ joined \in [Calls -> Calls \cup {NoCall}]
    /\ \A c \in Calls : call[c] = "waiting" => joined[c] \in Calls

(***************************************************************************)
(* An attempt that asks the upstream is the one in _read_inflight until it *)
(* has removed its entry: never are two requests for one key under way,    *)
(* and no attempt removes another's entry.                                 *)
(***************************************************************************)
OneUpstream == \A c \in Calls : Owns(c) => inflight = c

(***************************************************************************)
(* Nothing is read from the upstream while the cache has the answer, with  *)
(* Redis too: the second look and the removal exclude each other, so an    *)
(* attempt that missed a value finds the entry of the attempt that has it. *)
(***************************************************************************)
NoNeedlessFetch == \A c \in Calls : call[c] = "fetching" => cached = NoCall

(***************************************************************************)
(* An entry stays behind only when its attempt failed or was cancelled,    *)
(* and an attempt that succeeded has released whoever waits for it.        *)
(***************************************************************************)
SuccessLeavesNothing ==
    \A c \in Calls :
        call[c] = "returned" =>
            /\ inflight # c
            /\ \A d \in Calls : call[d] = "waiting" /\ joined[d] = c => future[c] # "open"

(***************************************************************************)
(* Nobody is kept from the lock: an attempt that missed gets past the      *)
(* second look, whoever is cancelled while holding the lock.               *)
(***************************************************************************)
LookupEnds ==
    \A c \in Calls : call[c] = "missed" ~> call[c] \notin {"missed", "locked", "blank"}

(***************************************************************************)
(* What tests/test_resolver_proxy_service.py asserts when the requests it  *)
(* made are answered: no entry is left in _read_inflight.                  *)
(***************************************************************************)
NothingLeftInflight == (\A c \in Calls : Over(c)) => inflight = NoCall
=============================================================================
