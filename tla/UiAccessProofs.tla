--------------------------- MODULE UiAccessProofs ---------------------------
(***************************************************************************)
(* Proofs about UiAccess, for any callers, accounts and keys.  The safety  *)
(* of a behaviour is that of the page it is of: ApiInv for the request     *)
(* function and KeyInv for the API keys page are proved here, and the      *)
(* invariants of the two sessions are the lemmas of UiSessionProofs.       *)
(***************************************************************************)
EXTENDS UiAccess, TLAPS

-----------------------------------------------------------------------------
(* The request function. *)

(* A call of a write is not waiting to be tried again and never will be,   *)
(* and has not been executed before its attempt has been answered.         *)
OneAttempt(c) ==
  ui.call[c].name \in Api!Writes =>
    /\ ui.call[c].retries = 0
    /\ ui.call[c].phase # "wait"
    /\ srv[c] <= 1
    /\ ui.call[c].phase = "fetch" /\ net[c] = "none" => srv[c] = 0

ApiInv == Api!TypeOK /\ \A c \in Callers : OneAttempt(c)

(***************************************************************************)
(* No exported function is counted among the reads and among the writes.   *)
(***************************************************************************)
LEMMA ReadsAreNoWrites == Api!Reads \cap Api!Writes = {}
  BY DEF Api!Reads, Api!Writes, Api!AuthReads, Api!AuthWrites, Api!AdminReads,
     Api!AdminWrites, Api!AlertReads, Api!AlertWrites, Api!IncidentReads,
     Api!IncidentWrites, Api!ChannelReads, Api!ChannelWrites, Api!QueryReads,
     Api!QueryWrites, Api!GrafanaReads, Api!GrafanaWrites

(***************************************************************************)
(* What the steps make of a call's record.                                 *)
(***************************************************************************)
LEMMA EndedType ==
  ASSUME NEW call \in Api!CallRecords, NEW p \in Api!Phases
  PROVE  /\ Api!Ended(call, p) \in Api!CallRecords
         /\ Api!Ended(call, p).name = call.name
         /\ Api!Ended(call, p).retries = call.retries
         /\ Api!Ended(call, p).phase = p
  BY DEF Api!CallRecords, Api!Ended

LEMMA AgainType ==
  ASSUME NEW call \in Api!CallRecords, call.attempt < call.retries
  PROVE  Api!Again(call) \in Api!CallRecords
<1>1. call.attempt = 0 /\ call.retries = 1
  BY DEF Api!CallRecords
<1>2. Api!Again(call) = [call EXCEPT !.phase = "wait", !.attempt = 1]
  BY <1>1 DEF Api!Again
<1> QED BY <1>1, <1>2 DEF Api!CallRecords, Api!Phases

(***************************************************************************)
(* A call of a write has no retries left, whatever happened to it.         *)
(***************************************************************************)
LEMMA WritesAreNotRetried ==
  ASSUME NEW c \in Callers, Api!TypeOK, OneAttempt(c), NEW reason,
         ui.call[c].name \in Api!Writes
  PROVE  ~Api!ShouldRetry(ui.call[c], reason)
  BY DEF Api!TypeOK, Api!CallRecords, OneAttempt, Api!ShouldRetry

(***************************************************************************)
(* What a step of one caller's call has to show.                           *)
(***************************************************************************)
LEMMA OneCallChanges ==
  ASSUME ApiInv, NEW c \in Callers, NEW call \in Api!CallRecords,
         NEW token \in Tokens \cup {None},
         ui' = [token |-> token, call |-> [ui.call EXCEPT ![c] = call]],
         srv' = srv, net' = [net EXCEPT ![c] = "none"] \/ net' = net,
         call.name \in Api!Writes =>
           call.retries = 0 /\ call.phase # "wait" /\ call.phase # "fetch" /\ srv[c] <= 1
  PROVE  ApiInv'
<1>1. Api!TypeOK'
  BY DEF ApiInv, Api!TypeOK, Api!Statuses
<1>2. ASSUME NEW d \in Callers PROVE OneAttempt(d)'
  <2>1. CASE d = c
    BY <2>1 DEF ApiInv, Api!TypeOK, OneAttempt
  <2>2. CASE d # c
    BY <2>2 DEF ApiInv, Api!TypeOK, OneAttempt
  <2> QED BY <2>1, <2>2
<1> QED BY <1>1, <1>2 DEF ApiInv

LEMMA EndKeeps ==
  ASSUME ApiInv, NEW c \in Callers, NEW p \in {"body", "ok", "failed"},
         ui' = [ui EXCEPT !.call[c] = Api!Ended(ui.call[c], p)],
         srv' = srv, net' = [net EXCEPT ![c] = "none"] \/ net' = net
  PROVE  ApiInv'
<1> DEFINE next == Api!Ended(ui.call[c], p)
<1>1. /\ ui.call[c] \in Api!CallRecords /\ ui.token \in Tokens \cup {None}
      /\ p \in Api!Phases
  BY DEF ApiInv, Api!TypeOK, Api!Phases
<1>2. /\ next \in Api!CallRecords /\ next.name = ui.call[c].name
      /\ next.retries = ui.call[c].retries /\ next.phase = p
  BY <1>1, EndedType
<1>3. ui' = [token |-> ui.token, call |-> [ui.call EXCEPT ![c] = next]]
  BY DEF ApiInv, Api!TypeOK
<1>4. next.name \in Api!Writes =>
        next.retries = 0 /\ next.phase # "wait" /\ next.phase # "fetch" /\ srv[c] <= 1
  BY <1>2 DEF ApiInv, OneAttempt
<1> HIDE DEF next
<1> QED BY <1>1, <1>2, <1>3, <1>4, OneCallChanges

LEMMA InitApi == Api!ConstantsFit /\ Api!Init => ApiInv
  BY DEF Api!ConstantsFit, Api!Init, ApiInv, Api!TypeOK, Api!NoCall,
     Api!CallRecords, Api!Phases, Api!Statuses, OneAttempt

LEMMA RequestKeeps ==
  ASSUME Api!ConstantsFit, ApiInv, NEW c \in Callers, NEW name \in Calls,
         NEW r \in 0..1, Api!Request(c, name, r)
  PROVE  ApiInv'
<1> DEFINE call == [phase |-> "fetch", name |-> name, attempt |-> 0,
                    retries |-> r, token |-> ui.token, aborted |-> FALSE]
<1>1. call \in Api!CallRecords
  BY DEF ApiInv, Api!TypeOK, Api!CallRecords, Api!Phases
<1>2. /\ ui' = [ui EXCEPT !.call[c] = call]
      /\ srv' = [srv EXCEPT ![c] = 0] /\ net' = [net EXCEPT ![c] = "none"]
  BY DEF Api!Request, Api!SetCall
<1>3. name \in Api!Writes => r = 0
  BY ReadsAreNoWrites DEF Api!Request, Api!Idempotent
<1> HIDE DEF call
<1>4. Api!TypeOK'
  BY <1>1, <1>2 DEF Api!ConstantsFit, ApiInv, Api!TypeOK, Api!Statuses
<1>5. ASSUME NEW d \in Callers PROVE OneAttempt(d)'
  <2>1. CASE d = c
    <3>1. ui'.call[d] = call /\ srv'[d] = 0
      BY <1>2, <2>1 DEF ApiInv, Api!TypeOK
    <3> QED BY <3>1, <1>3 DEF OneAttempt, call
  <2>2. CASE d # c
    BY <1>2, <2>2 DEF ApiInv, Api!TypeOK, OneAttempt
  <2> QED BY <2>1, <2>2
<1> QED BY <1>4, <1>5 DEF ApiInv

LEMMA ServeKeeps ==
  ASSUME Api!ConstantsFit, ApiInv, NEW c \in Callers,
         NEW status \in Api!Statuses, Api!Serve(c, status)
  PROVE  ApiInv'
<1>1. /\ ui' = ui /\ net' = [net EXCEPT ![c] = status]
      /\ net[c] = "none" /\ ui.call[c].phase = "fetch"
  BY DEF Api!Serve
<1>2. \/ srv' = srv
      \/ srv' = [srv EXCEPT ![c] = @ + 1] /\ srv[c] < MaxExecuted
  BY DEF Api!Serve
<1>3. status # "none"
  BY DEF Api!Statuses
<1>4. Api!TypeOK'
  BY <1>1, <1>2 DEF Api!ConstantsFit, ApiInv, Api!TypeOK
<1>5. ASSUME NEW d \in Callers PROVE OneAttempt(d)'
  <2>1. CASE d = c
    BY <1>1, <1>2, <1>3, <2>1 DEF ApiInv, Api!TypeOK, OneAttempt
  <2>2. CASE d # c
    BY <1>1, <1>2, <2>2 DEF ApiInv, Api!TypeOK, OneAttempt
  <2> QED BY <2>1, <2>2
<1> QED BY <1>4, <1>5 DEF ApiInv

(***************************************************************************)
(* The other steps end the call's attempt, or put a read off.              *)
(***************************************************************************)
LEMMA CallKeeps ==
  ASSUME ApiInv, NEW c \in Callers,
         \/ Api!Answer(c) \/ Api!ReadBody(c) \/ Api!Timeout(c)
         \/ Api!NetworkError(c) \/ Api!Abort(c) \/ Api!Wake(c)
  PROVE  ApiInv'
<1> DEFINE call == ui.call[c]
<1>1. /\ call \in Api!CallRecords /\ ui.token \in Tokens \cup {None}
      /\ OneAttempt(c) /\ Api!TypeOK
  BY DEF ApiInv, Api!TypeOK
<1>2. \A d : ui' = [ui EXCEPT !.call[c] = d]
            => ui' = [token |-> ui.token, call |-> [ui.call EXCEPT ![c] = d]]
  BY DEF ApiInv, Api!TypeOK
<1>3. call.name \in Api!Writes => call.retries = 0 /\ srv[c] <= 1 /\ call.phase # "wait"
  BY <1>1 DEF OneAttempt
<1>4. {"body", "ok", "failed", "fetch"} \subseteq Api!Phases
  BY DEF Api!Phases
<1>5. CASE Api!Answer(c)
  <2>1. net' = [net EXCEPT ![c] = "none"] /\ srv' = srv
    BY <1>5 DEF Api!Answer
  <2>2. CASE ui' = [ui EXCEPT !.call[c] = Api!Ended(call, "body")]
    BY <2>1, <2>2, EndKeeps
  <2>3. CASE ui' = [ui EXCEPT !.call[c] = Api!Again(call)] /\ Api!ShouldRetry(call, "busy")
    <3>1. /\ call.name \notin Api!Writes /\ Api!Again(call) \in Api!CallRecords
          /\ Api!Again(call).name = call.name
      BY <1>1, <2>3, AgainType, WritesAreNotRetried DEF Api!ShouldRetry,
         Api!Again, Api!CallRecords
    <3> QED BY <1>1, <1>2, <2>1, <2>3, <3>1, OneCallChanges
  <2>4. CASE \E t \in {None, ui.token} :
               ui' = [ui EXCEPT !.call[c] = Api!Ended(call, "failed"), !.token = t]
    <3>1. PICK t \in {None, ui.token} :
             ui' = [ui EXCEPT !.call[c] = Api!Ended(call, "failed"), !.token = t]
      BY <2>4
    <3>2. ui' = [token |-> t,
                 call |-> [ui.call EXCEPT ![c] = Api!Ended(call, "failed")]]
      BY <3>1 DEF ApiInv, Api!TypeOK
    <3>3. t \in Tokens \cup {None}
      BY <1>1
    <3> QED BY <1>1, <1>3, <1>4, <2>1, <3>2, <3>3, OneCallChanges, EndedType
  <2> QED BY <1>5, <2>2, <2>3, <2>4 DEF Api!Answer, Api!SetCall
<1>6. CASE Api!ReadBody(c)
  BY <1>6, EndKeeps DEF Api!ReadBody, Api!SetCall
<1>7. CASE Api!Timeout(c)
  <2>1. net' = [net EXCEPT ![c] = "none"] /\ srv' = srv
    BY <1>7 DEF Api!Timeout
  <2>2. CASE Api!ShouldRetry(call, "timeout")
    <3>1. /\ call.name \notin Api!Writes /\ Api!Again(call) \in Api!CallRecords
          /\ Api!Again(call).name = call.name
      BY <1>1, <2>2, AgainType, WritesAreNotRetried DEF Api!ShouldRetry,
         Api!Again, Api!CallRecords
    <3>2. ui' = [ui EXCEPT !.call[c] = Api!Again(call)]
      BY <1>7, <2>2 DEF Api!Timeout, Api!SetCall
    <3> QED BY <1>1, <1>2, <2>1, <3>1, <3>2, OneCallChanges
  <2>3. CASE ~Api!ShouldRetry(call, "timeout")
    <3>1. ui' = [ui EXCEPT !.call[c] = Api!Ended(call, "failed")]
      BY <1>7, <2>3 DEF Api!Timeout, Api!SetCall
    <3> QED BY <2>1, <3>1, EndKeeps
  <2> QED BY <2>2, <2>3
<1>8. CASE Api!NetworkError(c)
  BY <1>8, EndKeeps DEF Api!NetworkError, Api!SetCall
<1>9. CASE Api!Abort(c)
  <2>1. net' = [net EXCEPT ![c] = "none"] /\ srv' = srv
    BY <1>9 DEF Api!Abort
  <2>2. CASE /\ call.phase = "fetch"
             /\ ui' = [ui EXCEPT !.call[c] =
                         [Api!Ended(call, "failed") EXCEPT !.aborted = TRUE]]
    <3> DEFINE next == [Api!Ended(call, "failed") EXCEPT !.aborted = TRUE]
    <3>1. /\ next \in Api!CallRecords /\ next.name = call.name
          /\ next.retries = call.retries /\ next.phase = "failed"
      BY <1>1 DEF Api!CallRecords, Api!Ended, Api!Phases
    <3> HIDE DEF next
    <3>2. ui' = [token |-> ui.token, call |-> [ui.call EXCEPT ![c] = next]]
      BY <1>2, <2>2 DEF next
    <3> QED BY <1>1, <1>3, <2>1, <3>1, <3>2, OneCallChanges
  <2>3. CASE /\ call.phase = "wait"
             /\ ui' = [ui EXCEPT !.call[c] = [call EXCEPT !.aborted = TRUE]]
    <3> DEFINE next == [call EXCEPT !.aborted = TRUE]
    <3>1. next \in Api!CallRecords /\ next.name = call.name
      BY <1>1 DEF Api!CallRecords
    <3> HIDE DEF next
    <3>2. ui' = [token |-> ui.token, call |-> [ui.call EXCEPT ![c] = next]]
      BY <1>2, <2>3 DEF next
    <3> QED BY <1>1, <1>3, <2>1, <2>3, <3>1, <3>2, OneCallChanges
  <2> QED BY <1>9, <2>2, <2>3 DEF Api!Abort, Api!SetCall
<1>10. CASE Api!Wake(c)
  <2>1. PICK p \in {"failed", "fetch"} : ui' = [ui EXCEPT !.call[c] = Api!Ended(call, p)]
    BY <1>10 DEF Api!Wake, Api!SetCall
  <2> DEFINE next == Api!Ended(call, p)
  <2>2. srv' = srv /\ net' = net /\ call.name \notin Api!Writes
    BY <1>3, <1>10 DEF Api!Wake
  <2>3. next \in Api!CallRecords /\ next.name = call.name
    BY <1>1, <1>4, EndedType
  <2>4. ui' = [token |-> ui.token, call |-> [ui.call EXCEPT ![c] = next]]
    BY <1>2, <2>1
  <2> HIDE DEF next
  <2> QED BY <1>1, <2>2, <2>3, <2>4, OneCallChanges
<1> QED BY <1>5, <1>6, <1>7, <1>8, <1>9, <1>10

LEMMA NextApi ==
  Api!ConstantsFit /\ ApiInv /\ [Api!Next]_(Api!vars) => ApiInv'
<1> SUFFICES ASSUME Api!ConstantsFit, ApiInv, [Api!Next]_(Api!vars) PROVE ApiInv'
  OBVIOUS
<1>1. CASE \E c \in Callers, name \in Calls, r \in 0..1 : Api!Request(c, name, r)
  BY <1>1, RequestKeeps
<1>2. CASE \E c \in Callers, s \in Api!Statuses : Api!Serve(c, s)
  BY <1>2, ServeKeeps
<1>3. CASE \E c \in Callers : \/ Api!Answer(c) \/ Api!ReadBody(c) \/ Api!Timeout(c)
                               \/ Api!NetworkError(c) \/ Api!Abort(c) \/ Api!Wake(c)
  BY <1>3, CallKeeps
<1>4. CASE \E t \in Tokens \cup {None} : Api!SetAuthToken(t)
  BY <1>4 DEF Api!SetAuthToken, ApiInv, Api!TypeOK, OneAttempt
<1>5. CASE UNCHANGED Api!vars
  BY <1>5 DEF Api!vars, ApiInv, Api!TypeOK, OneAttempt
<1> QED BY <1>1, <1>2, <1>3, <1>4, <1>5 DEF Api!Next

-----------------------------------------------------------------------------
(* The API keys page. *)

(* What waits in a slot: the answer of a read that succeeded is a listing, *)
(* that of a write nothing or a token.                                     *)
KeyArgs == [key : KeyPage!Keys \cup {None}, hidden : BOOLEAN]
KeyOps == {"none", "refresh", "default", "create", "activate", "delete",
           "hide", "regenerate", "switch", "quick"}
KeyStages == {"none", "create", "default", "enable", "delete", "hide",
              "regenerate", "read"}
KeyTasks ==
  {t \in [op : KeyOps, stage : KeyStages,
          st : {"idle", "sent", "ok", "partly", "failed"},
          arg : KeyArgs \cup {None},
          ans : KeyPage!Listings \cup Nat \cup {None}] :
     /\ t.st # "idle" => t.arg \in KeyArgs
     /\ t.stage = "read" /\ t.st \in {"ok", "partly"} =>
          t.ans \in KeyPage!Listings
     /\ t.stage # "read" => t.ans \in Nat \cup {None}}

KeyInv == KeyPage!TypeOK /\ net \in [Slots -> KeyTasks]

(***************************************************************************)
(* The listings without their hidden keys, and the key they make active.   *)
(***************************************************************************)
LEMMA ListingTypes ==
  ASSUME NEW v \in KeyPage!Listings
  PROVE  /\ KeyPage!VisibleOf(v) \in KeyPage!Listings
         /\ \A b \in BOOLEAN : KeyPage!Listed(v, b) \in KeyPage!Listings
         /\ KeyPage!ActiveKey(v) \in KeyPage!Keys
         /\ v.default \in KeyPage!Keys
<1>1. KeyPage!VisibleOf(v) \in KeyPage!Listings
  BY DEF KeyPage!Listings, KeyPage!VisibleOf
<1>2. KeyPage!ActiveKey(v) \in KeyPage!Keys /\ v.default \in KeyPage!Keys
  BY DEF KeyPage!Listings, KeyPage!ActiveKey, KeyPage!Keys
<1> QED BY <1>1, <1>2 DEF KeyPage!Listed

(***************************************************************************)
(* What an answer makes of the page keeps it well typed.                   *)
(***************************************************************************)
LEMMA WithUserType ==
  ASSUME NEW u \in KeyPage!UiType, NEW v \in KeyPage!Listings
  PROVE  KeyPage!WithUser(u, v) \in KeyPage!UiType
<1> DEFINE visible == KeyPage!VisibleOf(v)
           active == KeyPage!ActiveKey(visible)
           shown == IF u.showHidden THEN u.shown ELSE visible
<1>1. /\ visible \in KeyPage!Listings /\ active \in KeyPage!Keys
      /\ v.default \in KeyPage!Keys
  BY ListingTypes
<1>2. shown \in KeyPage!Listings
  BY <1>1 DEF KeyPage!UiType
<1>3. KeyPage!WithUser(u, v) = [u EXCEPT !.user = visible, !.scope = active,
                                         !.chosen = v.default, !.shown = shown]
  BY DEF KeyPage!WithUser
<1> HIDE DEF visible, active, shown
<1> QED BY <1>1, <1>2, <1>3 DEF KeyPage!UiType

LEMMA RefreshedType ==
  ASSUME NEW u \in KeyPage!UiType, NEW t \in KeyTasks,
         t.ans \in KeyPage!Listings, t.arg \in KeyArgs
  PROVE  KeyPage!Refreshed(u, t) \in KeyPage!UiType
<1> DEFINE display == IF t.st = "partly" THEN KeyPage!VisibleOf(t.ans)
                      ELSE KeyPage!Listed(t.ans, t.arg.hidden)
<1>1. display \in KeyPage!Listings
  BY ListingTypes DEF KeyArgs
<1>2. KeyPage!Refreshed(u, t)
        = KeyPage!WithUser([u EXCEPT !.shown = display], t.ans)
  BY DEF KeyPage!Refreshed
<1> HIDE DEF display
<1>3. [u EXCEPT !.shown = display] \in KeyPage!UiType
  BY <1>1 DEF KeyPage!UiType
<1> QED BY <1>2, <1>3, WithUserType

LEMMA WriteDoneType ==
  ASSUME NEW u \in KeyPage!UiType, NEW t \in KeyTasks, t.stage # "read"
  PROVE  KeyPage!WriteDone(u, t) \in KeyPage!UiType
<1>1. t.ans \in Nat \cup {None}
  BY DEF KeyTasks
<1> DEFINE of(a) == [u EXCEPT !.token[t.arg.key] = a]
<1>2. \A a \in Nat \cup {None} : of(a) \in KeyPage!UiType
  BY DEF KeyPage!UiType
<1>3. \/ KeyPage!WriteDone(u, t) = of(t.ans)
      \/ KeyPage!WriteDone(u, t) = of(None)
      \/ KeyPage!WriteDone(u, t) = u
  BY DEF KeyPage!WriteDone
<1> HIDE DEF of
<1> QED BY <1>1, <1>2, <1>3

LEMMA OverType ==
  ASSUME NEW u \in KeyPage!UiType, NEW t, NEW ok \in BOOLEAN
  PROVE  KeyPage!Over(u, t, ok) \in KeyPage!UiType
<1>1. /\ KeyPage!Closed(u) \in KeyPage!UiType
      /\ [u EXCEPT !.loading = FALSE] \in KeyPage!UiType
      /\ [u EXCEPT !.regenerating = FALSE] \in KeyPage!UiType
      /\ [u EXCEPT !.switching = FALSE] \in KeyPage!UiType
      /\ KeyPage!Closed([u EXCEPT !.loading = FALSE]) \in KeyPage!UiType
  BY DEF KeyPage!UiType, KeyPage!Closed, KeyPage!Dialogs
<1>2. \/ KeyPage!Over(u, t, ok) = KeyPage!Closed(u)
      \/ KeyPage!Over(u, t, ok) = [u EXCEPT !.loading = FALSE]
      \/ KeyPage!Over(u, t, ok) = [u EXCEPT !.regenerating = FALSE]
      \/ KeyPage!Over(u, t, ok) = [u EXCEPT !.switching = FALSE]
      \/ KeyPage!Over(u, t, ok) = KeyPage!Closed([u EXCEPT !.loading = FALSE])
      \/ KeyPage!Over(u, t, ok) = u
  BY DEF KeyPage!Over
<1> QED BY <1>1, <1>2

LEMMA NotedType ==
  ASSUME NEW u \in KeyPage!UiType, NEW t
  PROVE  KeyPage!Noted(u, t) \in KeyPage!UiType
<1> DEFINE failed == u.failed \/ t.st # "ok"
<1>1. failed \in BOOLEAN
  BY DEF KeyPage!UiType
<1>2. KeyPage!Noted(u, t) = [u EXCEPT !.failed = failed]
  BY Zenon DEF KeyPage!Noted
<1> HIDE DEF failed
<1> QED BY <1>1, <1>2 DEF KeyPage!UiType

(***************************************************************************)
(* What a slot can hold.                                                   *)
(***************************************************************************)
LEMMA TaskType ==
  /\ KeyPage!NoTask \in KeyTasks
  /\ \A op \in KeyOps, stage \in KeyStages, arg \in KeyArgs :
       KeyPage!Task(op, stage, arg) \in KeyTasks
<1>1. KeyPage!NoTask \in KeyTasks
  BY DEF KeyTasks, KeyPage!NoTask, KeyOps, KeyStages
<1>2. ASSUME NEW op \in KeyOps, NEW stage \in KeyStages, NEW arg \in KeyArgs
      PROVE  KeyPage!Task(op, stage, arg) \in KeyTasks
  BY DEF KeyTasks, KeyPage!Task
<1> QED BY <1>1, <1>2

LEMMA SlotChanges ==
  ASSUME net \in [Slots -> KeyTasks], NEW t \in KeyTasks, NEW i,
         net' = [net EXCEPT ![i] = t]
  PROVE  net' \in [Slots -> KeyTasks]
  OBVIOUS

LEMMA StartKeeps ==
  ASSUME KeyPage!BoundsFit, KeyInv, NEW u \in KeyPage!UiType,
         u.starts = ui.starts, NEW op \in KeyOps, NEW stage \in KeyStages,
         NEW arg \in KeyArgs, KeyPage!Start(u, op, stage, arg)
  PROVE  KeyInv'
<1>1. ui' \in KeyPage!UiType
  BY DEF KeyPage!Start, KeyPage!BoundsFit, KeyPage!UiType
<1>2. net' \in [Slots -> KeyTasks]
  BY TaskType, SlotChanges DEF KeyInv, KeyPage!Start, KeyPage!Begin
<1>3. srv' = srv
  BY DEF KeyPage!Start
<1> QED BY <1>1, <1>2, <1>3 DEF KeyInv, KeyPage!TypeOK

(***************************************************************************)
(* The user's clicks.                                                      *)
(***************************************************************************)
LEMMA PlainClickKeeps ==
  ASSUME KeyInv, NEW k \in KeyPage!Keys,
         \/ KeyPage!OpenDefault \/ KeyPage!OpenAdd \/ KeyPage!Close
         \/ KeyPage!AskDelete(k) \/ KeyPage!OpenToken(k)
         \/ KeyPage!ChooseDefault(k)
  PROVE  KeyInv'
<1>1. \A d \in KeyPage!Dialogs, x \in KeyPage!Keys \cup {None} :
        [ui EXCEPT !.dialog = d, !.target = x] \in KeyPage!UiType
  BY DEF KeyInv, KeyPage!TypeOK, KeyPage!UiType
<1>2. [ui EXCEPT !.chosen = k] \in KeyPage!UiType
  BY DEF KeyInv, KeyPage!TypeOK, KeyPage!UiType
<1>3. srv' = srv /\ net' = net
  BY DEF KeyPage!OpenDefault, KeyPage!OpenAdd, KeyPage!Close,
     KeyPage!AskDelete, KeyPage!OpenToken, KeyPage!ChooseDefault
<1>4. {"default", "add", "delete", "token", "none"} \subseteq KeyPage!Dialogs
  BY DEF KeyPage!Dialogs
<1>5. \/ ui' = [ui EXCEPT !.chosen = k]
      \/ \E d \in {"default", "add", "delete", "token", "none"}, x \in {k, None} :
           ui' = [ui EXCEPT !.dialog = d, !.target = x]
  BY DEF KeyPage!OpenDefault, KeyPage!OpenAdd,
     KeyPage!Close, KeyPage!AskDelete, KeyPage!OpenToken,
     KeyPage!ChooseDefault, KeyPage!Open, KeyPage!Closed
<1>6. ui' \in KeyPage!UiType
  <2>1. CASE ui' = [ui EXCEPT !.chosen = k]
    BY <1>2, <2>1
  <2>2. CASE \E d \in {"default", "add", "delete", "token", "none"},
                x \in {k, None} : ui' = [ui EXCEPT !.dialog = d, !.target = x]
    BY <1>1, <1>4, <2>2
  <2> QED BY <1>5, <2>1, <2>2
<1> QED BY <1>3, <1>6 DEF KeyInv, KeyPage!TypeOK

LEMMA HandlerKeeps ==
  ASSUME KeyPage!BoundsFit, KeyInv, NEW k \in KeyPage!Keys,
         \/ KeyPage!ToggleShowHidden \/ KeyPage!SaveDefault
         \/ KeyPage!ConfirmDelete \/ KeyPage!Regenerate
         \/ KeyPage!CreateKey(k) \/ KeyPage!ActivateKey(k)
         \/ KeyPage!ToggleHiddenKey(k) \/ KeyPage!SwitchKey(k)
         \/ KeyPage!QuickCreate(k)
  PROVE  KeyInv'
<1> DEFINE shown == IF ui.showHidden THEN ui.user ELSE ui.shown
           toggled == [ui EXCEPT !.showHidden = ~@, !.shown = shown]
<1>1. ui \in KeyPage!UiType /\ shown \in KeyPage!Listings
  BY DEF KeyInv, KeyPage!TypeOK, KeyPage!UiType
<1>2. \A x \in KeyPage!Keys \cup {None} : KeyPage!Arg(x) \in KeyArgs
  BY <1>1 DEF KeyPage!Arg, KeyArgs, KeyPage!UiType
<1>3. ui.chosen \in KeyPage!Keys /\ ui.target \in KeyPage!Keys \cup {None}
  BY <1>1 DEF KeyPage!UiType
<1>4. [key |-> None, hidden |-> ~ui.showHidden] \in KeyArgs
  BY <1>1 DEF KeyArgs, KeyPage!UiType
<1> HIDE DEF shown
<1>5. toggled \in KeyPage!UiType /\ toggled.starts = ui.starts
  BY <1>1 DEF KeyPage!UiType
<1>6. /\ [ui EXCEPT !.loading = TRUE] \in KeyPage!UiType
      /\ [ui EXCEPT !.regenerating = TRUE] \in KeyPage!UiType
      /\ [ui EXCEPT !.switching = TRUE] \in KeyPage!UiType
      /\ [ui EXCEPT !.loading = TRUE].starts = ui.starts
      /\ [ui EXCEPT !.regenerating = TRUE].starts = ui.starts
      /\ [ui EXCEPT !.switching = TRUE].starts = ui.starts
  BY <1>1 DEF KeyPage!UiType
<1>7. CASE KeyPage!ToggleShowHidden
  <2>1. KeyPage!Start(toggled, "refresh", "read",
                      [key |-> None, hidden |-> ~ui.showHidden])
    BY <1>7 DEF KeyPage!ToggleShowHidden, shown
  <2> HIDE DEF toggled
  <2> QED BY <1>4, <1>5, <2>1, StartKeeps DEF KeyOps, KeyStages
<1>8. CASE KeyPage!SaveDefault
  BY <1>2, <1>3, <1>6, <1>8, StartKeeps DEF KeyPage!SaveDefault, KeyOps, KeyStages
<1>9. CASE KeyPage!ConfirmDelete
  BY <1>1, <1>2, <1>3, <1>9, StartKeeps
     DEF KeyPage!ConfirmDelete, KeyOps, KeyStages
<1>10. CASE KeyPage!Regenerate
  BY <1>2, <1>3, <1>6, <1>10, StartKeeps
     DEF KeyPage!Regenerate, KeyOps, KeyStages
<1>11. CASE KeyPage!CreateKey(k)
  BY <1>2, <1>6, <1>11, StartKeeps
     DEF KeyPage!CreateKey, KeyOps, KeyStages
<1>12. CASE KeyPage!SwitchKey(k)
  BY <1>2, <1>6, <1>12, StartKeeps
     DEF KeyPage!SwitchKey, KeyOps, KeyStages
<1>13. CASE \/ KeyPage!ActivateKey(k) \/ KeyPage!ToggleHiddenKey(k)
            \/ KeyPage!QuickCreate(k)
  BY <1>1, <1>2, <1>13, StartKeeps
     DEF KeyPage!ActivateKey, KeyPage!ToggleHiddenKey, KeyPage!QuickCreate,
     KeyOps, KeyStages
<1> QED BY <1>7, <1>8, <1>9, <1>10, <1>11, <1>12, <1>13

(***************************************************************************)
(* The service: what it writes, and what it answers.                       *)
(***************************************************************************)
LEMMA WrittenType ==
  ASSUME KeyPage!TypeOK, NEW op, NEW k,
         op \in {"create", "default", "enable", "delete", "hide", "regenerate"},
         KeyPage!Accepted(op, k)
  PROVE  /\ KeyPage!Written(op, k) \in KeyPage!SrvType
         /\ op = "regenerate" => KeyPage!Written(op, k).token[k] \in Nat
<1>1. srv \in KeyPage!SrvType
  BY DEF KeyPage!TypeOK
<1>2. CASE op = "create"
  BY <1>1, <1>2 DEF KeyPage!Accepted, KeyPage!Written, KeyPage!SrvType,
     KeyPage!Keys
<1>3. CASE op = "default"
  BY <1>1, <1>3 DEF KeyPage!Accepted, KeyPage!Written, KeyPage!SrvType
<1>4. CASE op = "enable"
  BY <1>1, <1>4 DEF KeyPage!Accepted, KeyPage!Written, KeyPage!SrvType
<1>5. CASE op = "delete"
  <2> DEFINE enabled == IF srv.enabled = k THEN srv.default ELSE srv.enabled
             keys == srv.keys \ {k}
             gone == srv.gone \cup {k}
  <2>1. /\ enabled \in KeyPage!Keys /\ keys \in SUBSET KeyPage!Keys
        /\ gone \in SUBSET Own
    BY <1>1, <1>5 DEF KeyPage!Accepted, KeyPage!SrvType, KeyPage!Keys
  <2>2. KeyPage!Written(op, k)
          = [srv EXCEPT !.keys = keys, !.gone = gone, !.enabled = enabled]
    BY <1>5 DEF KeyPage!Written
  <2> HIDE DEF enabled, keys, gone
  <2> QED BY <1>1, <1>5, <2>1, <2>2 DEF KeyPage!SrvType
<1>6. CASE op = "hide"
  <2> DEFINE hidden == IF k \in srv.hidden THEN srv.hidden \ {k}
                       ELSE srv.hidden \cup {k}
  <2>1. hidden \in SUBSET Foreign
    BY <1>1, <1>6 DEF KeyPage!Accepted, KeyPage!SrvType
  <2>2. KeyPage!Written(op, k) = [srv EXCEPT !.hidden = hidden]
    BY <1>6 DEF KeyPage!Written
  <2> HIDE DEF hidden
  <2> QED BY <1>1, <1>6, <2>1, <2>2 DEF KeyPage!SrvType
<1>7. CASE op = "regenerate"
  <2>1. k \in Own /\ KeyPage!Written(op, k) = [srv EXCEPT !.token[k] = @ + 1]
    BY <1>7 DEF KeyPage!Accepted, KeyPage!Written
  <2> QED BY <1>1, <2>1 DEF KeyPage!SrvType
<1> QED BY <1>2, <1>3, <1>4, <1>5, <1>6, <1>7

LEMMA AnswerKeeps ==
  ASSUME KeyInv, NEW i \in Slots, KeyPage!ServeSlot(i)
  PROVE  KeyInv'
<1>1. net[i] \in KeyTasks /\ net[i].st = "sent" /\ ui' = ui
  BY DEF KeyInv, KeyPage!ServeSlot, KeyPage!ServeWrite, KeyPage!ServeRead,
     KeyPage!Waiting
<1>2. ASSUME NEW st \in {"ok", "partly", "failed"}, NEW ans,
             KeyPage!Reply(i, st, ans),
             \/ net[i].stage # "read" /\ ans \in Nat \cup {None}
             \/ /\ net[i].stage = "read" /\ ans \in KeyPage!Listings \cup {None}
                /\ st # "failed" => ans \in KeyPage!Listings
      PROVE  net' \in [Slots -> KeyTasks]
  <2> DEFINE t == [net[i] EXCEPT !.st = st, !.ans = ans]
  <2>1. t \in KeyTasks
    BY <1>1, <1>2 DEF KeyTasks
  <2>2. net' = [net EXCEPT ![i] = t]
    BY <1>2 DEF KeyPage!Reply
  <2> HIDE DEF t
  <2> QED BY <2>1, <2>2, SlotChanges DEF KeyInv
<1>3. CASE KeyPage!ServeWrite(i)
  <2> DEFINE op == net[i].stage
             k == net[i].arg.key
  <2>1. op \in {"create", "default", "enable", "delete", "hide", "regenerate"}
    BY <1>3 DEF KeyPage!ServeWrite
  <2>2. CASE KeyPage!Accepted(op, k) /\ srv' = KeyPage!Written(op, k)
    <3>1. srv' \in KeyPage!SrvType
          /\ (op = "regenerate" => srv'.token[k] \in Nat)
      BY <2>1, <2>2, WrittenType DEF KeyInv
    <3>2. \/ KeyPage!Reply(i, "ok", IF op = "regenerate" THEN srv'.token[k]
                                                         ELSE None)
          \/ KeyPage!Reply(i, "failed", None)
      BY <1>3 DEF KeyPage!ServeWrite, KeyPage!Reply
    <3>3. net' \in [Slots -> KeyTasks]
      BY <1>2, <2>1, <3>1, <3>2
    <3> QED BY <1>1, <3>1, <3>3 DEF KeyInv, KeyPage!TypeOK
  <2>3. CASE KeyPage!Reply(i, "failed", None) /\ srv' = srv
    <3>1. net' \in [Slots -> KeyTasks]
      BY <1>2, <2>1, <2>3
    <3> QED BY <1>1, <2>3, <3>1 DEF KeyInv, KeyPage!TypeOK
  <2> QED BY <1>3, <2>2, <2>3 DEF KeyPage!ServeWrite
<1>4. CASE KeyPage!ServeRead(i)
  <2>1. KeyPage!Now \in KeyPage!Listings
    BY DEF KeyInv, KeyPage!TypeOK, KeyPage!SrvType, KeyPage!Now,
       KeyPage!Listings
  <2>2. PICK st \in {"ok", "partly", "failed"} :
          KeyPage!Reply(i, st, IF st = "failed" THEN None ELSE KeyPage!Now)
    BY <1>4 DEF KeyPage!ServeRead
  <2>3. net[i].stage = "read" /\ srv' = srv
    BY <1>4 DEF KeyPage!ServeRead
  <2>4. net' \in [Slots -> KeyTasks]
    BY <1>2, <2>1, <2>2, <2>3
  <2> QED BY <1>1, <2>3, <2>4 DEF KeyInv, KeyPage!TypeOK
<1> QED BY <1>3, <1>4 DEF KeyPage!ServeSlot

(***************************************************************************)
(* The handlers go on.                                                     *)
(***************************************************************************)
LEMMA DeliverKeeps ==
  ASSUME KeyInv, NEW i \in Slots, KeyPage!DeliverSlot(i)
  PROVE  KeyInv'
<1> DEFINE t == net[i]
<1>1. /\ t \in KeyTasks /\ t.arg \in KeyArgs /\ t.op \in KeyOps
      /\ t.st \in {"ok", "partly", "failed"}
      /\ ui \in KeyPage!UiType /\ srv' = srv
  BY DEF KeyInv, KeyPage!TypeOK, KeyTasks, KeyPage!DeliverSlot,
     KeyPage!DeliverWrite, KeyPage!DeliverRead, KeyPage!Back
<1>2. \A stage \in KeyStages :
        KeyPage!Continue(i, stage, t.arg) => net' \in [Slots -> KeyTasks]
  BY <1>1, TaskType DEF KeyInv, KeyPage!Continue
<1>3. KeyPage!Finish(i) => net' \in [Slots -> KeyTasks]
  BY TaskType DEF KeyInv, KeyPage!Finish
<1>4. \A ok \in BOOLEAN : KeyPage!Over(ui, t, ok) \in KeyPage!UiType
  BY <1>1, OverType
<1>5. CASE KeyPage!DeliverWrite(i)
  <2>1. t.stage # "read"
    BY <1>5 DEF KeyPage!DeliverWrite
  <2>2. KeyPage!WriteDone(ui, t) \in KeyPage!UiType
    BY <1>1, <2>1, WriteDoneType
  <2>3. ui' \in KeyPage!UiType
    BY <1>1, <1>4, <1>5, <2>2, NotedType DEF KeyPage!DeliverWrite
  <2>4. net' \in [Slots -> KeyTasks]
    BY <1>2, <1>3, <1>5 DEF KeyPage!DeliverWrite, KeyStages
  <2> QED BY <1>1, <2>3, <2>4 DEF KeyInv, KeyPage!TypeOK
<1>6. CASE KeyPage!DeliverRead(i)
  <2>1. t.stage = "read" /\ (t.st # "failed" => t.ans \in KeyPage!Listings)
    BY <1>1, <1>6 DEF KeyPage!DeliverRead, KeyTasks
  <2>2. [KeyPage!Over(ui, t, FALSE) EXCEPT !.dialog = "signedOut"]
          \in KeyPage!UiType
    BY <1>4 DEF KeyPage!UiType, KeyPage!Dialogs
  <2> DEFINE done == KeyPage!Over(KeyPage!WithUser(ui, t.ans), t, TRUE)
             refreshed == KeyPage!Over(KeyPage!Refreshed(ui, t), t, TRUE)
             failed == KeyPage!Over(ui, t, FALSE)
             signedOut == [failed EXCEPT !.dialog = "signedOut"]
  <2>3. t.st # "failed" => /\ done \in KeyPage!UiType
                           /\ refreshed \in KeyPage!UiType
    BY <1>1, <2>1, WithUserType, RefreshedType, OverType
  <2>4. \/ ui' = KeyPage!Noted(failed, t)
        \/ ui' = KeyPage!Noted(signedOut, t)
        \/ t.st # "failed" /\ ui' = KeyPage!Noted(done, t)
        \/ t.st # "failed" /\ ui' = KeyPage!Noted(refreshed, t)
    BY <1>6 DEF KeyPage!DeliverRead
  <2>5. ui' \in KeyPage!UiType
    <3>1. failed \in KeyPage!UiType /\ signedOut \in KeyPage!UiType
      BY <1>4, <2>2
    <3> HIDE DEF done, refreshed, failed, signedOut
    <3> QED BY <2>3, <2>4, <3>1, NotedType
  <2> QED BY <1>1, <1>3, <1>6, <2>5
          DEF KeyInv, KeyPage!TypeOK, KeyPage!DeliverRead
<1> QED BY <1>5, <1>6 DEF KeyPage!DeliverSlot

(***************************************************************************)
(* The page mounts well typed, and every step keeps it so.                 *)
(***************************************************************************)
LEMMA InitKeys == KeyPage!ConstantsFit /\ KeyPage!BoundsFit /\ KeyPage!Init
                    => KeyInv
<1> SUFFICES ASSUME KeyPage!ConstantsFit, KeyPage!BoundsFit,
                    NEW mine \in SUBSET Own, KeyPage!Mounted(mine)
             PROVE  KeyInv
  BY DEF KeyPage!Init
<1> DEFINE v == [keys |-> mine \cup Foreign, enabled |-> First,
                 default |-> First, hidden |-> {}]
<1>1. v \in KeyPage!Listings /\ First \in Own /\ First \in KeyPage!Keys
  BY DEF KeyPage!Listings, KeyPage!Keys, KeyPage!ConstantsFit
<1>2. srv \in KeyPage!SrvType
  BY <1>1 DEF KeyPage!Mounted, KeyPage!SrvType, KeyPage!Listings
<1>3. ui = [user |-> v, shown |-> v, scope |-> First, showHidden |-> FALSE,
            chosen |-> First, loading |-> FALSE, dialog |-> "none",
            target |-> None, token |-> [k \in Own |-> None],
            regenerating |-> FALSE, switching |-> FALSE, starts |-> 0,
            failed |-> FALSE]
  BY DEF KeyPage!Mounted
<1>4. [key |-> None, hidden |-> FALSE] \in KeyArgs
  BY DEF KeyArgs
<1>5. net \in [Slots -> KeyTasks]
  BY <1>4, TaskType DEF KeyPage!Mounted, KeyPage!Quiet, KeyOps, KeyStages
<1> HIDE DEF v
<1>6. ui \in KeyPage!UiType
  BY <1>1, <1>3 DEF KeyPage!UiType, KeyPage!Dialogs, KeyPage!BoundsFit
<1> QED BY <1>2, <1>5, <1>6 DEF KeyInv, KeyPage!TypeOK

LEMMA NextKeys ==
  KeyPage!BoundsFit /\ KeyInv /\ [KeyPage!Next]_(KeyPage!vars) => KeyInv'
<1> SUFFICES ASSUME KeyPage!BoundsFit, KeyInv, [KeyPage!Next]_(KeyPage!vars)
             PROVE  KeyInv'
  OBVIOUS
<1>1. CASE KeyPage!Clicks
  <2>1. ui.chosen \in KeyPage!Keys
    BY DEF KeyInv, KeyPage!TypeOK, KeyPage!UiType
  <2> QED BY <1>1, <2>1, PlainClickKeeps, HandlerKeeps DEF KeyPage!Clicks
<1>2. CASE \E i \in Slots : KeyPage!ServeSlot(i) \/ KeyPage!DeliverSlot(i)
  BY <1>2, AnswerKeeps, DeliverKeeps
<1>3. CASE UNCHANGED KeyPage!vars
  BY <1>3 DEF KeyPage!vars, KeyInv, KeyPage!TypeOK
<1> QED BY <1>1, <1>2, <1>3 DEF KeyPage!Next

-----------------------------------------------------------------------------
(* A behaviour of any of them. *)

IInv == /\ page \in {"api", "session", "accounts", "keys"}
        /\ page = "api" => ApiInv
        /\ page = "session" => Session!ModalInv
        /\ page = "accounts" => Switch!IInv
        /\ page = "keys" => KeyInv

(***************************************************************************)
(* The account that has the browser alone is one account.                  *)
(***************************************************************************)
LEMMA AccountAlone == Session!OneAccount /\ None \notin {Account}
  BY ConstantsAssumption DEF Session!OneAccount, Session!ConstantsFit

LEMMA InitIInv == Init => IInv
<1> SUFFICES ASSUME Init PROVE IInv
  OBVIOUS
<1>1. CASE page = "api" /\ Api!Init
  BY <1>1, InitApi, ConstantsAssumption DEF IInv
<1>2. CASE page = "session" /\ Session!Init
  BY <1>2, Session!InitModal DEF IInv
<1>3. CASE page = "accounts" /\ Switch!Init
  BY <1>3, Switch!InitIInv DEF IInv
<1>4. CASE page = "keys" /\ KeyPage!Init
  BY <1>4, InitKeys, ConstantsAssumption DEF IInv
<1> QED BY <1>1, <1>2, <1>3, <1>4 DEF Init

LEMMA NextIInv == IInv /\ [Next]_vars => IInv'
<1> SUFFICES ASSUME IInv, [Next]_vars PROVE IInv'
  OBVIOUS
<1>1. page' = page
  BY DEF Next, vars
<1>2. CASE page = "api"
  <2>1. [Api!Next]_(Api!vars)
    BY <1>2 DEF Next, vars, Api!vars
  <2> QED BY <1>1, <1>2, <2>1, NextApi, ConstantsAssumption DEF IInv
<1>3. CASE page = "session"
  <2>1. [Session!Next]_(Session!vars)
    BY <1>3 DEF Next, vars, Session!vars
  <2> QED BY <1>1, <1>3, <2>1, Session!NextModal, AccountAlone DEF IInv
<1>4. CASE page = "accounts"
  <2>1. [Switch!Next]_(Switch!vars)
    BY <1>4 DEF Next, vars, Switch!vars
  <2> QED BY <1>1, <1>4, <2>1, Switch!NextIInv DEF IInv
<1>5. CASE page = "keys"
  <2>1. [KeyPage!Next]_(KeyPage!vars)
    BY <1>5 DEF Next, vars, KeyPage!vars
  <2> QED BY <1>1, <1>5, <2>1, NextKeys, ConstantsAssumption DEF IInv
<1> QED BY <1>2, <1>3, <1>4, <1>5 DEF IInv

LEMMA IInvHolds == Spec => []IInv
  BY InitIInv, NextIInv, PTL DEF Spec

(***************************************************************************)
(* Every value of the tab, of the services and of the requests stays what  *)
(* it can be, for any callers, accounts and keys and any of the bounds.    *)
(***************************************************************************)
THEOREM TypeCorrect == Spec => []TypeOK
<1>1. IInv => TypeOK
  BY DEF IInv, TypeOK, ApiInv, KeyInv, Session!ModalInv, Session!IInv,
     Switch!IInv
<1> QED BY <1>1, IInvHolds, PTL

(***************************************************************************)
(* request() repeats no write: the service executes a POST, PUT, PATCH or  *)
(* DELETE at most once for each use of its function.                       *)
(***************************************************************************)
THEOREM WriteExecutedOnceHolds == Spec => []WriteExecutedOnce
<1>1. IInv => WriteExecutedOnce
  BY DEF IInv, ApiInv, OneAttempt, WriteExecutedOnce, Api!WriteExecutedOnce
<1> QED BY <1>1, IInvHolds, PTL

(***************************************************************************)
(* AuthContext scopes queries to the account signed in, whoever was signed *)
(* in before and whatever answers are still under way, unless somebody     *)
(* else signed in between the two answers that brought user and scope.     *)
(***************************************************************************)
THEOREM ScopeFollowsUserHolds == Spec => []ScopeFollowsUser
<1>1. IInv => ScopeFollowsUser
  BY DEF IInv, Session!ModalInv, Session!IInv, Switch!IInv,
     ScopeFollowsUser
<1> QED BY <1>1, IInvHolds, PTL

(***************************************************************************)
(* The OIDC callback that asks for a second factor still holds what it     *)
(* needs to send it.                                                       *)
(***************************************************************************)
THEOREM MfaRetryPossibleHolds == Spec => []MfaRetryPossible
<1>1. IInv => MfaRetryPossible
  BY DEF IInv, Session!ModalInv, Session!IInv, Switch!IInv,
     MfaRetryPossible, Session!CallbackHolds, Switch!CallbackHolds,
     Session!MfaRetryPossible, Switch!MfaRetryPossible
<1> QED BY <1>1, IInvHolds, PTL

(***************************************************************************)
(* Who must change the password does not get to work before the form, the  *)
(* tour or the refresh after them, with any number of requests under way.  *)
(***************************************************************************)
THEOREM NoWorkBeforePasswordChangeHolds ==
  Spec => []NoWorkBeforePasswordChange
<1>1. IInv => NoWorkBeforePasswordChange
  BY Session!ModalTells DEF IInv, NoWorkBeforePasswordChange
<1> QED BY <1>1, IInvHolds, PTL

=============================================================================
