---------------------------- MODULE SharedFetch ----------------------------
(***************************************************************************)
(* What sharing one upstream fetch between concurrent reads of a key       *)
(* promises, whatever the mechanism.  A call is answered with what the     *)
(* cache held at some moment of the call, or with the value of a fetch     *)
(* that was under way at some moment of it; and there is never more than   *)
(* one fetch under way.  A fetched value is named by the call that fetched *)
(* it; a call that fails or is cancelled just is never answered.           *)
(***************************************************************************)
CONSTANTS Calls, NoCall

VARIABLES
    flight,  \* the call whose fetch is under way
    stored,  \* has that fetch put its value in the cache
    held,    \* the call whose value the cache holds
    ready,   \* past fetches whose value their joiners are given
    source,  \* call -> the fetch it takes its answer from
    answer   \* call -> the fetch whose value it was given

shared == <<flight, stored, held, ready, source, answer>>

Init ==
    /\ flight = NoCall
    /\ stored = FALSE
    /\ held = NoCall
    /\ ready = {}
    /\ source = [c \in Calls |-> NoCall]
    /\ answer = [c \in Calls |-> NoCall]

Hit(c) ==
    /\ source[c] = NoCall
    /\ held # NoCall
    /\ source' = [source EXCEPT ![c] = held]
    /\ answer' = [answer EXCEPT ![c] = held]
    /\ UNCHANGED <<flight, stored, held, ready>>

Start(c) ==
    /\ source[c] = NoCall
    /\ flight = NoCall
    /\ flight' = c
    /\ source' = [source EXCEPT ![c] = c]
    /\ UNCHANGED <<stored, held, ready, answer>>

Join(c) ==
    /\ source[c] = NoCall
    /\ flight # NoCall
    /\ source' = [source EXCEPT ![c] = flight]
    /\ UNCHANGED <<flight, stored, held, ready, answer>>

Store(c) ==
    /\ flight = c
    /\ ~stored
    /\ stored' = TRUE
    /\ held' = c
    /\ UNCHANGED <<flight, ready, source, answer>>

\* The fetch is over; a value is delivered only if it went to the cache.
End(c) ==
    /\ flight = c
    /\ flight' = NoCall
    /\ stored' = FALSE
    /\ \/ held' = c /\ ~stored
       \/ held' = held
    /\ \/ UNCHANGED <<ready, answer>>
       \/ /\ stored \/ held' = c
          /\ ready' \in {ready, ready \cup {c}}
          /\ answer' = [answer EXCEPT ![c] = c]
    /\ UNCHANGED source

Deliver(c) ==
    /\ source[c] \in ready
    /\ answer[c] = NoCall
    /\ answer' = [answer EXCEPT ![c] = source[c]]
    /\ UNCHANGED <<flight, stored, held, ready, source>>

Drop ==
    /\ held' = NoCall
    /\ UNCHANGED <<flight, stored, ready, source, answer>>

Next ==
    \/ \E c \in Calls : Hit(c) \/ Start(c) \/ Join(c) \/ Store(c) \/ End(c) \/ Deliver(c)
    \/ Drop

Spec == Init /\ [][Next]_shared
=============================================================================
