---------------------------- MODULE OrderRequests ---------------------------
(***************************************************************************)
(* What sending an order comes to for the caller, without queues, limits,  *)
(* retries or clocks: it is carried out at most once, and then the caller  *)
(* is told so, that it was refused, or that nobody knows.  Once he is told *)
(* nothing more happens.  This is what LiveBroker and MakerEntry assume of *)
(* the client: a request executes, is refused, or never arrives.           *)
(***************************************************************************)
EXTENDS Naturals

CONSTANT Order      \* requests that place or cancel an order

VARIABLES
    times,      \* how often each was carried out
    told        \* what its caller was told

requests == <<times, told>>

Init ==
    /\ times = [c \in Order |-> 0]
    /\ told = [c \in Order |-> "nothing"]

(* Silence is honest too: whoever is told nothing more knows nothing.      *)
Honest(n) == {"nothing", "unknown"} \cup IF n = 1 THEN {"ok"} ELSE {"rejected"}

Progress(c) ==
    /\ told[c] = "nothing"
    /\ \E n \in {times[c], 1} : \E word \in Honest(n) :
        /\ times' = [times EXCEPT ![c] = n]
        /\ told' = [told EXCEPT ![c] = word]

Next == \E c \in Order : Progress(c)
Spec == Init /\ [][Next]_requests
=============================================================================
