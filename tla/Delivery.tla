------------------------------ MODULE Delivery ------------------------------
(***************************************************************************)
(* What the delivery pipeline promises for each notification, whatever     *)
(* queues, goroutines and timers carry it: once accepted it is live until  *)
(* it leaves, it is sent only while it is live, at most Limit times, and   *)
(* it never comes back.  The provider may take it at any of its attempts.  *)
(***************************************************************************)
EXTENDS Naturals

CONSTANTS Notifs, Limit

VARIABLES accepted, live, sends, taken
abstractVars == <<accepted, live, sends, taken>>

Init ==
    /\ accepted = {} /\ live = {}
    /\ sends = [n \in Notifs |-> 0]
    /\ taken = [n \in Notifs |-> 0]

(* A POST is accepted as a whole: all its notifications become live. *)
Accept(ns) ==
    /\ ns \cap accepted = {}
    /\ accepted' = accepted \cup ns
    /\ live' = live \cup ns
    /\ UNCHANGED <<sends, taken>>

(* One attempt to send n, after which n may have left the pipeline. *)
Attempt(n) ==
    /\ n \in live /\ sends[n] < Limit
    /\ sends' = [sends EXCEPT ![n] = @ + 1]
    /\ taken' \in {taken, [taken EXCEPT ![n] = @ + 1]}
    /\ live' \in {live, live \ {n}}
    /\ UNCHANGED accepted

(* n leaves: its answer is recorded, it is given up, or a full queue drops it. *)
Leave(n) ==
    /\ n \in live
    /\ live' = live \ {n}
    /\ UNCHANGED <<accepted, sends, taken>>

Next ==
    \/ \E ns \in SUBSET Notifs : Accept(ns)
    \/ \E n \in Notifs : Attempt(n) \/ Leave(n)

Spec == Init /\ [][Next]_abstractVars
=============================================================================
