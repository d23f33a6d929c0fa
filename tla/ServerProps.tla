----------------------------- MODULE ServerProps -----------------------------
(***************************************************************************)
(* What the HTTP front promises: the properties of Server.                 *)
(***************************************************************************)
EXTENDS Server

Codes == {"none", "200", "400", "405", "415", "503", "aborted", "closed"}

(* The type invariant of the HTTP front; in particular the supervisor's     *)
(* queue is within its capacity and a request is answered when, and only    *)
(* when, its connection is done with.                                       *)
ServerTypeOK ==
    /\ conn \in [Clients -> {"away", "backlog", "fresh", "done"} \cup Handlers]
    /\ local \in [Clients -> [now : Nat, x : Int, old : Nat, nxtRA : Nat]]
    /\ code \in [Clients -> Codes]
    /\ \A c \in Clients : code[c] = "none" <=> conn[c] # "done"
    /\ told \in [Clients -> Nat]
    /\ su \in Nat /\ ra \in Nat /\ reqCount \in Nat /\ clock \in Nat
    /\ queued \in 0..QueueSize
    /\ serve \in {"starting", "accepting", "returned"}
    /\ sg \in {"new", "notified", "waiting", "stopping", "draining", "returned"}
    /\ sup \in {"running", "stopping", "stopped"}
    /\ signals \in Nat /\ killed \in BOOLEAN

(* Once StartServer has called Supervisor.Shutdown no handler runs and none *)
(* will: nothing is enqueued behind the back of the shutdown, which counts  *)
(* empty queues and then closes them.  Supervisor.tla relies on this where  *)
(* Enqueue needs shut.pc = "running".                                       *)
NoLateEnqueue ==
    sup # "running" => /\ Open({"fresh"} \cup Handlers) = {}
                       /\ serve = "returned"

(* Why: the goroutines of StartServer stop in order.                        *)
StoppingOrder ==
    /\ sg \in {"draining", "returned"} => serve # "accepting"
    /\ sg = "returned" => Open({"fresh"} \cup Handlers) = {}
    /\ sup # "running" => sg = "returned" /\ serve = "returned"

(* const.go calls ResetRetryAfterSecond a threshold, and a handler compares *)
(* what it is about to publish with it; but it reads RetryAfter once to     *)
(* compare it and once more to increase it (server.go:445, :446).  Still    *)
(* Retry-After exceeds the threshold only by a race, in which another       *)
(* handler has published a larger value between the two reads; it never     *)
(* falls below the minimum, and a client is told what a handler published.  *)
Published(d) == conn[d] = "reply" \/ code[d] = "503"
OverrunNeedsRace ==
    /\ RetryAfterSecond <= ra
    /\ \A c \in Clients : local[c].nxtRA > ResetRetryAfterSecond =>
         \E d \in Clients \ {c} :
            /\ Published(d) /\ local[c].old < local[d].nxtRA
            /\ local[c].nxtRA = local[d].nxtRA + Increase(local[c].x)
    /\ \A c \in Clients : code[c] = "503" =>
         \E d \in Clients : Published(d) /\ told[c] = local[d].nxtRA

(* setRetryAfter stores the time before it reads it back, so that the age   *)
(* it computes is 0, and Retry-After grows by the same step, unless another *)
(* handler stored its time between the two: then the age is the difference  *)
(* to the time of that handler, whose x = -1 is the division by zero.       *)
Stored(d) == local[d].now # 0 /\ conn[d] # "mark"
AgeNeedsRace ==
    \A c \in Clients : local[c].x # 0 =>
        \E d \in Clients \ {c} : Stored(d) /\ local[d].now = local[c].now - local[c].x

(* A request that gets as far as the queue is answered, even if the queue   *)
(* is full and no worker ever drains it: back-pressure never holds a        *)
(* connection (a signal before signal.Notify ends the process at once).     *)
NeverHeld ==
    \A c \in Clients : conn[c] = "enqueue" ~> (conn[c] = "done" \/ killed)

(* A signal that was received leads to the call of Supervisor.Shutdown,     *)
(* unless a client withholds its body for ever (http.Server has no timeouts *)
(* here): no handler, answered, refused or panicking, keeps the server open.*)
(* How Supervisor.Shutdown ends is the matter of SignalEndsProcess.         *)
BodiesArrive == \A c \in Clients : []<>(conn[c] # "serving")
Received == sg \in {"stopping", "draining", "returned"}
GracefulStop == BodiesArrive => (Received ~> sup # "running")

-----------------------------------------------------------------------------
(* What a test says, and the code does not keep.                            *)

(* server_test.go:192 "Expected status code is 503" (of a test whose name   *)
(* is prefixed so that it does not run): a well-formed request that is not  *)
(* accepted because the queue is full is told so.                           *)
FullQueueMeans503 ==
    \A c \in Clients : conn[c] = "done" /\ Verdict(Http[c]) = "queue"
                            => code[c] \in {"200", "503", "closed"}
=============================================================================
