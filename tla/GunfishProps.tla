---------------------------- MODULE GunfishProps ----------------------------
(***************************************************************************)
(* What holds between the HTTP front and the pipeline.                     *)
(***************************************************************************)
EXTENDS Gunfish

(* The front over the real pipeline is the front over the queue of          *)
(* Server.tla: what its runs and proofs show holds in the whole process.    *)
ImplementsServer == S!Spec

(* The pipeline takes a body as a whole, and only one whose client has been *)
(* told 200 or is about to be (server.go:249-261): a 503 or an aborted      *)
(* connection means that it took none.  A batch that was taken goes without *)
(* its answer only if a signal kills the process before signal.Notify: no   *)
(* later shutdown, whose polls and closes may bring the process down, comes *)
(* between the hand-over and the answer.                                    *)
OkMeansTaken ==
    \A c \in Clients :
        /\ \A i \in 1..Len(Batch[c]) :
             fate[Batch[c][i]] # "new" <=> code[c] = "200" \/ conn[c] = "accepted"
        /\ conn[c] = "accepted" => (S!Up /\ P!Up) \/ killed

(* A handler that is about to enqueue finds the pipeline running and its    *)
(* queue open: the shutdown of the two happens in order (server.go:173-182).*)
EnqueueFindsItRunning ==
    \A c \in Clients : conn[c] \in S!Handlers => shut.pc = "running" /\ closed = {}

(* A signal that was received ends the process, if clients do not withhold  *)
(* bodies and no hook command hangs: whatever the pipeline holds then, the  *)
(* handlers, the server, the poll and the wait group come to an end one     *)
(* after the other (a panic of the pipeline ends the process, too).         *)
BodiesArrive == \A c \in Clients : []<>(conn[c] # "serving")
HooksEnd == \A w \in Workers : []<>(hook[w] # "busy")
Received == sg \in {"stopping", "draining", "returned"}
SignalEndsProcess ==
    BodiesArrive /\ HooksEnd => (Received ~> shut.pc = "exited" \/ panic # "none")
=============================================================================
