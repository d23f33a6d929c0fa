-------------------------- MODULE SupervisorProps --------------------------
(***************************************************************************)
(* What the delivery pipeline promises: the properties of Supervisor.       *)
(***************************************************************************)
EXTENDS Supervisor

TypeQueues ==
    /\ queue \in Seq(Seq(Request)) /\ Len(queue) <= QueueSize
    /\ retryq \in Seq(Request) /\ Len(retryq) <= RetryqSize
    /\ cmdq \in Seq(Notifs \cup {NoNotif}) /\ Len(cmdq) <= CmdqSize
    /\ wq \in [Workers -> Seq(Request)]
    /\ \A w \in Workers : Len(wq[w]) <= WqSize
    /\ respq \in [Workers -> Seq(Response)]
    /\ \A w \in Workers : Len(respq[w]) <= RespqSize
    /\ backoff \subseteq Request /\ quota \subseteq Request
TypeGoroutines ==
    /\ worker \in [Workers -> [pc : {"select", "distribute", "retry", "hook",
                                     "join", "stopped"},
                               batch : Seq(Request), resp : Response]]
    /\ sender \in [Workers -> [Senders -> [pc : {"idle", "sending", "gone"},
                                           req : Request]]]
    /\ hook \in [Workers -> {"idle", "busy", "gone"}]
    /\ \A w \in Workers : (worker[w].pc = "distribute") = (worker[w].batch # << >>)
    /\ ticker \in [pc : {"wait", "sweep", "stopped"}, left : 0..RetryOnceCount]
    /\ ticker.pc = "sweep" => ticker.left > 0
TypeShutdown ==
    /\ closed \subseteq {"exit", "cmdq", "queue", "retryq"}
    /\ shut \in [pc : {"running", "poll", "exit", "cmdq", "wait", "retryq",
                       "done", "exited"},
                 zero : 0..RestartWaitCount, busy : 0..(MaxBusyPolls + 1),
                 zeros : SUBSET Lengths]
    /\ shut.pc \in {"running", "poll"} =>
            shut.zero < RestartWaitCount /\ shut.busy <= MaxBusyPolls
    /\ panic \in {"none", "cmdq", "queue", "retryq", "respq"}
TypeHistory ==
    /\ stats \in [sent : Nat, err : Nat, retry : Nat]
    /\ answer \in [Posts -> {"none", "accepted", "refused"}]
    /\ fate \in [Notifs -> {"new", "pending"} \cup Final]
    /\ wire \in [Notifs -> [sends : Nat, taken : Nat, unheard : Nat]]

(* The type invariant: every variable of the pipeline keeps the shape the   *)
(* declarations of supervisor.go give it, and no channel exceeds its        *)
(* capacity.                                                                *)
TypeOK ==
    /\ TypeQueues
    /\ TypeGoroutines
    /\ TypeShutdown
    /\ TypeHistory

-----------------------------------------------------------------------------
(* Where the requests of the pipeline are *)

Holding(n, reqs) == {i \in DOMAIN reqs : reqs[i].id = n}
At(tag, owner, is) == {<<tag, owner, i>> : i \in is}
Pairs == Workers \X Senders

(* The places that hold a request for n which will still lead to a send or  *)
(* to a decision about n.                                                   *)
InWorker(n, w) ==
    At("batch", w, Holding(n, worker[w].batch))
    \cup At("wq", w, Holding(n, wq[w]))
    \cup At("respq", w, {i \in DOMAIN respq[w] : respq[w][i].req.id = n})
    \cup At("sending", w, {s \in Senders : /\ sender[w][s].pc = "sending"
                                           /\ sender[w][s].req.id = n})
    \cup (IF worker[w].pc = "retry" /\ worker[w].resp.req.id = n
          THEN {<<"retry", w>>} ELSE {})
Places(n) ==
    (UNION {At("queue", i, Holding(n, queue[i])) : i \in DOMAIN queue})
    \cup (UNION {InWorker(n, w) : w \in Workers})
    \cup {<<"retryq", i>> : i \in Holding(n, retryq)}
    \cup {<<"backoff", r>> : r \in {x \in backoff : x.id = n}}
    \cup {<<"quota", r>> : r \in {x \in quota : x.id = n}}

(* The requests that each kind of place holds.  A family is what several    *)
(* channels or batches hold, each a sequence of requests.                   *)
FamilyReqs(f) == UNION {Elems(f[x]) : x \in DOMAIN f}
BatchOf == [w \in Workers |-> worker[w].batch]
ReqsOf(resps) == [i \in 1..Len(resps) |-> resps[i].req]
RespondedTo == [w \in Workers |-> ReqsOf(respq[w])]
SendingPairs == {x \in Pairs : sender[x[1]][x[2]].pc = "sending"}
RetryingWorkers == {w \in Workers : worker[w].pc = "retry"}
Kinds == {"queue", "batch", "wq", "sending", "respq", "retry", "retryq", "backoff",
          "quota"}
Held == [k \in Kinds |->
    CASE k = "queue" -> FamilyReqs(queue)
      [] k = "batch" -> FamilyReqs(BatchOf)
      [] k = "wq" -> FamilyReqs(wq)
      [] k = "sending" -> {sender[x[1]][x[2]].req : x \in SendingPairs}
      [] k = "respq" -> FamilyReqs(RespondedTo)
      [] k = "retry" -> {worker[w].resp.req : w \in RetryingWorkers}
      [] k = "retryq" -> FamilyReqs(<<retryq>>)
      [] k = "backoff" -> backoff
      [] k = "quota" -> quota]

(* Requests that wait to be sent, and those whose answer is being handled.  *)
AnsweredKinds == {"respq", "retry", "quota"}
Unsent == UNION {Held[k] : k \in Kinds \ AnsweredKinds}
Answered == UNION {Held[k] : k \in AnsweredKinds}

-----------------------------------------------------------------------------
(* A notification that was accepted and is not settled has exactly one      *)
(* request, in one queue, goroutine or timer; a settled one has none.  No   *)
(* hand-over between the goroutines of supervisor.go duplicates a request   *)
(* or loses it without this model saying where.                             *)
ExactlyOneCopy ==
    panic = "none" =>
        \A n \in Notifs :
            Cardinality(Places(n)) = IF fate[n] = "pending" THEN 1 ELSE 0

(* Tries counts the sends: a request that waits has been sent Tries times,  *)
(* one that is answered once more.  So retry() bounds the sends of a        *)
(* notification by SendRetryCount + 1, through every queue and timer.       *)
AttemptsMatchTries ==
    /\ \A r \in Unsent : r.id \in Notifs => wire[r.id].sends = r.tries
    /\ \A r \in Answered : wire[r.id].sends = r.tries + 1
    /\ \A n \in Notifs : wire[n].sends <= SendRetryCount + 1

(* A provider takes a notification twice only when an earlier acceptance    *)
(* was not heard (a timeout after the provider took it), and the recorded   *)
(* fate agrees with what it took.                                           *)
DuplicateOnlyIfUnheard ==
    \A n \in Notifs :
        LET heard == wire[n].taken - wire[n].unheard
        IN /\ heard \in {0, 1}
           /\ fate[n] = "delivered" => heard = 1
           /\ fate[n] \in {"rejected", "exhausted"} => heard = 0

(* The answer to a POST is a promise about the whole batch: refused (the    *)
(* supervisor's queue was full) means none of it is ever sent, accepted     *)
(* that all of it is in the pipeline.                                       *)
AnswerIsAPromise ==
    \A p \in Posts : \A n \in Elems(Batch[p]) :
        /\ (fate[n] = "new") = (answer[p] # "accepted")
        /\ fate[n] = "new" => wire[n].sends = 0

(* A channel that is full is the only way to lose a notification: when each *)
(* body has items, one is dropped only if more of them were accepted than   *)
(* the smallest of queue, retryq and respq has room for.                    *)
DropNeedsCrowd ==
    (\A p \in Posts : Batch[p] # << >>) /\ (\E n \in Notifs : fate[n] = "dropped") =>
        \E cap \in {QueueSize, RetryqSize, RespqSize} :
            Cardinality({n \in Notifs : fate[n] # "new"}) > cap

(* The counters of /stats/app agree with the sends, each the pair of a      *)
(* notification and a number: every resend was counted as a retry and every *)
(* retry follows a send, every delivery is in sent_count, every rejection   *)
(* in err_count, and no answer is counted twice there.                      *)
SendsMade ==
    {x \in Notifs \X (1..(SendRetryCount + 1)) : x[2] <= wire[x[1]].sends}
Resends == {x \in SendsMade : x[2] < wire[x[1]].sends}
StatsAccount ==
    /\ stats.retry \in Cardinality(Resends)..Cardinality(SendsMade)
    /\ stats.sent \in Cardinality({n \in Notifs : fate[n] = "delivered"})
                        ..Cardinality(SendsMade)
    /\ stats.err \in Cardinality({n \in Notifs : fate[n] = "rejected"})
                       ..Cardinality(SendsMade)

(* Workers leave s.queue and s.retryq before Shutdown closes them, senders  *)
(* leave respq before their worker closes it: no goroutine that the wait    *)
(* group covers uses one of these channels when it is closed, and a panic   *)
(* on one of them is that of a timer after the wait.  It is otherwise with  *)
(* cmdq, which a covered worker may find closed: LateAnswerHarmless.        *)
CoveredChannelsSafe ==
    /\ panic # "respq"
    /\ panic \in {"queue", "retryq"} => WgrpDone
    /\ \A w \in Workers :
        /\ worker[w].pc \in {"select", "distribute"} => "queue" \notin closed
        /\ worker[w].pc = "retry" => "retryq" \notin closed
        /\ \A s \in Senders : sender[w][s].pc = "sending" => ~RespqClosed(w)

(* When Shutdown has waited for the wait group, the queues of the workers   *)
(* have been sent and every hook command that was queued has run.  What is  *)
(* still pending is in the supervisor's queues, a timer, or a response      *)
(* queue nobody reads any more.                                             *)
WaitDrainsWorkers ==
    shut.pc \in {"retryq", "done", "exited"} =>
        /\ cmdq = << >>
        /\ \A w \in Workers :
            /\ wq[w] = << >> /\ worker[w].batch = << >> /\ hook[w] = "gone"
            /\ \A s \in Senders : sender[w][s].pc = "gone"

(* No goroutine waits for one that waits for it: when a worker is blocked   *)
(* on its full queue (supervisor.go:413) or on its senders, a sender can    *)
(* move, and so can everyone whom the wait group waits for.                 *)
SenderCanMove(w, s) ==
    \/ sender[w][s].pc = "sending"
    \/ sender[w][s].pc = "idle" /\ (wq[w] # << >> \/ WqClosed(w))
WorkerCanMove(w) ==
    \/ worker[w].pc \in {"retry", "hook"}
    \/ worker[w].pc = "select" /\ ("exit" \in closed \/ queue # << >> \/ respq[w] # << >>)
    \/ worker[w].pc = "distribute" /\ Len(wq[w]) < WqSize
    \/ worker[w].pc = "join" /\ \A s \in Senders : sender[w][s].pc = "gone"
    \/ worker[w].pc \in {"distribute", "join"} /\ \E s \in Senders : SenderCanMove(w, s)
HookCanMove(w) == hook[w] = "busy" \/ (hook[w] = "idle" /\ "cmdq" \in closed)
NoMutualWait ==
    \A w \in Workers :
        /\ worker[w].pc \in {"distribute", "join"} => WorkerCanMove(w)
        /\ shut.pc = "wait" => /\ worker[w].pc = "stopped" \/ WorkerCanMove(w)
                               /\ hook[w] = "gone" \/ HookCanMove(w)

(* The inductive invariant behind the three: where Shutdown is tells which    *)
(* channels are closed, and a goroutine that has left leaves nothing behind *)
(* that it alone would read.                                                *)
ClosedAt(ch, pcs) == ch \in closed <=> shut.pc \in pcs
ClosingOrder ==
    /\ ClosedAt("exit", {"cmdq", "wait", "retryq", "done", "exited"})
    /\ ClosedAt("cmdq", {"wait", "retryq", "done", "exited"})
    /\ ClosedAt("queue", {"retryq", "done", "exited"})
    /\ ClosedAt("retryq", {"done", "exited"})
    /\ "queue" \in closed => WgrpDone
    /\ panic \in {"none"} \cup closed
LeavingOrder ==
    \A w \in Workers :
        /\ RespqClosed(w) => \A s \in Senders : sender[w][s].pc = "gone"
        /\ \A s \in Senders : sender[w][s].pc = "gone" => WqClosed(w) /\ wq[w] = << >>
        /\ hook[w] = "gone" => "cmdq" \in closed /\ cmdq = << >>
ClosingInv == ClosingOrder /\ LeavingOrder

(* The inductive invariant behind the four properties of notifications      *)
(* above: no two places hold requests for one notification, the requests    *)
(* that are held are those of the pending notifications, and each of them   *)
(* agrees with what its provider saw.                                       *)
OnlyRealRequests ==
    \A k \in Kinds : \A r \in Held[k] :
        r.id \in Notifs \/ (k = "backoff" /\ r = NoReq /\ "retryq" \in closed)
OneKind ==
    \A k, l \in Kinds : \A r \in Held[k], s \in Held[l] :
        r.id = s.id => k = l /\ r = s
FamilyDistinct(f) ==
    \A x, y \in DOMAIN f : \A i \in DOMAIN f[x], j \in DOMAIN f[y] :
        f[x][i].id = f[y][j].id => x = y /\ i = j
OneSender ==
    \A v, w \in Workers, s, t \in Senders :
        /\ sender[v][s].pc = "sending" /\ sender[w][t].pc = "sending"
        /\ sender[v][s].req.id = sender[w][t].req.id
        => v = w /\ s = t
OneRetrier ==
    \A v, w \in RetryingWorkers :
        worker[v].resp.req.id = worker[w].resp.req.id => v = w
OnePlace ==
    /\ FamilyDistinct(queue) /\ FamilyDistinct(BatchOf) /\ FamilyDistinct(wq)
    /\ FamilyDistinct(RespondedTo) /\ FamilyDistinct(<<retryq>>)
    /\ OneSender /\ OneRetrier

HeldArePending ==
    /\ \A k \in Kinds : \A r \in Held[k] : r.id \in Notifs => fate[r.id] = "pending"
    /\ panic = "none" =>
         \A n \in {m \in Notifs : fate[m] = "pending"} :
             \E k \in Kinds : \E r \in Held[k] : r.id = n
TriesAgree ==
    /\ \A k \in Kinds : \A r \in Held[k] : r.id \in Notifs =>
         wire[r.id].sends = IF k \in AnsweredKinds THEN r.tries + 1 ELSE r.tries
    /\ \A n \in Notifs :
        /\ wire[n].sends <= SendRetryCount + 1
        /\ fate[n] = "new" => wire[n].sends = 0
Heard(n) == wire[n].taken - wire[n].unheard
HeardAgrees ==
    /\ \A k \in Kinds \ {"respq"} : \A r \in Held[k] : r.id \in Notifs => Heard(r.id) = 0
    /\ \A w \in Workers : \A i \in DOMAIN respq[w] :
         Heard(respq[w][i].req.id) = IF respq[w][i].ans = "ok" THEN 1 ELSE 0
    /\ \A n \in Notifs :
        /\ Heard(n) \in {0, 1}
        /\ fate[n] = "delivered" => Heard(n) = 1
        /\ fate[n] \in {"new", "rejected", "exhausted"} => Heard(n) = 0
AnswersAgree ==
    \A p \in Posts : \A n \in Elems(Batch[p]) :
        (fate[n] = "new") <=> (answer[p] # "accepted")
PlacesInv == OnlyRealRequests /\ OneKind /\ OnePlace
HistoryInv == HeldArePending /\ TriesAgree /\ HeardAgrees /\ AnswersAgree
CopyInv == PlacesInv /\ HistoryInv

(* A notification that is settled stays so: it is not sent again, and its   *)
(* fate does not change, whatever answers, timers and sweeps are still due. *)
SettledForever ==
    [][\A n \in Notifs : fate[n] \in Final =>
            fate'[n] = fate[n] /\ wire'[n] = wire[n]]_vars

(* The pipeline implements Delivery: a notification is live exactly while   *)
(* some queue, goroutine or timer holds a request for it.                   *)
Promise == INSTANCE Delivery WITH
    Limit <- SendRetryCount + 1,
    accepted <- {n \in Notifs : fate[n] # "new"},
    live <- {n \in Notifs : Places(n) # {}},
    sends <- [n \in Notifs |-> wire[n].sends],
    taken <- [n \in Notifs |-> wire[n].taken]
ImplementsDelivery == Promise!Spec

-----------------------------------------------------------------------------
(* While the server is not being stopped every accepted notification is     *)
(* settled, even if no hook command ever ends.                              *)
EveryAcceptedSettles ==
    \A n \in Notifs : fate[n] = "pending" ~> (fate[n] \in Final \/ shut.pc # "running")

(* Shutdown ends (or a panic does), whatever was queued when it began,      *)
(* provided no hook command hangs: the poll gives up, the senders, workers  *)
(* and hook goroutines all leave, and the wait group never waits for ever.  *)
HooksEnd == \A w \in Workers : []<>(hook[w] # "busy")
ShutdownEnds == HooksEnd => (shut.pc = "poll" ~> ~Up)

-----------------------------------------------------------------------------
(* What comments and the README say, and the code does not keep.            *)

(* supervisor.go:217 "Waiting for processing notification requests": when   *)
(* the wait ends by itself no send is in progress, no timer still has a     *)
(* notification, and none came back to a queue after its length was read.   *)
NothingInFlightWhenWaitEnds ==
    shut.pc = "exit" /\ ~Forced(shut.busy) =>
        /\ queue = << >> /\ retryq = << >> /\ backoff = {} /\ quota = {}
        /\ \A w \in Workers, s \in Senders : sender[w][s].pc # "sending"

(* README.md:273 "Gunfish supports graceful restarting" and README.md:245   *)
(* "Error hook command can get an each error response": stopping the server *)
(* never makes a worker that handles a late answer bring the process down.  *)
LateAnswerHarmless == panic # "cmdq"

(* supervisor.go:230 "force terminate application waiting for over 2 min":  *)
(* Shutdown ends, even when a hook command never does.                      *)
ForceTerminates == shut.pc = "poll" ~> ~Up
=============================================================================
