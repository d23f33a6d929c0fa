----------------------------- MODULE Supervisor -----------------------------
(***************************************************************************)
(* The delivery pipeline of Gunfish (supervisor.go): batches of            *)
(* notifications go from the supervisor's queue to a worker, from the      *)
(* worker's queue to one of its senders, and the answer comes back through *)
(* the worker's response queue.  A failed notification waits in the retry  *)
(* queue, is swept by the ticker and is put back on the supervisor's queue *)
(* by a backoff timer.  An error response may run the hook command.        *)
(* Shutdown polls the lengths of the queues and closes the channels.       *)
(*                                                                         *)
(* A goroutine is a pc, a buffered channel a bounded sequence, a pending   *)
(* time.AfterFunc a member of a set.  A panic in any goroutine ends the    *)
(* process: no action is enabled after it.                                 *)
(***************************************************************************)
EXTENDS Integers, Sequences, FiniteSets

CONSTANTS
    Notifs,           \* the notifications of the instance
    NoNotif,          \* what the zero Request carries
    Provider,         \* [Notifs -> {"apns", "fcmv1"}]
    Replies,          \* [Notifs -> SUBSET Answers]: how its provider may answer
    Posts,            \* the POST requests of the instance
    Batch,            \* [Posts -> Seq(Notifs)]: the requests built from a body
    Workers, Senders, \* Senders is the set of sender slots of one worker
    HookCmd,          \* BOOLEAN: is error_hook configured?
    QueueSize, RetryqSize, CmdqSize, WqSize, RespqSize,   \* capacities
    SendRetryCount, RetryOnceCount, RestartWaitCount,
    MaxBusyPolls      \* RestartWaitCount * 40 * 6 in the code

Answers == {"ok", "noanswer", "expired", "transient", "quota", "refused", "unknown"}

ASSUME NotifsAssumption ==
    /\ NoNotif \notin Notifs
    /\ Provider \in [Notifs -> {"apns", "fcmv1"}]
    /\ Replies \in [Notifs -> SUBSET Answers]
    /\ Batch \in [Posts -> Seq(Notifs)]
(* A notification is one item of one body, whatever its token and payload.  *)
ASSUME BatchAssumption ==
    \A p, q \in Posts : \A i \in DOMAIN Batch[p], j \in DOMAIN Batch[q] :
        Batch[p][i] = Batch[q][j] => p = q /\ i = j
ASSUME SizesAssumption ==
    /\ {QueueSize, RetryqSize, CmdqSize, WqSize, RespqSize} \subseteq Nat \ {0}
    /\ {SendRetryCount, RetryOnceCount, RestartWaitCount, MaxBusyPolls}
         \subseteq Nat \ {0}
ASSUME HookCmdAssumption == HookCmd \in BOOLEAN
ASSUME GoroutinesAssumption == Workers # {} /\ Senders # {}

VARIABLES
    queue,    \* s.queue: batches for any worker
    retryq,   \* s.retryq: requests to resend
    cmdq,     \* s.cmdq: hook commands, by the notification they report
    closed,   \* the channels of the supervisor that have been closed
    worker,   \* the goroutine spawnWorker of each worker
    wq,       \* w.queue of each worker
    respq,    \* w.respq of each worker
    sender,   \* the goroutines spawnSender of each worker
    hook,     \* the goroutines that range over cmdq
    ticker,   \* the goroutine that sweeps retryq
    backoff,  \* time.AfterFunc timers that will put a request back on queue
    quota,    \* time.AfterFunc timers that will retry after QuotaExceeded
    shut,     \* Shutdown, from the running server to the end of main
    panic,    \* "none", or the channel whose send brought the process down
    stats,    \* srvStats: SentCount, ErrCount, RetryCount
    answer,   \* how each POST was answered
    fate,     \* history: what became of each notification
    wire      \* history: what the provider saw of it

pipeline == <<queue, retryq, backoff, quota>>
workerVars == <<worker, wq, respq, sender>>
history == <<answer, fate, wire>>
control == <<closed, shut, panic>>
vars == <<pipeline, cmdq, workerVars, hook, ticker, control, stats, history>>

Request == [id : Notifs \cup {NoNotif}, tries : 0..SendRetryCount]
NoReq == [id |-> NoNotif, tries |-> 0]
Response == [req : Request, ans : Answers]
NoResp == [req |-> NoReq, ans |-> "ok"]
Selecting == [pc |-> "select", batch |-> << >>, resp |-> NoResp]
Final == {"delivered", "rejected", "exhausted", "dropped"}

Init ==
    /\ queue = << >> /\ retryq = << >> /\ cmdq = << >>
    /\ closed = {}
    /\ worker = [w \in Workers |-> Selecting]
    /\ wq = [w \in Workers |-> << >>]
    /\ respq = [w \in Workers |-> << >>]
    /\ sender = [w \in Workers |-> [s \in Senders |-> [pc |-> "idle", req |-> NoReq]]]
    /\ hook = [w \in Workers |-> "idle"]
    /\ ticker = [pc |-> "wait", left |-> 0]
    /\ backoff = {} /\ quota = {}
    /\ shut = [pc |-> "running", zero |-> 0, busy |-> 0, zeros |-> {}]
    /\ panic = "none"
    /\ stats = [sent |-> 0, err |-> 0, retry |-> 0]
    /\ answer = [p \in Posts |-> "none"]
    /\ fate = [n \in Notifs |-> "new"]
    /\ wire = [n \in Notifs |-> [sends |-> 0, taken |-> 0, unheard |-> 0]]

Up == panic = "none" /\ shut.pc # "exited"

-----------------------------------------------------------------------------
(* Channels.  Every send of this program on a channel with other readers is *)
(* select { case ch <- v: default: }: it is lost when the channel is full,  *)
(* and panics when it is closed.                                            *)

TrySendOffByOne(ch, isClosed, cap) ==   \* mutant: the bound of the channel
    IF isClosed THEN "panic" ELSE IF Len(ch) <= cap THEN "sent" ELSE "full"
TrySend(ch, isClosed, cap) ==
    IF isClosed THEN "panic" ELSE IF Len(ch) < cap THEN "sent" ELSE "full"

Elems(q) == {q[i] : i \in 1..Len(q)}

(* fate once the copies of the notifications in ns are gone *)
Settle(ns, f) == [n \in Notifs |-> IF n \in ns THEN f ELSE fate[n]]

(* A batch that is done with leaves the worker in its select. *)
DistributingShort(batch) ==   \* mutant: the last request is forgotten
    IF Len(batch) <= 1 THEN Selecting
    ELSE [pc |-> "distribute", batch |-> batch, resp |-> NoResp]
Distributing(batch) ==
    IF batch = << >> THEN Selecting
    ELSE [pc |-> "distribute", batch |-> batch, resp |-> NoResp]

Handling(pc, resp) == [pc |-> pc, batch |-> << >>, resp |-> resp]

(* How the handlers of a response classify it: which answers are resent,    *)
(* reported to the hook, and counted.                                       *)
RetriedAlways(a) == a # "refused"   \* mutant: a success is resent, too
RetriedNow(a) == a \in {"noanswer", "expired", "transient"}
RetriedLater(a) == a = "quota"
Hooked(a) == HookCmd /\ a \in {"expired", "refused"}
SentCountedMissing(p, a) ==   \* mutant: the FCM successes are not counted
    IF p = "apns" /\ a # "noanswer" THEN 1 ELSE 0
SentCounted(p, a) ==
    IF a = "ok" \/ (p = "apns" /\ a # "noanswer") THEN 1 ELSE 0
ErrCounted(p, a) ==
    IF a \in {"refused", "unknown"} \/ (p = "apns" /\ a # "ok") THEN 1 ELSE 0
FateAfter(n, a) ==
    CASE a = "ok" -> "delivered"
      [] RetriedNow(a) \/ RetriedLater(a) -> fate[n]
      [] OTHER -> "rejected"

NextTryUncounted(req) == req   \* mutant: req.Tries++ forgotten
NextTry(req) == [req EXCEPT !.tries = @ + 1]

(* retry(): give up after SendRetryCount resends, else put the request with *)
(* one more try on retryq.                                                  *)
Retry(req) ==
    LET result == TrySend(retryq, "retryq" \in closed, RetryqSize)
    IN IF req.tries < SendRetryCount
       THEN /\ stats' = [stats EXCEPT !.retry = @ + 1]
            /\ retryq' = IF result = "sent" THEN Append(retryq, NextTry(req)) ELSE retryq
            /\ panic' = IF result = "panic" THEN "retryq" ELSE panic
            /\ fate' = IF result = "full" THEN Settle({req.id}, "dropped") ELSE fate
       ELSE /\ fate' = Settle({req.id}, "exhausted")
            /\ UNCHANGED <<stats, retryq, panic>>

-----------------------------------------------------------------------------
(* EnqueueClientRequest, called by the HTTP handlers.  StartServer calls    *)
(* Shutdown only when srv.Shutdown has returned, so no handler runs then.   *)

AnswerToAny(result) == "accepted"   \* mutant: the error is not looked at
AnswerTo(result) == IF result = "sent" THEN "accepted" ELSE "refused"

Enqueue(p) ==
    /\ Up /\ shut.pc = "running"
    /\ answer[p] = "none"
    /\ LET result == TrySend(queue, FALSE, QueueSize)
       IN /\ answer' = [answer EXCEPT ![p] = AnswerTo(result)]
          /\ queue' = IF result = "sent"
                      THEN Append(queue, [i \in 1..Len(Batch[p]) |->
                                            [id |-> Batch[p][i], tries |-> 0]])
                      ELSE queue
          /\ fate' = IF result = "sent" THEN Settle(Elems(Batch[p]), "pending")
                                        ELSE fate
    /\ UNCHANGED <<retryq, backoff, quota, cmdq, workerVars, hook, ticker,
                   control, stats, wire>>

-----------------------------------------------------------------------------
(* A worker: spawnWorker, receiveRequests, receiveResponse *)

RecvRequests(w) ==
    /\ Up /\ worker[w].pc = "select" /\ queue # << >>
    /\ worker' = [worker EXCEPT ![w] = Distributing(Head(queue))]
    /\ queue' = Tail(queue)
    /\ UNCHANGED <<retryq, backoff, quota, cmdq, wq, respq, sender, hook, ticker,
                   control, stats, history>>

(* w.queue <- req blocks while the worker's queue is full; the worker does  *)
(* not read its responses meanwhile.                                        *)
Distribute(w) ==
    /\ Up /\ worker[w].pc = "distribute" /\ Len(wq[w]) < WqSize
    /\ wq' = [wq EXCEPT ![w] = Append(@, Head(worker[w].batch))]
    /\ worker' = [worker EXCEPT ![w] = Distributing(Tail(worker[w].batch))]
    /\ UNCHANGED <<pipeline, cmdq, respq, sender, hook, ticker, control, stats,
                   history>>

(* The handler counts the answer and decides; a quota error starts a timer. *)
RecvResponse(w) ==
    /\ Up /\ worker[w].pc = "select" /\ respq[w] # << >>
    /\ LET r == Head(respq[w])
           n == r.req.id
       IN /\ worker' = [worker EXCEPT ![w] =
                 CASE RetriedNow(r.ans) -> Handling("retry", r)
                   [] Hooked(r.ans) /\ ~RetriedNow(r.ans) -> Handling("hook", r)
                   [] OTHER -> Selecting]
          /\ stats' = [stats EXCEPT !.sent = @ + SentCounted(Provider[n], r.ans),
                                    !.err = @ + ErrCounted(Provider[n], r.ans)]
          /\ quota' = IF RetriedLater(r.ans) THEN quota \cup {r.req} ELSE quota
          /\ fate' = [fate EXCEPT ![n] = FateAfter(n, r.ans)]
    /\ respq' = [respq EXCEPT ![w] = Tail(@)]
    /\ UNCHANGED <<queue, retryq, backoff, cmdq, wq, sender, hook, ticker, control,
                   answer, wire>>

WorkerRetry(w) ==
    /\ Up /\ worker[w].pc = "retry"
    /\ Retry(worker[w].resp.req)
    /\ worker' = [worker EXCEPT ![w] =
                    IF Hooked(@.resp.ans) THEN [@ EXCEPT !.pc = "hook"] ELSE Selecting]
    /\ UNCHANGED <<queue, backoff, quota, cmdq, wq, respq, sender, hook, ticker,
                   closed, shut, answer, wire>>

(* onResponse: the hook command is lost when cmdq is full. *)
WorkerHook(w) ==
    /\ Up /\ worker[w].pc = "hook"
    /\ LET result == TrySend(cmdq, "cmdq" \in closed, CmdqSize)
       IN /\ cmdq' = IF result = "sent" THEN Append(cmdq, worker[w].resp.req.id)
                                        ELSE cmdq
          /\ panic' = IF result = "panic" THEN "cmdq" ELSE panic
    /\ worker' = [worker EXCEPT ![w] = Selecting]
    /\ UNCHANGED <<pipeline, wq, respq, sender, hook, ticker, closed, shut, stats,
                   history>>

(* <-s.exit, then close(w.queue) *)
WorkerExit(w) ==
    /\ Up /\ worker[w].pc = "select" /\ "exit" \in closed
    /\ worker' = [worker EXCEPT ![w].pc = "join"]
    /\ UNCHANGED <<pipeline, cmdq, wq, respq, sender, hook, ticker, control, stats,
                   history>>

(* w.wgrp.Wait(), then the deferred close(w.respq) and s.wgrp.Done() *)
WorkerJoin(w) ==
    /\ Up /\ worker[w].pc = "join"
    /\ \A s \in Senders : sender[w][s].pc = "gone"
    /\ worker' = [worker EXCEPT ![w].pc = "stopped"]
    /\ UNCHANGED <<pipeline, cmdq, wq, respq, sender, hook, ticker, control, stats,
                   history>>

WqClosedEarly(w) == TRUE   \* mutant: a sender leaves whenever it finds no work
WqClosed(w) == worker[w].pc \in {"join", "stopped"}
RespqClosed(w) == worker[w].pc = "stopped"

-----------------------------------------------------------------------------
(* A sender: spawnSender *)

SenderTake(w, s) ==
    /\ Up /\ sender[w][s].pc = "idle" /\ wq[w] # << >>
    /\ sender' = [sender EXCEPT ![w][s] = [pc |-> "sending", req |-> Head(wq[w])]]
    /\ wq' = [wq EXCEPT ![w] = Tail(@)]
    /\ UNCHANGED <<pipeline, cmdq, worker, respq, hook, ticker, control, stats,
                   history>>

Sent(seen, a, taken) ==
    [sends |-> seen.sends + 1,
     taken |-> IF taken THEN seen.taken + 1 ELSE seen.taken,
     unheard |-> IF taken /\ a = "noanswer" THEN seen.unheard + 1 ELSE seen.unheard]

(* Send returns: the provider took the notification if it said so, and may  *)
(* have taken it when no answer came back (a timeout, a broken connection). *)
SenderAnswer(w, s, a, taken) ==
    /\ Up /\ sender[w][s].pc = "sending"
    /\ LET req == sender[w][s].req
           n == req.id
           result == TrySend(respq[w], RespqClosed(w), RespqSize)
       IN /\ a \in Replies[n]
          /\ a = "ok" => taken
          /\ taken => a \in {"ok", "noanswer"}
          /\ wire' = [wire EXCEPT ![n] = Sent(@, a, taken)]
          /\ respq' = IF result = "sent"
                      THEN [respq EXCEPT ![w] = Append(@, [req |-> req, ans |-> a])]
                      ELSE respq
          /\ fate' = IF result = "full" THEN Settle({n}, "dropped") ELSE fate
          /\ panic' = IF result = "panic" THEN "respq" ELSE panic
    /\ sender' = [sender EXCEPT ![w][s] = [pc |-> "idle", req |-> NoReq]]
    /\ UNCHANGED <<pipeline, cmdq, worker, wq, hook, ticker, closed, shut, stats,
                   answer>>

SenderGone(w, s) ==
    /\ Up /\ sender[w][s].pc = "idle" /\ wq[w] = << >> /\ WqClosed(w)
    /\ sender' = [sender EXCEPT ![w][s].pc = "gone"]
    /\ UNCHANGED <<pipeline, cmdq, worker, wq, respq, hook, ticker, control, stats,
                   history>>

-----------------------------------------------------------------------------
(* The ticker goroutine and the timers.  No one waits for them to end. *)

TickerTick ==
    /\ Up /\ ticker.pc = "wait"
    /\ ticker' = [pc |-> "sweep", left |-> RetryOnceCount]
    /\ UNCHANGED <<pipeline, cmdq, workerVars, hook, control, stats, history>>

(* One turn of the loop.  A closed and empty retryq yields the zero Request. *)
TickerSweepPeek ==   \* mutant: the request stays on retryq
    /\ Up /\ ticker.pc = "sweep" /\ ticker' = [pc |-> "wait", left |-> 0]
    /\ backoff' = backoff \cup Elems(retryq)
    /\ UNCHANGED <<queue, retryq, quota, cmdq, workerVars, hook, control, stats, history>>
TickerSweep ==
    /\ Up /\ ticker.pc = "sweep"
    /\ ticker' = IF ticker.left = 1 THEN [pc |-> "wait", left |-> 0]
                                    ELSE [ticker EXCEPT !.left = @ - 1]
    /\ IF retryq # << >>
       THEN backoff' = backoff \cup {Head(retryq)} /\ retryq' = Tail(retryq)
       ELSE /\ backoff' = IF "retryq" \in closed THEN backoff \cup {NoReq} ELSE backoff
            /\ retryq' = retryq
    /\ UNCHANGED <<queue, quota, cmdq, workerVars, hook, control, stats, history>>

TickerStop ==
    /\ Up /\ ticker.pc = "wait" /\ "exit" \in closed
    /\ ticker' = [ticker EXCEPT !.pc = "stopped"]
    /\ UNCHANGED <<pipeline, cmdq, workerVars, hook, control, stats, history>>

BackoffFire(req) ==
    /\ Up /\ req \in backoff
    /\ backoff' = backoff \ {req}
    /\ LET result == TrySend(queue, "queue" \in closed, QueueSize)
       IN /\ queue' = IF result = "sent" THEN Append(queue, <<req>>) ELSE queue
          /\ fate' = IF result = "full" THEN Settle({req.id}, "dropped") ELSE fate
          /\ panic' = IF result = "panic" THEN "queue" ELSE panic
    /\ UNCHANGED <<retryq, quota, cmdq, workerVars, hook, ticker, closed, shut, stats,
                   answer, wire>>

QuotaFire(req) ==
    /\ Up /\ req \in quota
    /\ quota' = quota \ {req}
    /\ Retry(req)
    /\ UNCHANGED <<queue, backoff, cmdq, workerVars, hook, ticker, closed, shut,
                   answer, wire>>

-----------------------------------------------------------------------------
(* The goroutines that run hook commands (InvokePipe) *)

HookStart(w) ==
    /\ Up /\ hook[w] = "idle" /\ cmdq # << >>
    /\ hook' = [hook EXCEPT ![w] = "busy"]
    /\ cmdq' = Tail(cmdq)
    /\ UNCHANGED <<pipeline, workerVars, ticker, control, stats, history>>

HookEnd(w) ==
    /\ Up /\ hook[w] = "busy"
    /\ hook' = [hook EXCEPT ![w] = "idle"]
    /\ UNCHANGED <<pipeline, cmdq, workerVars, ticker, control, stats, history>>

HookStop(w) ==
    /\ Up /\ hook[w] = "idle" /\ cmdq = << >> /\ "cmdq" \in closed
    /\ hook' = [hook EXCEPT ![w] = "gone"]
    /\ UNCHANGED <<pipeline, cmdq, workerVars, ticker, control, stats, history>>

-----------------------------------------------------------------------------
(* Shutdown *)

(* The lengths that a turn of the poll adds up, one after the other: those  *)
(* of the supervisor, then the two of each worker.                          *)
OwnLengths == {<<"queue">>, <<"cmdq">>, <<"retryq">>}
Lengths == OwnLengths \cup ({"wq", "respq"} \X Workers)
ReadBefore(x) ==
    CASE x = <<"queue">> -> {}
      [] x = <<"cmdq">> -> {<<"queue">>}
      [] x = <<"retryq">> -> {<<"queue">>, <<"cmdq">>}
      [] x[1] = "wq" -> OwnLengths
      [] x[1] = "respq" -> OwnLengths \cup {<<"wq", x[2]>>}
IsZero(x) ==
    CASE x = <<"queue">> -> queue = << >>
      [] x = <<"cmdq">> -> cmdq = << >>
      [] x = <<"retryq">> -> retryq = << >>
      [] x[1] = "wq" -> wq[x[2]] = << >>
      [] x[1] = "respq" -> respq[x[2]] = << >>

ShutdownBegin ==
    /\ Up /\ shut.pc = "running"
    /\ shut' = [shut EXCEPT !.pc = "poll"]
    /\ UNCHANGED <<pipeline, cmdq, workerVars, hook, ticker, closed, panic, stats,
                   history>>

Forced(busy) == busy > MaxBusyPolls

(* A turn of the poll ends with the first length that is not zero, whose    *)
(* sum cannot be 0 any more, or with the last one.                          *)
EndTurn(zero, busy) ==
    shut' = [pc |-> IF Forced(busy) \/ zero >= RestartWaitCount THEN "exit" ELSE "poll",
             zero |-> zero, busy |-> busy, zeros |-> {}]
ShutdownPoll(x) ==
    /\ Up /\ shut.pc = "poll"
    /\ x \notin shut.zeros /\ ReadBefore(x) \subseteq shut.zeros
    /\ IF ~IsZero(x)
       THEN EndTurn(0, shut.busy + 1)
       ELSE IF shut.zeros \cup {x} = Lengths
       THEN EndTurn(shut.zero + 1, 0)
       ELSE shut' = [shut EXCEPT !.zeros = @ \cup {x}]
    /\ UNCHANGED <<pipeline, cmdq, workerVars, hook, ticker, closed, panic, stats,
                   history>>

(* close(ch), then on to the statement at pc next *)
CloseAt(pc, ch, next) ==
    /\ Up /\ shut.pc = pc
    /\ closed' = closed \cup {ch}
    /\ shut' = [shut EXCEPT !.pc = next]
    /\ UNCHANGED <<pipeline, cmdq, workerVars, hook, ticker, panic, stats, history>>

CloseExitMissing == CloseAt("exit", "cmdq", "wait")   \* mutant: close(s.exit) forgotten
CloseExit == CloseAt("exit", "exit", "cmdq")
CloseCmdq == CloseAt("cmdq", "cmdq", "wait")

(* s.wgrp.Wait() covers the workers and the hook goroutines, nothing else. *)
WgrpDoneHooks ==     \* mutant: no wgrp.Add(1) for the workers
    \A w \in Workers : hook[w] = "gone"
WgrpDoneWorkers ==   \* mutant: no wgrp.Add(1) for the hook goroutines
    \A w \in Workers : worker[w].pc = "stopped"
WgrpDone == \A w \in Workers : worker[w].pc = "stopped" /\ hook[w] = "gone"

CloseQueue == WgrpDone /\ CloseAt("wait", "queue", "retryq")
CloseRetryq == CloseAt("retryq", "retryq", "done")

(* StartServer and main return *)
ProcessExit ==
    /\ Up /\ shut.pc = "done"
    /\ shut' = [shut EXCEPT !.pc = "exited"]
    /\ UNCHANGED <<pipeline, cmdq, workerVars, hook, ticker, closed, panic, stats,
                   history>>

-----------------------------------------------------------------------------
WorkerStep(w) ==
    \/ RecvRequests(w) \/ Distribute(w) \/ RecvResponse(w) \/ WorkerRetry(w)
    \/ WorkerHook(w) \/ WorkerExit(w) \/ WorkerJoin(w)
SenderStep(w, s) ==
    \/ SenderTake(w, s) \/ SenderGone(w, s)
    \/ \E a \in Answers, taken \in BOOLEAN : SenderAnswer(w, s, a, taken)
HookStep(w) == HookStart(w) \/ HookEnd(w) \/ HookStop(w)
TickerStep == TickerTick \/ TickerSweep \/ TickerStop
TimerStep == (\E req \in backoff : BackoffFire(req)) \/ (\E req \in quota : QuotaFire(req))
ShutdownStep ==
    \/ \E x \in Lengths : ShutdownPoll(x)
    \/ CloseExit \/ CloseCmdq \/ CloseQueue \/ CloseRetryq \/ ProcessExit

Terminated == ~Up /\ UNCHANGED vars

Next ==
    \/ \E p \in Posts : Enqueue(p)
    \/ \E w \in Workers : WorkerStep(w) \/ HookStep(w)
    \/ \E w \in Workers, s \in Senders : SenderStep(w, s)
    \/ TickerStep \/ TimerStep
    \/ ShutdownBegin \/ ShutdownStep
    \/ Terminated

Spec == Init /\ [][Next]_vars

(* The Go scheduler runs every goroutine that can run.  select chooses at   *)
(* random among its ready cases, so a case that is ready again and again is *)
(* chosen: strong fairness per case.  A send ends, by the client's timeout; *)
(* whether a hook command ends is not for this program to say.              *)
GoroutineFairness ==
    /\ \A w \in Workers :
        /\ SF_vars(RecvRequests(w)) /\ SF_vars(RecvResponse(w))
        /\ SF_vars(WorkerExit(w))
        /\ WF_vars(Distribute(w) \/ WorkerRetry(w) \/ WorkerHook(w))
        /\ WF_vars(WorkerJoin(w))
        /\ SF_vars(HookStart(w)) /\ WF_vars(HookStop(w))
    /\ \A w \in Workers, s \in Senders : SF_vars(SenderTake(w, s))
                                       /\ WF_vars(SenderStep(w, s))
    /\ WF_vars(TickerTick \/ TickerSweep) /\ WF_vars(TimerStep)
    /\ WF_vars(ShutdownStep)

FairSpec == Spec /\ GoroutineFairness
=============================================================================
