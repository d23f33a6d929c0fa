------------------------------ MODULE Gunfish -------------------------------
(***************************************************************************)
(* The running process: the HTTP front (Server) over the delivery pipeline *)
(* (Supervisor).  They meet in three places:                               *)
(*   - a handler calls EnqueueClientRequest and answers what it returns;   *)
(*   - StartServer calls Supervisor.Shutdown when the server has stopped,  *)
(*     and returns when it does;                                           *)
(*   - they are one process: a signal that kills it, or a panic of any     *)
(*     goroutine outside net/http, ends both.                              *)
(* Everything else that one of them does leaves the other alone, except    *)
(* that workers and timers change the length of the queue the handlers     *)
(* find.                                                                   *)
(***************************************************************************)
EXTENDS Integers, Sequences

CONSTANTS
    Clients, Http, MaxItems, MaxRequestSize, MaxBulkRequests, MaxConnections,
    RetryAfterSecond, ResetRetryAfterSecond, MaxClock, MaxSignals,
    Notifs, NoNotif, Provider, Replies, Batch, Workers, Senders, HookCmd,
    QueueSize, RetryqSize, CmdqSize, WqSize, RespqSize,
    SendRetryCount, RetryOnceCount, RestartWaitCount, MaxBusyPolls

VARIABLES
    conn, local, code, told, su, ra, reqCount, clock, serve, sg, sup, signals, killed,
    queue, retryq, cmdq, closed, worker, wq, respq, sender, hook, ticker, backoff,
    quota, shut, panic, stats, answer, fate, wire

S == INSTANCE Server WITH queued <- Len(queue)
P == INSTANCE Supervisor WITH Posts <- Clients

(* The batch of a body has a request for each of its items. *)
ASSUME BatchAssumption == \A c \in Clients : Len(Batch[c]) = Http[c].items
(* What Supervisor assumes of its constants holds of these. *)
ASSUME PipelineAssumption ==
    /\ P!NotifsAssumption /\ P!BatchAssumption /\ P!SizesAssumption
    /\ P!HookCmdAssumption /\ P!GoroutinesAssumption
ASSUME FrontAssumption == S!HttpAssumption /\ S!LimitsAssumption

front == <<conn, local, code, told, su, ra, reqCount, clock, serve, sg, sup, signals,
           killed>>
pipeline == <<queue, retryq, cmdq, closed, worker, wq, respq, sender, hook, ticker,
              backoff, quota, shut, panic, stats, answer, fate, wire>>
vars == <<front, pipeline>>

Init == P!Init /\ S!Init

(* The handler of c has a batch: it enqueues it and looks at the error; the *)
(* answer to the client is a later step.                                    *)
Push(c) ==
    /\ S!Up /\ conn[c] = "enqueue"
    /\ P!Enqueue(c)
    /\ conn' = [conn EXCEPT ![c] = IF answer'[c] = "accepted" THEN "accepted" ELSE "clock"]
    /\ UNCHANGED <<local, code, told, su, ra, reqCount, clock, serve, sg, sup, signals,
                   killed>>

(* A step of one side while the process is up; the other side rests. *)
Front(A) == P!Up /\ UNCHANGED pipeline /\ A
Pipe(A) == S!Up /\ A /\ UNCHANGED front

Handle(c) ==
    \/ Push(c)
    \/ Front(\/ S!AnswerOk(c) \/ S!RejectClock(c) \/ S!RejectMark(c) \/ S!RejectAge(c)
             \/ S!RejectCompute(c) \/ S!RejectAdd(c) \/ S!RejectPublish(c)
             \/ S!RejectReply(c))
Arrive(c) == S!Connect(c) \/ S!Accept(c) \/ S!Begin(c) \/ S!Decide(c)
Listening == S!ServeStart \/ S!SignalNotify \/ S!SignalReceive
Closing == S!ShutdownBegins \/ S!ShutdownReturns
Shutdown ==
    \/ \E x \in P!Lengths : P!ShutdownPoll(x)
    \/ P!CloseExit \/ P!CloseCmdq \/ P!CloseQueue \/ P!CloseRetryq

(* sup.Shutdown() is called and, at the end of main, has returned. *)
Stop == P!ShutdownBegin /\ S!MainWait
Exit == P!ProcessExit /\ S!MainReturn

Terminated == ~(S!Up /\ P!Up) /\ UNCHANGED vars

Next ==
    \/ \E c \in Clients : Handle(c) \/ Front(Arrive(c) \/ S!CloseUnserved(c))
    \/ Front(\/ Listening \/ S!ServeFails \/ Closing \/ S!Tick
             \/ \E s \in S!Signals : S!Signal(s))
    \/ \E w \in Workers : Pipe(P!WorkerStep(w) \/ P!HookStep(w))
    \/ \E w \in Workers, s \in Senders : Pipe(P!SenderStep(w, s))
    \/ Pipe(P!TickerStep \/ P!TimerStep \/ Shutdown)
    \/ Stop \/ Exit
    \/ Terminated

Spec == Init /\ [][Next]_vars

(* The fairness of Server and of Supervisor, of the composed steps. *)
GoroutineFairness ==
    /\ \A c \in Clients : WF_vars(Handle(c)) /\ WF_vars(Front(S!CloseUnserved(c)))
    /\ WF_vars(Front(Listening)) /\ WF_vars(Front(Closing))
    /\ \A w \in Workers :
        /\ SF_vars(Pipe(P!RecvRequests(w))) /\ SF_vars(Pipe(P!RecvResponse(w)))
        /\ SF_vars(Pipe(P!WorkerExit(w)))
        /\ WF_vars(Pipe(P!Distribute(w) \/ P!WorkerRetry(w) \/ P!WorkerHook(w)))
        /\ WF_vars(Pipe(P!WorkerJoin(w)))
        /\ SF_vars(Pipe(P!HookStart(w))) /\ WF_vars(Pipe(P!HookStop(w)))
    /\ \A w \in Workers, s \in Senders : SF_vars(Pipe(P!SenderTake(w, s)))
                                       /\ WF_vars(Pipe(P!SenderStep(w, s)))
    /\ WF_vars(Pipe(P!TickerTick \/ P!TickerSweep)) /\ WF_vars(Pipe(P!TimerStep))
    /\ WF_vars(Pipe(Shutdown)) /\ WF_vars(Stop) /\ WF_vars(Exit)

FairSpec == Spec /\ GoroutineFairness
=============================================================================
