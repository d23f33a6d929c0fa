---------------------------- MODULE GunfishProofs ----------------------------
(***************************************************************************)
(* Proofs about the whole process, for every set of clients, notifications *)
(* and goroutines and every capacity: the front over the pipeline is the   *)
(* front of Server.tla, handlers find the pipeline running, the pipeline   *)
(* under the front is that of Supervisor.tla and keeps its promise, and    *)
(* what clients are told agrees with it.                                   *)
(***************************************************************************)
EXTENDS GunfishProps, TLAPS

(* What the composition needs to know of the pipeline's variables.          *)
IsSequence(q) == \E T : q \in Seq(T)
Shape ==
    /\ IsSequence(queue)
    /\ answer \in [Clients -> {"none", "accepted", "refused"}]

LEMMA TailShape ==
  ASSUME NEW q, IsSequence(q), q # << >>
  PROVE  IsSequence(Tail(q)) /\ Len(Tail(q)) = Len(q) - 1 /\ Len(q) \in Nat /\ Len(q) > 0
<1>1. PICK T : q \in Seq(T)
  BY DEF IsSequence
<1>2. Tail(q) \in Seq(T) /\ Len(Tail(q)) = Len(q) - 1 /\ Len(q) \in Nat /\ Len(q) > 0
  BY <1>1
<1> QED BY <1>2 DEF IsSequence

LEMMA AppendShape ==
  ASSUME NEW q, IsSequence(q), NEW e
  PROVE  IsSequence(Append(q, e)) /\ Len(Append(q, e)) = Len(q) + 1 /\ Len(q) \in Nat
<1>1. PICK T : q \in Seq(T)
  BY DEF IsSequence
<1>2. q \in Seq(T \cup {e}) /\ e \in T \cup {e}
  BY <1>1
<1>3. Append(q, e) \in Seq(T \cup {e}) /\ Len(Append(q, e)) = Len(q) + 1 /\ Len(q) \in Nat
  BY <1>2
<1> QED BY <1>3 DEF IsSequence

(* A worker takes the oldest batch or leaves the queue alone.               *)
LEMMA WorkerOnQueue ==
  ASSUME NEW w \in Workers, P!WorkerStep(w)
  PROVE  /\ UNCHANGED <<answer, closed, shut>>
         /\ \/ queue' = queue
            \/ queue # << >> /\ queue' = Tail(queue)
<1> USE DEF P!pipeline, P!workerVars, P!history, P!control
<1>1. CASE P!RecvRequests(w)
  BY <1>1 DEF P!RecvRequests
<1>2. CASE P!Distribute(w) \/ P!RecvResponse(w)
  BY <1>2 DEF P!Distribute, P!RecvResponse
<1>3. CASE P!WorkerRetry(w) \/ P!WorkerHook(w)
  BY <1>3 DEF P!WorkerRetry, P!WorkerHook
<1>4. CASE P!WorkerExit(w) \/ P!WorkerJoin(w)
  BY <1>4 DEF P!WorkerExit, P!WorkerJoin
<1> QED BY <1>1, <1>2, <1>3, <1>4 DEF P!WorkerStep

(* A timer puts a batch on the queue if there is room.                      *)
LEMMA TimerOnQueue ==
  ASSUME P!TimerStep
  PROVE  /\ UNCHANGED <<answer, closed, shut>>
         /\ \/ queue' = queue
            \/ Len(queue) < QueueSize /\ \E e : queue' = Append(queue, e)
<1> USE DEF P!pipeline, P!workerVars, P!history, P!control
<1>1. CASE \E req \in backoff : P!BackoffFire(req)
  BY <1>1 DEF P!BackoffFire, P!TrySend
<1>2. CASE \E req \in quota : P!QuotaFire(req)
  BY <1>2 DEF P!QuotaFire
<1> QED BY <1>1, <1>2 DEF P!TimerStep

(* The other goroutines do not touch the queue.                             *)
LEMMA OthersOnQueue ==
  ASSUME \/ \E w \in Workers : P!HookStep(w)
         \/ \E w \in Workers, s \in Senders : P!SenderStep(w, s)
         \/ P!TickerStep
  PROVE  UNCHANGED <<queue, answer, closed, shut>>
<1> USE DEF P!pipeline, P!workerVars, P!history, P!control
<1>1. CASE \E w \in Workers : P!HookStep(w)
  BY <1>1 DEF P!HookStep, P!HookStart, P!HookEnd, P!HookStop
<1>2. CASE \E w \in Workers, s \in Senders : P!SenderStep(w, s)
  <2>1. PICK w \in Workers, s \in Senders : P!SenderStep(w, s)
    BY <1>2
  <2>2. CASE P!SenderTake(w, s) \/ P!SenderGone(w, s)
    BY <2>2 DEF P!SenderTake, P!SenderGone
  <2>3. ASSUME NEW a \in P!Answers, NEW taken \in BOOLEAN, P!SenderAnswer(w, s, a, taken)
        PROVE  UNCHANGED <<queue, answer, closed, shut>>
    BY <2>3 DEF P!SenderAnswer
  <2> QED BY <2>1, <2>2, <2>3 DEF P!SenderStep
<1>3. CASE P!TickerStep
  BY <1>3 DEF P!TickerStep, P!TickerTick, P!TickerSweep, P!TickerStop
<1> QED BY <1>1, <1>2, <1>3

LEMMA ShutdownOnQueue ==
  ASSUME Shutdown
  PROVE  UNCHANGED <<queue, answer>>
BY DEF Shutdown, P!ShutdownPoll, P!CloseExit, P!CloseCmdq, P!CloseQueue, P!CloseRetryq,
   P!CloseAt, P!pipeline, P!workerVars, P!history

-----------------------------------------------------------------------------
(* Every step of the process is a step of the front, or none of it.         *)

(* The handler's answer is the one Server.tla gives it: TrySend finds room  *)
(* exactly if HasRoom does.                                                 *)
LEMMA PushIsEnqueue ==
  ASSUME Shape, NEW c \in Clients, Push(c)
  PROVE  S!Enqueue(c) /\ Shape'
<1>1. CASE Len(queue) < QueueSize
  <2>1. PICK e : queue' = Append(queue, e)
    BY <1>1 DEF Push, P!Enqueue, P!TrySend
  <2>2. answer' = [answer EXCEPT ![c] = "accepted"]
    BY <1>1 DEF Push, P!Enqueue, P!TrySend, P!AnswerTo
  <2>3. Len(queue') = Len(queue) + 1 /\ IsSequence(queue')
    BY <2>1, AppendShape DEF Shape
  <2>4. conn' = [conn EXCEPT ![c] = "accepted"]
    BY <2>2 DEF Push, Shape
  <2> QED BY <1>1, <2>2, <2>3, <2>4 DEF Push, Shape, S!Enqueue, S!HasRoom, S!shared, S!lifecycle
<1>2. CASE ~(Len(queue) < QueueSize)
  <2>1. queue' = queue /\ answer' = [answer EXCEPT ![c] = "refused"]
    BY <1>2 DEF Push, P!Enqueue, P!TrySend, P!AnswerTo
  <2>2. conn' = [conn EXCEPT ![c] = "clock"]
    BY <2>1 DEF Push, Shape
  <2> QED BY <1>2, <2>1, <2>2 DEF Push, Shape, S!Enqueue, S!HasRoom, S!shared, S!lifecycle
<1> QED BY <1>1, <1>2

(* A step of the pipeline is, for the front, one of a worker or of a timer. *)
LEMMA PipeIsDrain ==
  ASSUME Shape, S!Up, UNCHANGED front, UNCHANGED answer,
         \/ queue' = queue
         \/ queue # << >> /\ queue' = Tail(queue)
         \/ Len(queue) < QueueSize /\ \E e : queue' = Append(queue, e)
  PROVE  [S!Next]_(S!vars) /\ Shape'
<1> USE DEF front, S!vars, S!handlers, S!shared, S!lifecycle
<1>1. CASE queue' = queue
  BY <1>1 DEF Shape
<1>2. CASE queue # << >> /\ queue' = Tail(queue)
  <2>1. IsSequence(queue') /\ Len(queue') = Len(queue) - 1 /\ Len(queue) > 0
    BY <1>2, TailShape DEF Shape
  <2>2. S!WorkerTakes
    BY <2>1 DEF S!WorkerTakes
  <2> QED BY <2>1, <2>2 DEF S!Next, Shape
<1>3. CASE Len(queue) < QueueSize /\ \E e : queue' = Append(queue, e)
  <2>1. IsSequence(queue') /\ Len(queue') = Len(queue) + 1
    BY <1>3, AppendShape DEF Shape
  <2>2. S!TimerRequeues
    BY <1>3, <2>1 DEF S!TimerRequeues, S!HasRoom
  <2> QED BY <2>1, <2>2 DEF S!Next, Shape
<1> QED BY <1>1, <1>2, <1>3

LEMMA StepRefines ==
  ASSUME Shape, [Next]_vars
  PROVE  [S!Next]_(S!vars) /\ Shape'
<1>1. CASE UNCHANGED vars
  BY <1>1 DEF vars, front, pipeline, S!vars, S!handlers, S!shared, S!lifecycle, Shape
<1>2. CASE Terminated
  BY <1>1, <1>2 DEF Terminated
<1>3. ASSUME NEW c \in Clients, Push(c) PROVE [S!Next]_(S!vars) /\ Shape'
  BY <1>3, PushIsEnqueue DEF S!Next, S!HandlerStep
<1>4. ASSUME NEW c \in Clients, Handle(c), ~Push(c)
      PROVE  [S!Next]_(S!vars) /\ Shape'
  BY <1>4 DEF Handle, Front, pipeline, S!Next, S!HandlerStep, Shape
<1>5. ASSUME NEW c \in Clients, Front(Arrive(c) \/ S!CloseUnserved(c))
      PROVE  [S!Next]_(S!vars) /\ Shape'
  BY <1>5 DEF Arrive, Front, pipeline, S!Next, Shape
<1>6. CASE Front(\/ Listening \/ S!ServeFails \/ Closing \/ S!Tick
                 \/ \E s \in S!Signals : S!Signal(s))
  BY <1>6 DEF Listening, Closing, Front, pipeline, S!Next, Shape
<1>7. ASSUME NEW w \in Workers, Pipe(P!WorkerStep(w) \/ P!HookStep(w))
      PROVE  [S!Next]_(S!vars) /\ Shape'
  BY <1>7, WorkerOnQueue, OthersOnQueue, PipeIsDrain DEF Pipe
<1>8. ASSUME NEW w \in Workers, NEW s \in Senders, Pipe(P!SenderStep(w, s))
      PROVE  [S!Next]_(S!vars) /\ Shape'
  BY <1>8, OthersOnQueue, PipeIsDrain DEF Pipe
<1>9. CASE Pipe(P!TickerStep \/ P!TimerStep \/ Shutdown)
  BY <1>9, TimerOnQueue, OthersOnQueue, ShutdownOnQueue, PipeIsDrain DEF Pipe
<1>10. CASE Stop
  BY <1>10 DEF Stop, P!ShutdownBegin, P!pipeline, P!history, S!Next, Shape
<1>11. CASE Exit
  BY <1>11 DEF Exit, P!ProcessExit, P!pipeline, P!history, S!Next, Shape
<1> QED
  BY <1>1, <1>2, <1>3, <1>4, <1>5, <1>6, <1>7, <1>8, <1>9, <1>10, <1>11 DEF Next

(* What is checked and proved of Server.tla, where the queue is a number    *)
(* that workers and timers change, holds of the front of the real process.  *)
THEOREM FrontIsServer == Spec => ImplementsServer
<1>1. Init => S!Init /\ Shape
  <2>1. << >> \in Seq({})
    OBVIOUS
  <2> QED BY <2>1 DEF Init, P!Init, Shape, IsSequence
<1> QED BY <1>1, StepRefines, PTL DEF Spec, S!Spec, ImplementsServer

(* The module with the proofs about Server.tla, for this front.             *)
F == INSTANCE ServerProofs WITH queued <- Len(queue)

LEMMA SameFront == S!Spec => F!Spec
<1>1. S!Init => F!Init
  BY Zenon DEF S!Init, F!Init
<1>2. UNCHANGED S!vars => UNCHANGED F!vars
  BY Zenon DEF S!vars, S!handlers, S!shared, S!lifecycle, F!vars, F!handlers, F!shared,
     F!lifecycle
<1>3. S!Next => F!Next
  <2>1. ASSUME NEW c \in Clients
        PROVE  /\ S!Connect(c) => F!Connect(c)
               /\ S!Accept(c) => F!Accept(c)
               /\ S!Begin(c) => F!Begin(c)
    BY Zenon DEF S!Up, F!Up, S!shared, F!shared, S!handlers, F!handlers, S!lifecycle,
       F!lifecycle, S!Connect, F!Connect, S!Accept, F!Accept, S!Begin, F!Begin, S!Open,
       F!Open, S!Handlers, F!Handlers, S!Rejecting, F!Rejecting, S!Cardinality, F!Cardinality,
       S!IsFiniteSet, F!IsFiniteSet
  <2>2. ASSUME NEW c \in Clients
        PROVE  /\ S!CloseUnserved(c) => F!CloseUnserved(c)
               /\ S!Decide(c) => F!Decide(c)
    BY Zenon DEF S!Up, F!Up, S!shared, F!shared, S!handlers, F!handlers, S!lifecycle,
       F!lifecycle, S!CloseUnserved, F!CloseUnserved, S!Decide, F!Decide, S!Answer,
       F!Answer, S!Verdict, F!Verdict, S!MethodAllowed, F!MethodAllowed, S!MediaTypes,
       F!MediaTypes, S!ApnsVerdict, F!ApnsVerdict, S!FcmVerdict, F!FcmVerdict,
       S!TooManyOrNone, F!TooManyOrNone, S!TooManyPayloads, F!TooManyPayloads
  <2>3. ASSUME NEW c \in Clients
        PROVE  /\ S!Enqueue(c) => F!Enqueue(c)
               /\ S!AnswerOk(c) => F!AnswerOk(c)
               /\ S!RejectClock(c) => F!RejectClock(c)
               /\ S!RejectMark(c) => F!RejectMark(c)
    BY Zenon DEF S!Up, F!Up, S!shared, F!shared, S!handlers, F!handlers, S!lifecycle,
       F!lifecycle, S!Enqueue, F!Enqueue, S!AnswerOk, F!AnswerOk, S!RejectClock, F!RejectClock, S!RejectMark,
       F!RejectMark, S!HasRoom, F!HasRoom, S!Answer, F!Answer
  <2>4. ASSUME NEW c \in Clients
        PROVE  /\ S!RejectAge(c) => F!RejectAge(c)
               /\ S!RejectCompute(c) => F!RejectCompute(c)
               /\ S!RejectAdd(c) => F!RejectAdd(c)
    BY Zenon DEF S!Up, F!Up, S!shared, F!shared, S!handlers, F!handlers, S!lifecycle,
       F!lifecycle, S!RejectAge, F!RejectAge, S!RejectCompute, F!RejectCompute, S!Divides,
       F!Divides, S!Answer, F!Answer, S!RejectAdd, F!RejectAdd, S!BelowThreshold,
       F!BelowThreshold, S!Otherwise, F!Otherwise, S!Increase, F!Increase
  <2>5. ASSUME NEW c \in Clients
        PROVE  /\ S!RejectPublish(c) => F!RejectPublish(c)
               /\ S!RejectReply(c) => F!RejectReply(c)
    BY Zenon DEF S!Up, F!Up, S!shared, F!shared, S!handlers, F!handlers, S!lifecycle,
       F!lifecycle, S!RejectPublish, F!RejectPublish, S!RejectReply, F!RejectReply,
       S!Answer, F!Answer
  <2>6. ASSUME NEW c \in Clients PROVE S!HandlerStep(c) => F!HandlerStep(c)
    BY <2>3, <2>4, <2>5 DEF S!HandlerStep, F!HandlerStep
  <2>7. ASSUME NEW s PROVE S!Signal(s) => F!Signal(s)
    BY Zenon DEF S!Signal, F!Signal, S!Up, F!Up, S!Handled, F!Handled, S!handlers, F!handlers,
       S!shared, F!shared
  <2>8. /\ S!ServeStart => F!ServeStart
        /\ S!ServeFails => F!ServeFails
        /\ S!SignalNotify => F!SignalNotify
        /\ S!SignalReceive => F!SignalReceive
        /\ S!ShutdownBegins => F!ShutdownBegins
        /\ S!ShutdownReturns => F!ShutdownReturns
    BY Zenon DEF S!Up, F!Up, S!shared, F!shared, S!handlers, F!handlers, S!lifecycle,
       F!lifecycle, S!ServeStart, F!ServeStart, S!ServeFails, F!ServeFails, S!SignalNotify, F!SignalNotify,
       S!SignalReceive, F!SignalReceive, S!ShutdownBegins, F!ShutdownBegins,
       S!ShutdownReturns, F!ShutdownReturns, S!Drained, F!Drained, S!Open, F!Open,
       S!Handlers, F!Handlers, S!Rejecting, F!Rejecting
  <2>9. /\ S!MainWait => F!MainWait
        /\ S!MainReturn => F!MainReturn
        /\ S!WorkerTakes => F!WorkerTakes
    BY Zenon DEF S!Up, F!Up, S!shared, F!shared, S!handlers, F!handlers, S!lifecycle,
       F!lifecycle, S!MainWait, F!MainWait, S!MainReturn, F!MainReturn, S!WorkerTakes,
       F!WorkerTakes, S!WgDone, F!WgDone
  <2>10. /\ S!TimerRequeues => F!TimerRequeues
         /\ S!Tick => F!Tick
         /\ S!Terminated => F!Terminated
    BY Zenon DEF S!Up, F!Up, S!shared, F!shared, S!handlers, F!handlers, S!lifecycle,
       F!lifecycle, S!TimerRequeues, F!TimerRequeues, S!Tick, F!Tick, S!Terminated,
       F!Terminated, S!HasRoom, F!HasRoom, S!vars, F!vars
  <2> QED
    BY <2>1, <2>2, <2>6, <2>7, <2>8, <2>9, <2>10 DEF S!Next, F!Next, S!Signals, F!Signals
<1>4. [S!Next]_(S!vars) => [F!Next]_(F!vars)
  BY <1>2, <1>3
<1> QED BY <1>1, <1>4, PTL DEF S!Spec, F!Spec

LEMMA FrontAssumed == F!HttpAssumption /\ F!LimitsAssumption
BY FrontAssumption
   DEF S!HttpAssumption, S!LimitsAssumption, F!HttpAssumption, F!LimitsAssumption,
       S!HttpRequest, F!HttpRequest

(* What the pipeline does to the queue breaks nothing of the front either:  *)
(* Retry-After exceeds its threshold and ages differ from 0 only in races   *)
(* of handlers, and nothing is enqueued behind the back of the shutdown.    *)
THEOREM ProcessKeepsFront ==
  Spec => [](F!OverrunNeedsRace /\ F!AgeNeedsRace /\ F!NoLateEnqueue)
<1>1. Spec => F!Spec
  BY FrontIsServer, SameFront DEF ImplementsServer
<1>2. F!Spec => []F!OverrunNeedsRace
  BY FrontAssumed, F!OverrunsComeFromRaces
<1>3. F!Spec => []F!AgeNeedsRace
  BY FrontAssumed, F!AgesComeFromRaces
<1>4. F!Spec => []F!NoLateEnqueue
  BY FrontAssumed, F!HandlersFirst
<1> QED BY <1>1, <1>2, <1>3, <1>4, PTL

-----------------------------------------------------------------------------
(* The order in which the process stops: the listener, the handlers, then   *)
(* the pipeline.                                                            *)

NoHandler == \A c \in Clients : conn[c] \notin {"fresh"} \cup S!Handlers
StopOrder ==
    /\ sg \in {"draining", "returned"} => serve # "accepting"
    /\ sg = "returned" => NoHandler
    /\ sup # "running" => sg = "returned" /\ serve = "returned"
PipelineOpen ==
    /\ sup = "running" => shut.pc = "running"
    /\ shut.pc = "running" => closed = {}
Types ==
    /\ conn \in [Clients -> {"away", "backlog", "fresh", "done"} \cup S!Handlers]
    /\ "pc" \in DOMAIN shut
StopInv == Types /\ StopOrder /\ PipelineOpen

(* A step of the pipeline but for those of Shutdown, which do not start it. *)
LEMMA PipeStops ==
  ASSUME StopInv, UNCHANGED front, UNCHANGED <<closed, shut>> \/ Shutdown
  PROVE  StopInv'
<1>1. CASE UNCHANGED <<closed, shut>>
  BY <1>1 DEF StopInv, Types, StopOrder, PipelineOpen, NoHandler, front
<1>2. CASE Shutdown
  <2>1. shut.pc # "running"
    BY <1>2
    DEF Shutdown, P!ShutdownPoll, P!CloseExit, P!CloseCmdq, P!CloseQueue, P!CloseRetryq,
        P!CloseAt
  <2>2. "pc" \in DOMAIN shut' /\ shut'.pc # "running"
    <3>1. ASSUME NEW x, P!ShutdownPoll(x)
          PROVE  "pc" \in DOMAIN shut' /\ shut'.pc # "running"
      <4>1. ASSUME NEW zero, NEW busy, P!EndTurn(zero, busy)
            PROVE  "pc" \in DOMAIN shut' /\ shut'.pc # "running"
        BY <4>1 DEF P!EndTurn
      <4>2. \/ \E zero, busy : P!EndTurn(zero, busy)
            \/ \E zeros : shut' = [shut EXCEPT !.zeros = zeros]
        BY <3>1 DEF P!ShutdownPoll
      <4> QED BY <2>1, <4>1, <4>2 DEF StopInv, Types
    <3>2. ASSUME NEW pc, NEW ch, NEW next \in {"cmdq", "wait", "retryq", "done"},
                 P!CloseAt(pc, ch, next)
          PROVE  "pc" \in DOMAIN shut' /\ shut'.pc # "running"
      BY <3>2 DEF P!CloseAt, StopInv, Types
    <3> QED
      BY <1>2, <3>1, <3>2
      DEF Shutdown, P!CloseExit, P!CloseCmdq, P!CloseQueue, P!CloseRetryq
  <2> QED
    BY <2>1, <2>2 DEF StopInv, Types, StopOrder, PipelineOpen, NoHandler, front
<1> QED BY <1>1, <1>2

(* A step of a client or of its handler: nothing becomes a handler but a    *)
(* fresh connection, and nothing fresh unless Serve accepts.                *)
LEMMA ClientStops ==
  ASSUME StopInv, NEW c \in Clients,
         Handle(c) \/ Front(Arrive(c) \/ S!CloseUnserved(c))
  PROVE  StopInv'
<1>1. UNCHANGED <<serve, sg, sup, closed, shut>>
  BY DEF Handle, Push, P!Enqueue, P!control, Front, pipeline, Arrive, S!Connect,
     S!Accept, S!Begin, S!Decide, S!CloseUnserved, S!AnswerOk, S!RejectClock, S!RejectMark,
     S!RejectAge, S!RejectCompute, S!RejectAdd, S!RejectPublish, S!RejectReply, S!lifecycle
<1>2. /\ conn' \in [Clients -> {"away", "backlog", "fresh", "done"} \cup S!Handlers]
      /\ \A d \in Clients : conn'[d] \in S!Handlers =>
                              conn[d] \in {"fresh"} \cup S!Handlers
      /\ \A d \in Clients : conn'[d] = "fresh" => conn[d] = "fresh" \/ serve = "accepting"
  <2> USE DEF StopInv, Types, S!Handlers, S!Rejecting
  <2>1. CASE Push(c)
    BY <2>1 DEF Push
  <2>2. CASE Handle(c) /\ ~Push(c)
    BY <2>2 DEF Handle, Front, S!AnswerOk, S!RejectClock, S!RejectMark, S!RejectAge,
       S!RejectCompute, S!RejectAdd, S!RejectPublish, S!RejectReply, S!Answer
  <2>3. CASE Front(Arrive(c) \/ S!CloseUnserved(c))
    BY <2>3 DEF Front, Arrive, S!Connect, S!Accept, S!Begin, S!Decide,
       S!CloseUnserved, S!Answer
  <2> QED BY <2>1, <2>2, <2>3
<1>3. NoHandler /\ serve # "accepting" => NoHandler'
  BY <1>1, <1>2 DEF NoHandler
<1> QED BY <1>1, <1>2, <1>3 DEF StopInv, Types, StopOrder, PipelineOpen

(* The steps of StartServer, of a signal and of the clock.                  *)
LEMMA ServerStops ==
  ASSUME StopInv,
         \/ Front(\/ Listening \/ S!ServeFails \/ Closing \/ S!Tick
                  \/ \E s \in S!Signals : S!Signal(s))
         \/ Stop \/ Exit
  PROVE  StopInv'
<1> USE DEF StopInv, Types, StopOrder, PipelineOpen, NoHandler, S!handlers, S!lifecycle,
        S!shared
<1>1. CASE Front(\/ S!ServeStart \/ S!ServeFails \/ S!SignalNotify
               \/ S!SignalReceive \/ S!Tick)
  BY <1>1 DEF Front, pipeline, S!ServeStart, S!ServeFails, S!SignalNotify,
     S!SignalReceive, S!Tick
<1>2. CASE Front(\E s \in S!Signals : S!Signal(s))
  BY <1>2 DEF Front, pipeline, S!Signals, S!Signal, S!Handled
<1>3. CASE Front(S!ShutdownBegins)
  BY <1>3 DEF Front, pipeline, S!ShutdownBegins
<1>4. CASE Front(S!ShutdownReturns)
  BY <1>4 DEF Front, pipeline, S!ShutdownReturns, S!Drained, S!Open
<1>5. CASE Stop
  BY <1>5 DEF Stop, P!ShutdownBegin, S!MainWait, S!WgDone
<1>6. CASE Exit
  BY <1>6 DEF Exit, P!ProcessExit, S!MainReturn
<1> QED BY <1>1, <1>2, <1>3, <1>4, <1>5, <1>6 DEF Front, Listening, Closing

THEOREM StopInvariant == Spec => []StopInv
<1>1. Init => StopInv
  BY DEF Init, P!Init, S!Init, StopInv, Types, StopOrder, PipelineOpen, NoHandler,
     S!Handlers, S!Rejecting
<1>2. StopInv /\ [Next]_vars => StopInv'
  <2> SUFFICES ASSUME StopInv, [Next]_vars PROVE StopInv'
    OBVIOUS
  <2>1. CASE UNCHANGED vars
    BY <2>1 DEF vars, front, pipeline, StopInv, Types, StopOrder, PipelineOpen, NoHandler
  <2>2. CASE Terminated
    BY <2>1, <2>2 DEF Terminated
  <2>3. CASE \/ \E w \in Workers : Pipe(P!WorkerStep(w) \/ P!HookStep(w))
             \/ \E w \in Workers, s \in Senders : Pipe(P!SenderStep(w, s))
             \/ Pipe(P!TickerStep \/ P!TimerStep \/ Shutdown)
    <3>1. UNCHANGED front /\ (UNCHANGED <<closed, shut>> \/ Shutdown)
      BY <2>3, WorkerOnQueue, OthersOnQueue, TimerOnQueue DEF Pipe
    <3> QED BY <3>1, PipeStops
  <2> QED BY <2>1, <2>2, <2>3, ClientStops, ServerStops DEF Next
<1> QED BY <1>1, <1>2, PTL DEF Spec

(* A handler finds the pipeline running and its channels open, for every    *)
(* number of connections, signals and workers.                              *)
THEOREM HandlersFindItRunning == Spec => []EnqueueFindsItRunning
<1>1. StopInv => EnqueueFindsItRunning
  BY DEF StopInv, StopOrder, PipelineOpen, NoHandler, EnqueueFindsItRunning
<1> QED BY <1>1, StopInvariant, PTL
-----------------------------------------------------------------------------
(* Every step of the process is a step of the pipeline, or none of it.      *)

LEMMA PipelineStep == [Next]_vars => [P!Next]_(P!vars)
<1> SUFFICES ASSUME [Next]_vars PROVE [P!Next]_(P!vars)
  OBVIOUS
<1>1. ASSUME UNCHANGED pipeline PROVE UNCHANGED P!vars
  BY <1>1 DEF pipeline, P!vars, P!pipeline, P!workerVars, P!control, P!history
<1>2. CASE UNCHANGED vars \/ Terminated
  BY <1>1, <1>2 DEF vars, Terminated
<1>3. ASSUME NEW c \in Clients, Handle(c) \/ Front(Arrive(c) \/ S!CloseUnserved(c))
      PROVE  [P!Next]_(P!vars)
  BY <1>1, <1>3 DEF Handle, Push, Front, P!Next
<1>4. CASE Front(\/ Listening \/ S!ServeFails \/ Closing \/ S!Tick
                 \/ \E s \in S!Signals : S!Signal(s))
  BY <1>1, <1>4 DEF Front
<1>5. CASE \/ \E w \in Workers : Pipe(P!WorkerStep(w) \/ P!HookStep(w))
           \/ \E w \in Workers, s \in Senders : Pipe(P!SenderStep(w, s))
           \/ Pipe(P!TickerStep \/ P!TimerStep \/ Shutdown)
           \/ Stop \/ Exit
  BY <1>5 DEF Pipe, Shutdown, Stop, Exit, P!Next, P!ShutdownStep
<1> QED BY <1>2, <1>3, <1>4, <1>5 DEF Next

(* What is checked and proved of Supervisor.tla, where posts come from      *)
(* nowhere and shutdown begins at any time, holds of the real process.      *)
THEOREM PipelineIsSupervisor == Spec => P!Spec
<1>1. Init => P!Init
  BY DEF Init
<1> QED BY <1>1, PipelineStep, PTL DEF Spec, P!Spec

(* The modules with those proofs, for this pipeline.                        *)
C == INSTANCE StatsProofs WITH Posts <- Clients

LEMMA SamePipeline == P!Spec => C!Spec
<1>1. P!Init => C!Init
  BY Zenon
  DEF P!Init, P!Selecting, P!NoResp, P!NoReq, C!Init, C!Selecting, C!NoResp, C!NoReq
<1>2. UNCHANGED P!vars => UNCHANGED C!vars
  BY Zenon DEF P!vars, P!pipeline, P!workerVars, P!control, P!history,
     C!vars, C!pipeline, C!workerVars, C!control, C!history
<1>3. P!Next => C!Next
  BY Zenon DEF P!Next, C!Next, P!Enqueue, C!Enqueue, P!WorkerStep, C!WorkerStep,
     P!HookStep, C!HookStep, P!SenderStep, C!SenderStep, P!TickerStep,
     C!TickerStep, P!TimerStep, C!TimerStep, P!ShutdownBegin, C!ShutdownBegin,
     P!ShutdownStep, C!ShutdownStep, P!Terminated, C!Terminated,
     P!RecvRequests, C!RecvRequests, P!Distribute, C!Distribute,
     P!RecvResponse, C!RecvResponse, P!WorkerRetry, C!WorkerRetry,
     P!WorkerHook, C!WorkerHook, P!WorkerExit, C!WorkerExit, P!WorkerJoin,
     C!WorkerJoin, P!SenderTake, C!SenderTake, P!SenderGone, C!SenderGone,
     P!SenderAnswer, C!SenderAnswer, P!Answers, C!Answers, P!HookStart,
     C!HookStart, P!HookEnd, C!HookEnd, P!HookStop, C!HookStop, P!TickerTick,
     C!TickerTick, P!TickerSweep, C!TickerSweep, P!TickerStop, C!TickerStop,
     P!BackoffFire, C!BackoffFire, P!QuotaFire, C!QuotaFire, P!ShutdownPoll,
     C!ShutdownPoll, P!CloseExit, C!CloseExit, P!CloseCmdq, C!CloseCmdq,
     P!CloseQueue, C!CloseQueue, P!CloseRetryq, C!CloseRetryq, P!ProcessExit,
     C!ProcessExit, P!CloseAt, C!CloseAt, P!OwnLengths, C!OwnLengths,
     P!Lengths, C!Lengths, P!ReadBefore, C!ReadBefore, P!IsZero, C!IsZero,
     P!EndTurn, C!EndTurn, P!Forced, C!Forced, P!WgrpDone, C!WgrpDone, P!Up, C!Up, P!TrySend, C!TrySend,
     P!AnswerTo, C!AnswerTo, P!Elems, C!Elems, P!Settle, C!Settle,
     P!Distributing, C!Distributing, P!Selecting, C!Selecting, P!Handling,
     C!Handling, P!RetriedNow, C!RetriedNow, P!RetriedLater, C!RetriedLater,
     P!Hooked, C!Hooked, P!SentCounted, C!SentCounted, P!ErrCounted,
     C!ErrCounted, P!FateAfter, C!FateAfter, P!NextTry, C!NextTry, P!Retry,
     C!Retry, P!WqClosed, C!WqClosed, P!RespqClosed, C!RespqClosed, P!Sent,
     C!Sent, P!NoResp, C!NoResp, P!NoReq, C!NoReq, P!vars, C!vars, P!pipeline,
     C!pipeline, P!workerVars, C!workerVars, P!control, C!control, P!history,
     C!history
<1>4. [P!Next]_(P!vars) => [C!Next]_(C!vars)
  BY <1>2, <1>3
<1> QED BY <1>1, <1>4, PTL DEF P!Spec, C!Spec

LEMMA PipelineAssumed ==
  /\ C!NotifsAssumption /\ C!BatchAssumption /\ C!SizesAssumption
  /\ C!HookCmdAssumption /\ C!GoroutinesAssumption
BY PipelineAssumption
DEF P!NotifsAssumption, C!NotifsAssumption, P!BatchAssumption, C!BatchAssumption,
    P!SizesAssumption, C!SizesAssumption, P!HookCmdAssumption, C!HookCmdAssumption,
    P!GoroutinesAssumption, C!GoroutinesAssumption, P!Answers, C!Answers

(* The process delivers what Delivery.tla promises, whatever the HTTP front *)
(* does: no step of a handler, of a signal or of the server gets in the way.*)
THEOREM ProcessDelivers == Spec => C!ImplementsDelivery
<1>1. C!Spec => C!ImplementsDelivery
  BY PipelineAssumed, C!PipelineDelivers
<1> QED BY <1>1, PipelineIsSupervisor, SamePipeline, PTL

(* Nor does a step of the front, or a handler that runs when the shutdown   *)
(* begins, break the safety of the pipeline: one copy of each pending       *)
(* notification, which was sent as often as its tries say and is not taken  *)
(* twice unheard, posts that are taken whole, counters that agree with the  *)
(* sends, and channels that are closed after their last use.                *)
THEOREM ProcessKeepsPipeline ==
  Spec => [](/\ C!ExactlyOneCopy /\ C!AttemptsMatchTries /\ C!DuplicateOnlyIfUnheard
             /\ C!AnswerIsAPromise /\ C!StatsAccount /\ C!CoveredChannelsSafe
             /\ C!WaitDrainsWorkers /\ C!NoMutualWait)
<1>1. Spec => C!Spec
  BY PipelineIsSupervisor, SamePipeline
<1>2. C!Spec => []C!ExactlyOneCopy
  BY PipelineAssumed, C!ExactlyOne
<1>3. C!Spec => []C!AttemptsMatchTries
  BY PipelineAssumed, C!TriesCountSends
<1>4. C!Spec => []C!DuplicateOnlyIfUnheard
  BY PipelineAssumed, C!NoHeardDuplicate
<1>5. C!Spec => []C!AnswerIsAPromise
  BY PipelineAssumed, C!PostsArePromises
<1>6. C!Spec => []C!StatsAccount
  BY PipelineAssumed, C!CountersAgree
<1>7. C!Spec => []C!CoveredChannelsSafe
  BY PipelineAssumed, C!ChannelsSafe
<1>8. C!Spec => []C!WaitDrainsWorkers
  BY PipelineAssumed, C!WaitDrains
<1>9. C!Spec => []C!NoMutualWait
  BY PipelineAssumed, C!NoRing
<1> QED BY <1>1, <1>2, <1>3, <1>4, <1>5, <1>6, <1>7, <1>8, <1>9, PTL

-----------------------------------------------------------------------------
(* What a client is told.                                                   *)

Codes == {"none", "200", "400", "405", "415", "503", "aborted", "closed"}

(* A client has been told 200, or is about to be, exactly if the pipeline   *)
(* accepted its batch, and it is told nothing else.                         *)
CodeInv ==
    /\ code \in [Clients -> Codes]
    /\ answer \in [Clients -> {"none", "accepted", "refused"}]
    /\ conn \in [Clients -> {"away", "backlog", "fresh", "done"} \cup S!Handlers]
    /\ \A c \in Clients :
        /\ answer[c] = "accepted" <=> code[c] = "200" \/ conn[c] = "accepted"
        /\ code[c] = "200" => conn[c] = "done"

(* Another answer is given to a request that has none yet.                  *)
LEMMA OtherCode ==
  ASSUME CodeInv, NEW c \in Clients, conn[c] # "done",
         NEW status \in Codes, status = "200" <=> conn[c] = "accepted",
         code' = [code EXCEPT ![c] = status], conn' = [conn EXCEPT ![c] = "done"],
         answer' = answer
  PROVE  CodeInv'
BY DEF CodeInv

LEMMA OtherStage ==
  ASSUME CodeInv, NEW c \in Clients, conn[c] # "done",
         NEW stage \in {"away", "backlog", "fresh", "done"} \cup S!Handlers,
         stage # "accepted", conn[c] # "accepted",
         conn' = [conn EXCEPT ![c] = stage], UNCHANGED <<code, answer>>
  PROVE  CodeInv'
BY DEF CodeInv

LEMMA PushCode ==
  ASSUME CodeInv, NEW c \in Clients, Push(c)
  PROVE  CodeInv'
<1>1. PICK v : v = P!AnswerTo(P!TrySend(queue, FALSE, QueueSize))
  OBVIOUS
<1>2. answer' = [answer EXCEPT ![c] = v] /\ answer[c] = "none" /\ conn[c] = "enqueue"
  BY <1>1 DEF Push, P!Enqueue
<1>3. v \in {"accepted", "refused"}
  BY <1>1 DEF P!AnswerTo
<1>4. answer'[c] = v
  BY <1>2 DEF CodeInv
<1>5. CASE v = "accepted"
  <2>1. code' = code /\ conn' = [conn EXCEPT ![c] = "accepted"]
    BY <1>4, <1>5 DEF Push
  <2> QED BY <1>2, <1>5, <2>1 DEF CodeInv, S!Handlers
<1>6. CASE v = "refused"
  <2>1. code' = code /\ conn' = [conn EXCEPT ![c] = "clock"]
    BY <1>4, <1>6 DEF Push
  <2> QED BY <1>2, <1>6, <2>1 DEF CodeInv, S!Handlers, S!Rejecting
<1> QED BY <1>3, <1>5, <1>6

LEMMA ClientCode ==
  ASSUME CodeInv, NEW c \in Clients,
         Handle(c) \/ Front(Arrive(c) \/ S!CloseUnserved(c)), ~Push(c)
  PROVE  CodeInv'
<1> DEFINE stages == {"away", "backlog", "fresh", "done"} \cup S!Handlers
<1>1. UNCHANGED answer
  BY DEF Handle, Front, pipeline
<1>2. S!Verdict(Http[c]) \in {"405", "415", "400", "aborted", "queue"}
  BY DEF S!Verdict, S!ApnsVerdict, S!FcmVerdict
<1>3. conn[c] # "done"
  BY DEF Handle, Front, Arrive, S!Connect, S!Accept, S!Begin, S!Decide, S!CloseUnserved,
     S!AnswerOk, S!RejectClock, S!RejectMark, S!RejectAge, S!RejectCompute, S!RejectAdd,
     S!RejectPublish, S!RejectReply
<1>4. \/ \E status \in Codes : /\ status = "200" <=> conn[c] = "accepted"
                              /\ code' = [code EXCEPT ![c] = status]
                              /\ conn' = [conn EXCEPT ![c] = "done"]
      \/ \E stage \in stages : /\ stage # "accepted" /\ conn[c] # "accepted"
                               /\ conn' = [conn EXCEPT ![c] = stage] /\ UNCHANGED code
  <2>1. CASE Front(S!CloseUnserved(c))
    BY <2>1 DEF Front, S!CloseUnserved, S!Answer, Codes
  <2>2. CASE Front(Arrive(c))
    BY <1>2, <2>2 DEF Front, Arrive, S!Connect, S!Accept, S!Begin, S!Decide, S!Answer, Codes,
       S!Handlers
  <2>3. CASE Front(S!RejectAge(c) \/ S!RejectReply(c))
    BY <2>3 DEF Front, S!RejectAge, S!RejectReply, S!Answer, Codes, S!Handlers, S!Rejecting
  <2>4. CASE Front(\/ S!RejectClock(c) \/ S!RejectMark(c) \/ S!RejectCompute(c)
                   \/ S!RejectAdd(c) \/ S!RejectPublish(c))
    BY <2>4 DEF Front, S!RejectClock, S!RejectMark, S!RejectCompute, S!RejectAdd,
       S!RejectPublish, S!Handlers, S!Rejecting
  <2>5. CASE Front(S!AnswerOk(c))
    BY <2>5 DEF Front, S!AnswerOk, S!Answer, Codes
  <2> QED BY <2>1, <2>2, <2>3, <2>4, <2>5 DEF Handle, Front
<1> QED BY <1>1, <1>3, <1>4, OtherCode, OtherStage

LEMMA CodeStep == CodeInv /\ [Next]_vars => CodeInv'
<1> SUFFICES ASSUME CodeInv, [Next]_vars PROVE CodeInv'
  OBVIOUS
<1>1. ASSUME UNCHANGED <<code, answer, conn>> PROVE CodeInv'
  BY <1>1 DEF CodeInv
<1>2. CASE UNCHANGED vars \/ Terminated
  BY <1>1, <1>2 DEF vars, front, pipeline, Terminated
<1>3. ASSUME NEW c \in Clients, Handle(c) \/ Front(Arrive(c) \/ S!CloseUnserved(c))
      PROVE  CodeInv'
  BY <1>3, PushCode, ClientCode
<1>4. CASE Front(\/ Listening \/ S!ServeFails \/ Closing \/ S!Tick
                 \/ \E s \in S!Signals : S!Signal(s))
  BY <1>1, <1>4
  DEF Front, pipeline, Listening, Closing, S!ServeStart, S!ServeFails, S!SignalNotify, S!SignalReceive,
      S!ShutdownBegins, S!ShutdownReturns, S!Tick, S!Signal, S!handlers
<1>5. CASE \/ \E w \in Workers : Pipe(P!WorkerStep(w) \/ P!HookStep(w))
           \/ \E w \in Workers, s \in Senders : Pipe(P!SenderStep(w, s))
           \/ Pipe(P!TickerStep \/ P!TimerStep \/ Shutdown)
  BY <1>1, <1>5, WorkerOnQueue, OthersOnQueue, TimerOnQueue, ShutdownOnQueue DEF Pipe, front
<1>6. CASE Stop \/ Exit
  BY <1>1, <1>6
  DEF Stop, Exit, P!ShutdownBegin, P!ProcessExit, P!history, S!MainWait, S!MainReturn,
      S!handlers
<1> QED BY <1>2, <1>3, <1>4, <1>5, <1>6 DEF Next

(* The pipeline has taken the whole body of a client that is told 200 or is *)
(* about to be, and nothing of any other; and while that answer is due no   *)
(* channel is closed yet, so that neither a panic nor the end of main keeps *)
(* it back, only a signal that kills the process.                           *)
THEOREM TakenIffOk == Spec => []OkMeansTaken
<1>1. Init => CodeInv
  BY DEF Init, S!Init, P!Init, CodeInv, Codes
<1>2. Spec => []CodeInv
  BY <1>1, CodeStep, PTL DEF Spec
<1>3. C!Spec => []C!AnswerIsAPromise /\ []C!ClosingInv
  BY PipelineAssumed, C!PostsArePromises, C!ClosesInOrder, PTL
<1>4. CodeInv /\ StopInv /\ C!AnswerIsAPromise /\ C!ClosingInv => OkMeansTaken
  <2> SUFFICES ASSUME CodeInv, StopInv, C!AnswerIsAPromise, C!ClosingInv,
                      NEW c \in Clients
               PROVE  /\ \A i \in 1..Len(Batch[c]) :
                           fate[Batch[c][i]] # "new"
                             <=> code[c] = "200" \/ conn[c] = "accepted"
                      /\ conn[c] = "accepted" => (S!Up /\ P!Up) \/ killed
    BY DEF OkMeansTaken
  <2>1. ASSUME NEW i \in 1..Len(Batch[c])
        PROVE  fate[Batch[c][i]] # "new" <=> code[c] = "200" \/ conn[c] = "accepted"
    <3>1. Batch[c][i] \in C!Elems(Batch[c])
      BY DEF C!Elems
    <3>2. (fate[Batch[c][i]] = "new") <=> (answer[c] # "accepted")
      BY <3>1 DEF C!AnswerIsAPromise
    <3> QED BY <3>2 DEF CodeInv
  <2>2. ASSUME conn[c] = "accepted", ~killed PROVE S!Up /\ P!Up
    <3>1. sup = "running" /\ shut.pc = "running" /\ closed = {}
      BY <2>2 DEF StopInv, StopOrder, NoHandler, PipelineOpen, S!Handlers
    <3>2. panic = "none"
      BY <3>1 DEF C!ClosingInv, C!ClosingOrder
    <3> QED BY <2>2, <3>1, <3>2 DEF S!Up, P!Up
  <2> QED BY <2>1, <2>2
<1> QED BY <1>2, <1>3, <1>4, StopInvariant, PipelineIsSupervisor, SamePipeline, PTL
=============================================================================
