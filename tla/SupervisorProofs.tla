-------------------------- MODULE SupervisorProofs --------------------------
(***************************************************************************)
(* Proofs about Supervisor, for every instance of its constants: the types, *)
(* and the end of the pipeline, in which order Shutdown closes the channels *)
(* and the goroutines leave, and that none waits for one that waits for it. *)
(***************************************************************************)
EXTENDS SupervisorProps, TLAPS

-----------------------------------------------------------------------------
(* Sequences and the values the goroutines start from *)

(* Appending keeps the element set and adds one. *)
LEMMA AppendType ==
  ASSUME NEW S, NEW s \in Seq(S), NEW x \in S
  PROVE  Append(s, x) \in Seq(S) /\ Len(Append(s, x)) = Len(s) + 1
OBVIOUS

(* Taking the head of a queue keeps the element set and removes one. *)
LEMMA HeadTailType ==
  ASSUME NEW S, NEW s \in Seq(S), s # << >>
  PROVE  Head(s) \in S /\ Tail(s) \in Seq(S) /\ Len(Tail(s)) = Len(s) - 1
OBVIOUS

(* A function from 1..n is a sequence: how Enqueue builds its batch. *)
LEMMA FunctionIsSeq ==
  ASSUME NEW S, NEW n \in Nat, NEW f \in [1..n -> S] PROVE f \in Seq(S)
OBVIOUS

Stats == [sent : Nat, err : Nat, retry : Nat]

(* Adding to a counter keeps the record of counters. *)
LEMMA CountType ==
  ASSUME NEW st \in Stats, NEW i \in {0, 1}, NEW j \in {0, 1}
  PROVE  /\ [st EXCEPT !.sent = @ + i, !.err = @ + j] \in Stats
         /\ [st EXCEPT !.retry = @ + 1] \in Stats
<1>1. [st EXCEPT !.sent = @ + i] \in Stats /\ st.err + j \in Nat /\ st.err \in Nat
  BY DEF Stats
<1>2. [st EXCEPT !.retry = @ + 1] \in Stats
  BY DEF Stats
<1> QED BY <1>1, <1>2 DEF Stats

(* The capacities and limits are positive numbers. *)
LEMMA SizesInNat ==
  /\ QueueSize \in Nat /\ RetryqSize \in Nat /\ CmdqSize \in Nat
  /\ WqSize \in Nat /\ RespqSize \in Nat
  /\ QueueSize > 0 /\ RetryqSize > 0 /\ CmdqSize > 0 /\ WqSize > 0 /\ RespqSize > 0
  /\ SendRetryCount \in Nat /\ RetryOnceCount \in Nat
  /\ RestartWaitCount \in Nat /\ MaxBusyPolls \in Nat
  /\ SendRetryCount > 0 /\ RetryOnceCount > 0
  /\ RestartWaitCount > 0 /\ MaxBusyPolls > 0
BY SizesAssumption

(* The zero Request is a request. *)
LEMMA NoReqType == NoReq \in Request /\ NoResp \in Response
BY SizesAssumption DEF NoReq, NoResp, Request, Response, Answers

WorkerState == [pc : {"select", "distribute", "retry", "hook", "join", "stopped"},
                batch : Seq(Request), resp : Response]

SenderState == [pc : {"idle", "sending", "gone"}, req : Request]

(* A worker that goes on with a batch is in a proper state. *)
LEMMA DistributingType ==
  ASSUME NEW b \in Seq(Request)
  PROVE  /\ Distributing(b) \in WorkerState
         /\ (Distributing(b).pc = "distribute") = (Distributing(b).batch # << >>)
BY NoReqType DEF Distributing, Selecting, WorkerState

(* The state that a conjunct of an action gives, read off the action. *)
LEMMA RecvResponseStats ==
  ASSUME NEW w \in Workers, RecvResponse(w)
  PROVE  stats' = [stats EXCEPT
           !.sent = @ + SentCounted(Provider[Head(respq[w]).req.id], Head(respq[w]).ans),
           !.err = @ + ErrCounted(Provider[Head(respq[w]).req.id], Head(respq[w]).ans)]
BY DEF RecvResponse

(* The nested update of a sender that leaves, one record at a time. *)
LEMMA SenderGoneState ==
  ASSUME NEW w \in Workers, NEW s \in Senders, SenderGone(w, s)
  PROVE  sender' = [sender EXCEPT ![w] =
                      [sender[w] EXCEPT ![s] = [sender[w][s] EXCEPT !.pc = "gone"]]]
BY DEF SenderGone

(* The record of what the provider saw keeps its type. *)
LEMMA SentType ==
  ASSUME NEW seen \in [sends : Nat, taken : Nat, unheard : Nat], NEW a,
         NEW taken \in BOOLEAN
  PROVE  Sent(seen, a, taken) \in [sends : Nat, taken : Nat, unheard : Nat]
<1>1. CASE taken
  BY <1>1 DEF Sent
<1>2. CASE ~taken
  BY <1>2 DEF Sent
<1> QED BY <1>1, <1>2

(* A worker in its select holds no batch. *)
LEMMA SelectingType ==
  Selecting \in WorkerState /\ Selecting.pc # "distribute" /\ Selecting.batch = << >>
BY NoReqType DEF Selecting, WorkerState

(* Nor does one that handles a response. *)
LEMMA HandlingType ==
  ASSUME NEW pc \in {"retry", "hook"}, NEW resp \in Response
  PROVE  /\ Handling(pc, resp) \in WorkerState
         /\ Handling(pc, resp).pc # "distribute" /\ Handling(pc, resp).batch = << >>
BY DEF Handling, WorkerState

(* Settling keeps the type of fate. *)
LEMMA SettleType ==
  ASSUME TypeHistory, NEW ns, NEW f \in Final \cup {"new", "pending"}
  PROVE  Settle(ns, f) \in [Notifs -> {"new", "pending"} \cup Final]
BY DEF TypeHistory, Settle

(* What retry() changes keeps its type, whoever calls it. *)
LEMMA RetryType ==
  ASSUME TypeOK, NEW req \in Request, Retry(req)
  PROVE  /\ retryq' \in Seq(Request) /\ Len(retryq') <= RetryqSize
         /\ stats' \in [sent : Nat, err : Nat, retry : Nat]
         /\ panic' \in {"none", "cmdq", "queue", "retryq", "respq"}
         /\ fate' \in [Notifs -> {"new", "pending"} \cup Final]
<1> USE SizesInNat DEF TypeOK
<1>1. CASE req.tries < SendRetryCount
  <2> DEFINE again == NextTry(req)
             result == TrySend(retryq, "retryq" \in closed, RetryqSize)
  <2>1. again \in Request
    BY <1>1 DEF Request, NextTry
  <2>2. retryq \in Seq(Request) /\ Len(retryq) <= RetryqSize
    BY DEF TypeQueues
  <2>3. /\ Append(retryq, again) \in Seq(Request)
        /\ result = "sent" => Len(Append(retryq, again)) <= RetryqSize
    BY <2>1, <2>2, AppendType DEF TrySend
  <2> HIDE DEF again, result
  <2>4. /\ stats' = [stats EXCEPT !.retry = @ + 1]
        /\ retryq' = IF result = "sent" THEN Append(retryq, again) ELSE retryq
        /\ panic' = IF result = "panic" THEN "retryq" ELSE panic
        /\ fate' = IF result = "full" THEN Settle({req.id}, "dropped") ELSE fate
    BY <1>1 DEF Retry, again, result
  <2>5. Settle({req.id}, "dropped") \in [Notifs -> {"new", "pending"} \cup Final]
    BY SettleType DEF Final
  <2>6. retryq' \in Seq(Request) /\ Len(retryq') <= RetryqSize
    BY <2>2, <2>3, <2>4
  <2>7. stats' \in [sent : Nat, err : Nat, retry : Nat]
    <3>1. stats \in Stats
      BY DEF TypeHistory, Stats
    <3> QED BY <2>4, <3>1, CountType DEF Stats
  <2>8. panic' \in {"none", "cmdq", "queue", "retryq", "respq"}
    BY <2>4 DEF TypeShutdown
  <2>9. fate' \in [Notifs -> {"new", "pending"} \cup Final]
    BY <2>4, <2>5 DEF TypeHistory
  <2> QED BY <2>6, <2>7, <2>8, <2>9
<1>2. CASE ~(req.tries < SendRetryCount)
  <2>1. Settle({req.id}, "exhausted") \in [Notifs -> {"new", "pending"} \cup Final]
    BY SettleType DEF Final
  <2> QED BY <1>2, <2>1 DEF Retry, TypeHistory, TypeShutdown, TypeQueues
<1> QED BY <1>1, <1>2

-----------------------------------------------------------------------------
(* Each action preserves each part of the type invariant. *)

(* The initial state is well typed. *)
LEMMA InitType == Init => TypeOK
<1> SUFFICES ASSUME Init PROVE TypeOK OBVIOUS
<1> USE SizesInNat, NoReqType DEF Init
<1>1. TypeQueues
  BY DEF TypeQueues
<1>2. TypeGoroutines
  <2>1. Selecting \in WorkerState
    BY DEF Selecting, WorkerState
  <2> QED BY <2>1 DEF TypeGoroutines, WorkerState, Selecting
<1>3. TypeShutdown
  BY DEF TypeShutdown
<1>4. TypeHistory
  BY DEF TypeHistory
<1> QED BY <1>1, <1>2, <1>3, <1>4 DEF TypeOK

(* Enqueue: a whole batch fits, or the queue is unchanged. *)
LEMMA EnqueueType ==
  ASSUME TypeOK, NEW p \in Posts, Enqueue(p) PROVE TypeOK'
<1> USE SizesInNat DEF TypeOK, Enqueue
<1> DEFINE reqs == [i \in 1..Len(Batch[p]) |-> [id |-> Batch[p][i], tries |-> 0]]
<1>1. TypeQueues'
  <2>1. Batch[p] \in Seq(Notifs)
    BY NotifsAssumption
  <2>2. reqs \in Seq(Request)
    <3>1. \A i \in 1..Len(Batch[p]) : [id |-> Batch[p][i], tries |-> 0] \in Request
      BY <2>1 DEF Request
    <3>2. Len(Batch[p]) \in Nat
      BY <2>1
    <3>3. reqs \in [1..Len(Batch[p]) -> Request]
      BY <3>1
    <3> QED BY <3>2, <3>3, FunctionIsSeq
  <2> HIDE DEF reqs
  <2>3. queue \in Seq(Seq(Request)) /\ Len(queue) <= QueueSize
    BY DEF TypeQueues
  <2>4. /\ Append(queue, reqs) \in Seq(Seq(Request))
        /\ Len(queue) < QueueSize => Len(Append(queue, reqs)) <= QueueSize
    BY <2>2, <2>3, AppendType
  <2>5. queue' = queue \/ (Len(queue) < QueueSize /\ queue' = Append(queue, reqs))
    BY DEF TrySend, reqs
  <2> QED BY <2>3, <2>4, <2>5 DEF TypeQueues, workerVars
<1>2. TypeGoroutines'
  BY DEF TypeGoroutines, workerVars
<1>3. TypeShutdown'
  BY DEF TypeShutdown, control
<1>4. TypeHistory'
  <2>1. Settle(Elems(Batch[p]), "pending") \in [Notifs -> {"new", "pending"} \cup Final]
    BY SettleType
  <2>2. fate' \in {fate, Settle(Elems(Batch[p]), "pending")}
    OBVIOUS
  <2>3. answer' \in [Posts -> {"none", "accepted", "refused"}]
    BY DEF TypeHistory, AnswerTo
  <2> QED BY <2>1, <2>2, <2>3 DEF TypeHistory
<1> QED BY <1>1, <1>2, <1>3, <1>4

(* RecvRequests moves a batch from the queue to the worker. *)
LEMMA RecvRequestsType ==
  ASSUME TypeOK, NEW w \in Workers, RecvRequests(w) PROVE TypeOK'
<1> USE SizesInNat DEF TypeOK, RecvRequests
<1>1. queue \in Seq(Seq(Request)) /\ queue # << >>
  BY DEF TypeQueues
<1>2. /\ Head(queue) \in Seq(Request) /\ Tail(queue) \in Seq(Seq(Request))
      /\ Len(Tail(queue)) = Len(queue) - 1
  BY <1>1, HeadTailType
<1>3. TypeQueues'
  BY <1>1, <1>2 DEF TypeQueues
<1>4. TypeGoroutines'
  BY <1>2, DistributingType DEF TypeGoroutines, WorkerState
<1>5. TypeShutdown'
  BY DEF TypeShutdown, control
<1>6. TypeHistory'
  BY DEF TypeHistory, history
<1> QED BY <1>3, <1>4, <1>5, <1>6

(* Distribute moves one request to the queue of the worker. *)
LEMMA DistributeType ==
  ASSUME TypeOK, NEW w \in Workers, Distribute(w) PROVE TypeOK'
<1> USE SizesInNat DEF TypeOK, Distribute
<1>1. worker[w].batch \in Seq(Request) /\ worker[w].batch # << >>
  BY DEF TypeGoroutines
<1>2. /\ Head(worker[w].batch) \in Request
      /\ Tail(worker[w].batch) \in Seq(Request)
  BY <1>1, HeadTailType
<1>3. TypeQueues'
  <2>1. wq[w] \in Seq(Request)
    BY DEF TypeQueues
  <2>2. /\ Append(wq[w], Head(worker[w].batch)) \in Seq(Request)
        /\ Len(Append(wq[w], Head(worker[w].batch))) <= WqSize
    BY <1>2, <2>1, AppendType
  <2>3. wq' \in [Workers -> Seq(Request)] /\ \A v \in Workers : Len(wq'[v]) <= WqSize
    BY <2>2 DEF TypeQueues
  <2> QED BY <2>3 DEF TypeQueues, pipeline
<1>4. TypeGoroutines'
  BY <1>2, DistributingType DEF TypeGoroutines, WorkerState
<1>5. TypeShutdown'
  BY DEF TypeShutdown, control
<1>6. TypeHistory'
  BY DEF TypeHistory, history
<1> QED BY <1>3, <1>4, <1>5, <1>6

(* RecvResponse moves a response to the worker and counts it. *)
LEMMA RecvResponseType ==
  ASSUME TypeOK, NEW w \in Workers, RecvResponse(w) PROVE TypeOK'
<1> USE SizesInNat DEF TypeOK, RecvResponse
<1> DEFINE r == Head(respq[w])
<1>1. respq[w] \in Seq(Response) /\ respq[w] # << >>
  BY DEF TypeQueues
<1>2. /\ r \in Response /\ Tail(respq[w]) \in Seq(Response)
      /\ Len(Tail(respq[w])) = Len(respq[w]) - 1
  BY <1>1, HeadTailType
<1>3. r.req \in Request
  BY <1>2 DEF Response
<1>4. TypeQueues'
  <2>1. respq' = [respq EXCEPT ![w] = Tail(respq[w])]
    OBVIOUS
  <2>2. respq' \in [Workers -> Seq(Response)]
    BY <1>2, <2>1 DEF TypeQueues
  <2>3. \A v \in Workers : Len(respq'[v]) <= RespqSize
    BY <1>1, <1>2, <2>1 DEF TypeQueues
  <2>4. quota' \subseteq Request
    BY <1>3 DEF TypeQueues
  <2> QED BY <2>2, <2>3, <2>4 DEF TypeQueues
<1>5. TypeGoroutines'
  <2>1. PICK st \in {Selecting, Handling("retry", r), Handling("hook", r)} :
          worker' = [worker EXCEPT ![w] = st]
    <3>1. CASE RetriedNow(r.ans)
      BY <3>1
    <3>2. CASE Hooked(r.ans) /\ ~RetriedNow(r.ans)
      BY <3>2
    <3>3. CASE ~Hooked(r.ans) /\ ~RetriedNow(r.ans)
      BY <3>3
    <3> QED BY <3>1, <3>2, <3>3
  <2>2. st \in WorkerState /\ st.pc # "distribute" /\ st.batch = << >>
    BY ONLY <1>2, <2>1, SelectingType, HandlingType
  <2>3. worker \in [Workers -> WorkerState]
    BY DEF TypeGoroutines, WorkerState
  <2>4. worker' \in [Workers -> WorkerState]
    BY <2>1, <2>2, <2>3
  <2>5. \A v \in Workers : (worker'[v].pc = "distribute") = (worker'[v].batch # << >>)
    BY <2>1, <2>2, <2>3 DEF TypeGoroutines
  <2> QED BY <2>4, <2>5 DEF TypeGoroutines, WorkerState
<1>6. TypeShutdown'
  BY DEF TypeShutdown, control
<1>7. TypeHistory'
  <2>1. stats' \in [sent : Nat, err : Nat, retry : Nat]
    <3> DEFINE i == SentCounted(Provider[r.req.id], r.ans)
               j == ErrCounted(Provider[r.req.id], r.ans)
    <3>1. stats' = [stats EXCEPT !.sent = @ + i, !.err = @ + j]
      BY ONLY w \in Workers, RecvResponse(w), RecvResponseStats
    <3>2. i \in {0, 1} /\ j \in {0, 1}
      BY DEF SentCounted, ErrCounted
    <3>3. stats \in Stats
      BY DEF TypeHistory, Stats
    <3> HIDE DEF i, j
    <3> QED BY <3>1, <3>2, <3>3, CountType DEF Stats
  <2>2. fate' \in [Notifs -> {"new", "pending"} \cup Final]
    <3>1. r.req.id \in Notifs => FateAfter(r.req.id, r.ans) \in {"new", "pending"} \cup Final
      BY DEF FateAfter, Final, TypeHistory
    <3>2. fate' = [fate EXCEPT ![r.req.id] = FateAfter(r.req.id, r.ans)]
      OBVIOUS
    <3> QED BY <3>1, <3>2 DEF TypeHistory
  <2> QED BY <2>1, <2>2 DEF TypeHistory
<1> QED BY <1>4, <1>5, <1>6, <1>7

(* WorkerRetry calls retry(). *)
LEMMA WorkerRetryType ==
  ASSUME TypeOK, NEW w \in Workers, WorkerRetry(w) PROVE TypeOK'
<1> USE SizesInNat DEF TypeOK, WorkerRetry
<1>1. worker[w] \in WorkerState
  BY DEF TypeGoroutines, WorkerState
<1>2. worker[w].resp.req \in Request
  BY <1>1 DEF WorkerState, Response
<1>3. /\ retryq' \in Seq(Request) /\ Len(retryq') <= RetryqSize
      /\ stats' \in [sent : Nat, err : Nat, retry : Nat]
      /\ panic' \in {"none", "cmdq", "queue", "retryq", "respq"}
      /\ fate' \in [Notifs -> {"new", "pending"} \cup Final]
  BY <1>2, RetryType
<1>4. TypeQueues'
  BY <1>3 DEF TypeQueues
<1>5. TypeGoroutines'
  <2>1. worker' \in [Workers -> WorkerState]
    BY <1>1, NoReqType DEF TypeGoroutines, WorkerState, Selecting
  <2>2. worker'[w].pc # "distribute" /\ worker'[w].batch = << >>
    BY <1>1 DEF TypeGoroutines, WorkerState, Selecting
  <2> QED BY <2>1, <2>2 DEF TypeGoroutines, WorkerState
<1>6. TypeShutdown'
  BY <1>3 DEF TypeShutdown
<1>7. TypeHistory'
  BY <1>3 DEF TypeHistory
<1> QED BY <1>4, <1>5, <1>6, <1>7

(* WorkerHook offers a command to cmdq. *)
LEMMA WorkerHookType ==
  ASSUME TypeOK, NEW w \in Workers, WorkerHook(w) PROVE TypeOK'
<1> USE SizesInNat DEF TypeOK, WorkerHook
<1>1. worker[w].resp.req.id \in Notifs \cup {NoNotif}
  BY DEF TypeGoroutines, Response, Request
<1>2. TypeQueues'
  <2>1. cmdq \in Seq(Notifs \cup {NoNotif}) /\ Len(cmdq) <= CmdqSize
    BY DEF TypeQueues
  <2>2. /\ Append(cmdq, worker[w].resp.req.id) \in Seq(Notifs \cup {NoNotif})
        /\ Len(Append(cmdq, worker[w].resp.req.id)) = Len(cmdq) + 1
    BY <1>1, <2>1, AppendType
  <2>3. \/ cmdq' = cmdq
        \/ Len(cmdq) < CmdqSize /\ cmdq' = Append(cmdq, worker[w].resp.req.id)
    BY DEF TrySend
  <2> QED BY <2>1, <2>2, <2>3 DEF TypeQueues, pipeline
<1>3. TypeGoroutines'
  BY NoReqType DEF TypeGoroutines, Selecting
<1>4. TypeShutdown'
  BY DEF TypeShutdown
<1>5. TypeHistory'
  BY DEF TypeHistory, history
<1> QED BY <1>2, <1>3, <1>4, <1>5

(* The worker leaves its loop, or its deferred function runs. *)
LEMMA WorkerLeaveType ==
  ASSUME TypeOK, NEW w \in Workers, WorkerExit(w) \/ WorkerJoin(w) PROVE TypeOK'
<1> USE SizesInNat DEF TypeOK, WorkerExit, WorkerJoin
<1>1. TypeQueues'
  BY DEF TypeQueues, pipeline
<1>2. TypeGoroutines'
  <2>1. PICK pc \in {"join", "stopped"} : worker' = [worker EXCEPT ![w].pc = pc]
    OBVIOUS
  <2>2. worker[w].pc # "distribute"
    OBVIOUS
  <2>3. worker \in [Workers -> WorkerState]
    BY DEF TypeGoroutines, WorkerState
  <2>4. worker' \in [Workers -> WorkerState]
    BY <2>1, <2>3 DEF WorkerState
  <2>5. \A v \in Workers : (worker'[v].pc = "distribute") = (worker'[v].batch # << >>)
    BY <2>1, <2>2, <2>3 DEF TypeGoroutines
  <2> QED BY <2>4, <2>5 DEF TypeGoroutines, WorkerState
<1>3. TypeShutdown'
  BY DEF TypeShutdown, control
<1>4. TypeHistory'
  BY DEF TypeHistory, history
<1> QED BY <1>1, <1>2, <1>3, <1>4

(* SenderTake moves a request to the sender. *)
LEMMA SenderTakeType ==
  ASSUME TypeOK, NEW w \in Workers, NEW s \in Senders, SenderTake(w, s)
  PROVE  TypeOK'
<1> USE SizesInNat DEF TypeOK, SenderTake
<1>1. wq[w] \in Seq(Request) /\ wq[w] # << >>
  BY DEF TypeQueues
<1>2. /\ Head(wq[w]) \in Request /\ Tail(wq[w]) \in Seq(Request)
      /\ Len(Tail(wq[w])) = Len(wq[w]) - 1
  BY <1>1, HeadTailType
<1>3. TypeQueues'
  <2>1. wq' = [wq EXCEPT ![w] = Tail(wq[w])]
    OBVIOUS
  <2>2. wq' \in [Workers -> Seq(Request)] /\ \A v \in Workers : Len(wq'[v]) <= WqSize
    BY <1>1, <1>2, <2>1 DEF TypeQueues
  <2> QED BY <2>2 DEF TypeQueues, pipeline
<1>4. TypeGoroutines'
  BY <1>2 DEF TypeGoroutines
<1>5. TypeShutdown'
  BY DEF TypeShutdown, control
<1>6. TypeHistory'
  BY DEF TypeHistory, history
<1> QED BY <1>3, <1>4, <1>5, <1>6

(* SenderAnswer offers a response to respq. *)
LEMMA SenderAnswerType ==
  ASSUME TypeOK, NEW w \in Workers, NEW s \in Senders, NEW a \in Answers,
         NEW taken \in BOOLEAN, SenderAnswer(w, s, a, taken)
  PROVE  TypeOK'
<1> USE SizesInNat DEF TypeOK, SenderAnswer
<1> DEFINE req == sender[w][s].req
           result == TrySend(respq[w], RespqClosed(w), RespqSize)
           resp == [req |-> req, ans |-> a]
<1>1. req \in Request /\ resp \in Response
  BY DEF TypeGoroutines, Response
<1>2. TypeQueues'
  <2>1. respq[w] \in Seq(Response) /\ Len(respq[w]) <= RespqSize
    BY DEF TypeQueues
  <2>2. /\ Append(respq[w], resp) \in Seq(Response)
        /\ result = "sent" => Len(Append(respq[w], resp)) <= RespqSize
    BY <1>1, <2>1, AppendType DEF TrySend, RespqClosed
  <2>3. respq' = IF result = "sent" THEN [respq EXCEPT ![w] = Append(respq[w], resp)]
                                    ELSE respq
    OBVIOUS
  <2> HIDE DEF resp, result
  <2>4. /\ respq' \in [Workers -> Seq(Response)]
        /\ \A v \in Workers : Len(respq'[v]) <= RespqSize
    BY <2>2, <2>3 DEF TypeQueues
  <2> QED BY <2>4 DEF TypeQueues, pipeline
<1>3. TypeGoroutines'
  BY NoReqType DEF TypeGoroutines
<1>4. TypeShutdown'
  BY DEF TypeShutdown
<1>5. TypeHistory'
  <2>1. fate' \in {fate, Settle({req.id}, "dropped")}
    OBVIOUS
  <2>2. Settle({req.id}, "dropped") \in [Notifs -> {"new", "pending"} \cup Final]
    BY SettleType DEF Final
  <2>3. wire' \in [Notifs -> [sends : Nat, taken : Nat, unheard : Nat]]
    <3>1. wire' = [wire EXCEPT ![req.id] = Sent(wire[req.id], a, taken)]
      OBVIOUS
    <3>2. req.id \in Notifs => Sent(wire[req.id], a, taken)
                                \in [sends : Nat, taken : Nat, unheard : Nat]
      BY SentType DEF TypeHistory
    <3> QED BY <3>1, <3>2 DEF TypeHistory
  <2> QED BY <2>1, <2>2, <2>3 DEF TypeHistory
<1> QED BY <1>2, <1>3, <1>4, <1>5

(* SenderGone changes only the pc of a sender. *)
LEMMA SenderGoneType ==
  ASSUME TypeOK, NEW w \in Workers, NEW s \in Senders, SenderGone(w, s)
  PROVE  TypeOK'
<1> USE SizesInNat DEF TypeOK, SenderGone
<1>1. TypeQueues'
  BY DEF TypeQueues, pipeline
<1>2. TypeGoroutines'
  <2>1. sender \in [Workers -> [Senders -> SenderState]]
    BY DEF TypeGoroutines, SenderState
  <2>2. [sender[w][s] EXCEPT !.pc = "gone"] \in SenderState
    <3>1. sender[w][s] \in SenderState
      BY <2>1
    <3> QED BY ONLY <3>1 DEF SenderState
  <2>3. sender' = [sender EXCEPT ![w] =
                    [sender[w] EXCEPT ![s] = [sender[w][s] EXCEPT !.pc = "gone"]]]
    BY ONLY w \in Workers, s \in Senders, SenderGone(w, s), SenderGoneState
  <2>4. sender' \in [Workers -> [Senders -> SenderState]]
    BY ONLY <2>1, <2>2, <2>3, w \in Workers, s \in Senders
  <2> QED BY <2>4 DEF TypeGoroutines, SenderState
<1>3. TypeShutdown'
  BY DEF TypeShutdown, control
<1>4. TypeHistory'
  BY DEF TypeHistory, history
<1> QED BY <1>1, <1>2, <1>3, <1>4

(* The ticker moves requests from retryq to timers. *)
LEMMA TickerType == ASSUME TypeOK, TickerStep PROVE TypeOK'
<1> USE SizesInNat DEF TypeOK
<1>1. CASE TickerTick \/ TickerStop
  <2> USE <1>1 DEF TickerTick, TickerStop
  <2>1. TypeQueues'
    BY DEF TypeQueues, pipeline, workerVars
  <2>2. TypeGoroutines'
    BY DEF TypeGoroutines, workerVars
  <2>3. TypeShutdown'
    BY DEF TypeShutdown, control
  <2>4. TypeHistory'
    BY DEF TypeHistory, history
  <2> QED BY <2>1, <2>2, <2>3, <2>4
<1>2. CASE TickerSweep
  <2> USE <1>2 DEF TickerSweep
  <2>1. TypeQueues'
    <3>1. retryq \in Seq(Request) /\ Len(retryq) <= RetryqSize
      BY DEF TypeQueues
    <3>2. retryq # << >> => /\ Head(retryq) \in Request
                            /\ Tail(retryq) \in Seq(Request)
                            /\ Len(Tail(retryq)) = Len(retryq) - 1
      BY <3>1, HeadTailType
    <3>3. backoff' \subseteq Request
      BY <3>2, NoReqType DEF TypeQueues
    <3>4. retryq' = retryq \/ (retryq # << >> /\ retryq' = Tail(retryq))
      OBVIOUS
    <3>5. retryq' \in Seq(Request) /\ Len(retryq') <= RetryqSize
      <4>1. CASE retryq' = retryq
        BY <3>1, <4>1
      <4>2. CASE retryq # << >> /\ retryq' = Tail(retryq)
        BY <3>1, <3>2, <4>2
      <4> QED BY <3>4, <4>1, <4>2
    <3> QED BY <3>3, <3>5 DEF TypeQueues, workerVars
  <2>2. TypeGoroutines'
    <3>1. /\ ticker' \in [pc : {"wait", "sweep", "stopped"}, left : 0..RetryOnceCount]
          /\ ticker'.pc = "sweep" => ticker'.left > 0
      <4>1. CASE ticker.left = 1
        BY <4>1
      <4>2. CASE ticker.left # 1
        <5>1. ticker.left \in 0..RetryOnceCount /\ ticker.left > 0
          BY DEF TypeGoroutines
        <5>2. ticker' = [ticker EXCEPT !.left = ticker.left - 1]
          BY <4>2
        <5>3. ticker.left - 1 \in 0..RetryOnceCount /\ ticker.left - 1 > 0
          BY <4>2, <5>1
        <5> QED BY <5>2, <5>3 DEF TypeGoroutines
      <4> QED BY <4>1, <4>2
    <3> QED BY <3>1 DEF TypeGoroutines, workerVars
  <2>3. TypeShutdown'
    BY DEF TypeShutdown, control
  <2>4. TypeHistory'
    BY DEF TypeHistory, history
  <2> QED BY <2>1, <2>2, <2>3, <2>4
<1> QED BY <1>1, <1>2 DEF TickerStep

(* A backoff timer offers its request to the queue. *)
LEMMA BackoffFireType ==
  ASSUME TypeOK, NEW req \in backoff, BackoffFire(req) PROVE TypeOK'
<1> USE SizesInNat DEF TypeOK, BackoffFire
<1>1. TypeQueues'
  <2>1. <<req>> \in Seq(Request)
    BY DEF TypeQueues
  <2>2. queue \in Seq(Seq(Request)) /\ Len(queue) <= QueueSize
    BY DEF TypeQueues
  <2>3. /\ Append(queue, <<req>>) \in Seq(Seq(Request))
        /\ Len(Append(queue, <<req>>)) = Len(queue) + 1
    BY <2>1, <2>2, AppendType
  <2>4. \/ queue' = queue
        \/ Len(queue) < QueueSize /\ queue' = Append(queue, <<req>>)
    BY DEF TrySend
  <2>5. queue' \in Seq(Seq(Request)) /\ Len(queue') <= QueueSize
    BY <2>2, <2>3, <2>4
  <2> QED BY <2>5 DEF TypeQueues, workerVars
<1>2. TypeGoroutines'
  BY DEF TypeGoroutines, workerVars
<1>3. TypeShutdown'
  BY DEF TypeShutdown
<1>4. TypeHistory'
  <2>1. fate' \in {fate, Settle({req.id}, "dropped")}
    OBVIOUS
  <2>2. Settle({req.id}, "dropped") \in [Notifs -> {"new", "pending"} \cup Final]
    BY SettleType DEF Final
  <2> QED BY <2>1, <2>2 DEF TypeHistory
<1> QED BY <1>1, <1>2, <1>3, <1>4

(* A quota timer calls retry(). *)
LEMMA QuotaFireType ==
  ASSUME TypeOK, NEW req \in quota, QuotaFire(req) PROVE TypeOK'
<1> USE SizesInNat DEF TypeOK, QuotaFire
<1>1. req \in Request
  BY DEF TypeQueues
<1>2. /\ retryq' \in Seq(Request) /\ Len(retryq') <= RetryqSize
      /\ stats' \in [sent : Nat, err : Nat, retry : Nat]
      /\ panic' \in {"none", "cmdq", "queue", "retryq", "respq"}
      /\ fate' \in [Notifs -> {"new", "pending"} \cup Final]
  BY <1>1, RetryType
<1>3. TypeQueues'
  BY <1>2 DEF TypeQueues, workerVars
<1>4. TypeGoroutines'
  BY DEF TypeGoroutines, workerVars
<1>5. TypeShutdown'
  BY <1>2 DEF TypeShutdown
<1>6. TypeHistory'
  BY <1>2 DEF TypeHistory
<1> QED BY <1>3, <1>4, <1>5, <1>6

(* The hook goroutines only take from cmdq. *)
LEMMA HookType == ASSUME TypeOK, NEW w \in Workers, HookStep(w) PROVE TypeOK'
<1> USE SizesInNat DEF TypeOK, HookStep, HookStart, HookEnd, HookStop
<1>1. TypeQueues'
  <2>1. cmdq \in Seq(Notifs \cup {NoNotif}) /\ Len(cmdq) <= CmdqSize
    BY DEF TypeQueues
  <2>2. cmdq # << >> => /\ Tail(cmdq) \in Seq(Notifs \cup {NoNotif})
                        /\ Len(Tail(cmdq)) = Len(cmdq) - 1
    BY <2>1, HeadTailType
  <2>3. cmdq' = cmdq \/ (cmdq # << >> /\ cmdq' = Tail(cmdq))
    OBVIOUS
  <2>4. cmdq' \in Seq(Notifs \cup {NoNotif}) /\ Len(cmdq') <= CmdqSize
    BY <2>1, <2>2, <2>3
  <2> QED BY <2>4 DEF TypeQueues, pipeline, workerVars
<1>2. TypeGoroutines'
  BY DEF TypeGoroutines, workerVars
<1>3. TypeShutdown'
  BY DEF TypeShutdown, control
<1>4. TypeHistory'
  BY DEF TypeHistory, history
<1> QED BY <1>1, <1>2, <1>3, <1>4

(* Shutdown counts within its limits and closes channels. *)
LEMMA ShutdownType == ASSUME TypeOK, ShutdownBegin \/ ShutdownStep PROVE TypeOK'
<1> USE SizesInNat DEF TypeOK, ShutdownStep, ShutdownBegin, ShutdownPoll, CloseExit,
       CloseCmdq, CloseQueue, CloseRetryq, CloseAt, ProcessExit
<1>1. TypeQueues'
  BY DEF TypeQueues, pipeline, workerVars
<1>2. TypeGoroutines'
  BY DEF TypeGoroutines, workerVars
<1>3. TypeShutdown'
  <2>1. ASSUME NEW x \in Lengths, ShutdownPoll(x) PROVE TypeShutdown'
    <3>1. /\ shut.pc = "poll" /\ shut.zero \in Nat /\ shut.busy \in Nat
          /\ shut.zero < RestartWaitCount /\ shut.busy <= MaxBusyPolls
          /\ shut.zeros \in SUBSET Lengths
          /\ shut = [pc |-> "poll", zero |-> shut.zero, busy |-> shut.busy,
                     zeros |-> shut.zeros]
          /\ UNCHANGED <<closed, panic>>
      BY <2>1 DEF TypeShutdown
    <3>2. ASSUME NEW zero \in 0..RestartWaitCount, NEW busy \in 0..(MaxBusyPolls + 1),
                 EndTurn(zero, busy)
          PROVE  TypeShutdown'
      BY <3>1, <3>2 DEF EndTurn, Forced, TypeShutdown
    <3>3. CASE ~IsZero(x)
      <4>1. EndTurn(0, shut.busy + 1) /\ shut.busy + 1 \in 0..(MaxBusyPolls + 1)
        BY <2>1, <3>1, <3>3
      <4> QED BY <3>2, <4>1
    <3>4. CASE IsZero(x) /\ shut.zeros \cup {x} = Lengths
      <4>1. EndTurn(shut.zero + 1, 0) /\ shut.zero + 1 \in 0..RestartWaitCount
        BY <2>1, <3>1, <3>4
      <4> QED BY <3>2, <4>1
    <3>5. CASE IsZero(x) /\ shut.zeros \cup {x} # Lengths
      <4>1. shut' = [pc |-> "poll", zero |-> shut.zero, busy |-> shut.busy,
                     zeros |-> shut.zeros \cup {x}]
        BY <2>1, <3>1, <3>5
      <4>2. shut.zeros \cup {x} \in SUBSET Lengths
        BY <3>1
      <4> QED BY <3>1, <4>1, <4>2 DEF TypeShutdown
    <3> QED BY <3>3, <3>4, <3>5
  <2>2. CASE ShutdownBegin \/ ProcessExit
    BY <2>2 DEF TypeShutdown
  <2>3. CASE CloseExit \/ CloseCmdq \/ CloseQueue \/ CloseRetryq
    BY <2>3 DEF TypeShutdown
  <2> QED BY <2>1, <2>2, <2>3
<1>4. TypeHistory'
  BY DEF TypeHistory, history
<1> QED BY <1>1, <1>2, <1>3, <1>4

(* Type correctness does not depend on anything but the variables. *)
LEMMA StutterType == ASSUME TypeOK, UNCHANGED vars PROVE TypeOK'
BY DEF TypeOK, TypeQueues, TypeGoroutines, TypeShutdown, TypeHistory, vars, pipeline,
       workerVars, history, control

-----------------------------------------------------------------------------
(* TypeOK holds in every state of every instance: the bounded channels, the *)
(* states of the goroutines and the counters of the poll stay in range.     *)
THEOREM TypeCorrect == Spec => []TypeOK
<1>1. Init => TypeOK
  BY InitType
<1>2. TypeOK /\ [Next]_vars => TypeOK'
  <2> SUFFICES ASSUME TypeOK, [Next]_vars PROVE TypeOK'
    OBVIOUS
  <2>1. ASSUME NEW p \in Posts, Enqueue(p) PROVE TypeOK'
    BY <2>1, EnqueueType
  <2>2. ASSUME NEW w \in Workers, WorkerStep(w) PROVE TypeOK'
    BY <2>2, RecvRequestsType, DistributeType, RecvResponseType, WorkerRetryType,
       WorkerHookType, WorkerLeaveType DEF WorkerStep
  <2>3. ASSUME NEW w \in Workers, HookStep(w) PROVE TypeOK'
    BY <2>3, HookType
  <2>4. ASSUME NEW w \in Workers, NEW s \in Senders, SenderStep(w, s) PROVE TypeOK'
    BY <2>4, SenderTakeType, SenderAnswerType, SenderGoneType DEF SenderStep
  <2>5. CASE TickerStep
    BY <2>5, TickerType
  <2>6. CASE TimerStep
    BY <2>6, BackoffFireType, QuotaFireType DEF TimerStep
  <2>7. CASE ShutdownBegin \/ ShutdownStep
    BY <2>7, ShutdownType
  <2>8. CASE Terminated \/ UNCHANGED vars
    BY <2>8, StutterType DEF Terminated
  <2> QED BY <2>1, <2>2, <2>3, <2>4, <2>5, <2>6, <2>7, <2>8 DEF Next
<1> QED BY <1>1, <1>2, PTL DEF Spec

-----------------------------------------------------------------------------
(* In which order Shutdown closes the channels and the goroutines leave.    *)

InLoop == {"select", "distribute", "retry", "hook"}

LoopStep(w) ==
    \/ RecvRequests(w) \/ Distribute(w) \/ RecvResponse(w)
    \/ WorkerRetry(w) \/ WorkerHook(w)

(* A worker in its loop stays there, and adds only to its own queue and to  *)
(* an open cmdq.                                                            *)
LEMMA LoopStepFrame ==
  ASSUME TypeOK, NEW w \in Workers, LoopStep(w)
  PROVE  /\ worker[w].pc \in InLoop /\ worker'[w].pc \in InLoop
         /\ \A v \in Workers \ {w} : worker'[v] = worker[v] /\ wq'[v] = wq[v]
         /\ UNCHANGED <<sender, hook, closed, shut>>
         /\ cmdq' = cmdq \/ "cmdq" \notin closed
         /\ panic' \in {panic} \cup closed
<1> USE DEF TypeOK, TypeGoroutines, TypeQueues, InLoop
<1>1. CASE RecvRequests(w)
  BY <1>1 DEF RecvRequests, Distributing, Selecting, control
<1>2. CASE Distribute(w)
  BY <1>2 DEF Distribute, Distributing, Selecting, control
<1>3. CASE RecvResponse(w)
  BY <1>3 DEF RecvResponse, Selecting, Handling, control
<1>4. CASE WorkerRetry(w)
  <2>1. worker'[w].pc \in InLoop
    BY <1>4 DEF WorkerRetry, Selecting
  <2>2. panic' \in {panic} \cup closed
    BY <1>4 DEF WorkerRetry, Retry, TrySend
  <2> QED BY <1>4, <2>1, <2>2 DEF WorkerRetry
<1>5. CASE WorkerHook(w)
  BY <1>5 DEF WorkerHook, TrySend, Selecting
<1> QED BY <1>1, <1>2, <1>3, <1>4, <1>5 DEF LoopStep

(* A worker in its loop closes nothing and leaves nothing. *)
LEMMA LoopStepClosing ==
  ASSUME TypeOK, ClosingInv, NEW w \in Workers, LoopStep(w) PROVE ClosingInv'
<1>1. /\ worker[w].pc \in InLoop /\ worker'[w].pc \in InLoop
      /\ \A v \in Workers \ {w} : worker'[v] = worker[v] /\ wq'[v] = wq[v]
      /\ UNCHANGED <<sender, hook, closed, shut>>
      /\ cmdq' = cmdq \/ "cmdq" \notin closed
      /\ panic' \in {panic} \cup closed
  BY LoopStepFrame
<1> USE DEF ClosingInv
<1>2. ClosingOrder'
  BY <1>1 DEF ClosingOrder, ClosedAt, WgrpDone, InLoop
<1>3. LeavingOrder'
  <2> SUFFICES ASSUME NEW v \in Workers
               PROVE  /\ RespqClosed(v)' => \A s \in Senders : sender'[v][s].pc = "gone"
                      /\ \A s \in Senders :
                           sender'[v][s].pc = "gone" => WqClosed(v)' /\ wq'[v] = << >>
                      /\ hook'[v] = "gone" => "cmdq" \in closed' /\ cmdq' = << >>
    BY DEF LeavingOrder
  <2>1. hook'[v] = "gone" => "cmdq" \in closed' /\ cmdq' = << >>
    BY <1>1 DEF LeavingOrder
  <2>2. CASE v = w
    BY <1>1, <2>1, <2>2 DEF LeavingOrder, RespqClosed, WqClosed, InLoop
  <2>3. CASE v # w
    BY <1>1, <2>1, <2>3 DEF LeavingOrder, RespqClosed, WqClosed
  <2> QED BY <2>2, <2>3
<1> QED BY <1>2, <1>3

(* A worker closes respq only when all its senders have left. *)
LEMMA WorkerLeaveClosing ==
  ASSUME TypeOK, ClosingInv, NEW w \in Workers, WorkerExit(w) \/ WorkerJoin(w)
  PROVE  ClosingInv'
<1>1. PICK pc \in {"join", "stopped"} :
        /\ worker' = [worker EXCEPT ![w].pc = pc]
        /\ pc = "stopped" => \A s \in Senders : sender[w][s].pc = "gone"
        /\ worker[w].pc \in {"select", "join"}
        /\ UNCHANGED <<wq, sender, cmdq, hook, closed, shut, panic>>
  BY DEF WorkerExit, WorkerJoin, control
<1>2. worker'[w].pc = pc /\ \A v \in Workers \ {w} : worker'[v] = worker[v]
  BY <1>1 DEF TypeOK, TypeGoroutines
<1> USE DEF ClosingInv
<1>3. ClosingOrder'
  BY <1>1, <1>2 DEF ClosingOrder, ClosedAt, WgrpDone
<1>4. LeavingOrder'
  BY <1>1, <1>2 DEF LeavingOrder, RespqClosed, WqClosed
<1> QED BY <1>3, <1>4

(* A sender leaves only when its queue is closed and empty. *)
LEMMA SenderClosing ==
  ASSUME TypeOK, ClosingInv, NEW w \in Workers, NEW s \in Senders, SenderStep(w, s)
  PROVE  ClosingInv'
<1> USE DEF ClosingInv
<1>1. CASE SenderTake(w, s)
  <2>1. /\ wq[w] # << >>
        /\ sender'[w][s].pc = "sending"
        /\ \A v \in Workers, t \in Senders :
             <<v, t>> # <<w, s>> => sender'[v][t] = sender[v][t]
        /\ \A v \in Workers \ {w} : wq'[v] = wq[v]
        /\ UNCHANGED <<worker, cmdq, hook, closed, shut, panic>>
    BY <1>1 DEF SenderTake, control, TypeOK, TypeGoroutines, TypeQueues
  <2>2. \A t \in Senders : sender[w][t].pc # "gone"
    BY <2>1 DEF LeavingOrder
  <2>3. ClosingOrder'
    BY <2>1 DEF ClosingOrder, ClosedAt, WgrpDone
  <2>4. LeavingOrder'
    BY <2>1, <2>2 DEF LeavingOrder, RespqClosed, WqClosed
  <2> QED BY <2>3, <2>4
<1>2. CASE SenderGone(w, s)
  <2>1. /\ wq[w] = << >> /\ WqClosed(w)
        /\ sender'[w][s].pc = "gone"
        /\ \A v \in Workers, t \in Senders :
             <<v, t>> # <<w, s>> => sender'[v][t] = sender[v][t]
        /\ UNCHANGED <<worker, wq, cmdq, hook, closed, shut, panic>>
    BY <1>2 DEF SenderGone, control, TypeOK, TypeGoroutines
  <2>2. ClosingOrder'
    BY <2>1 DEF ClosingOrder, ClosedAt, WgrpDone
  <2>3. LeavingOrder'
    BY <2>1 DEF LeavingOrder, RespqClosed, WqClosed
  <2> QED BY <2>2, <2>3
<1>3. ASSUME NEW a \in Answers, NEW taken \in BOOLEAN, SenderAnswer(w, s, a, taken)
      PROVE  ClosingInv'
  <2>1. /\ sender[w][s].pc = "sending" /\ sender'[w][s].pc = "idle"
        /\ \A v \in Workers, t \in Senders :
             <<v, t>> # <<w, s>> => sender'[v][t] = sender[v][t]
        /\ UNCHANGED <<worker, wq, cmdq, hook, closed, shut>>
    BY <1>3 DEF SenderAnswer, TypeOK, TypeGoroutines
  <2>2. ~RespqClosed(w)
    BY <2>1 DEF LeavingOrder
  <2>3. panic' = panic
    BY <1>3, <2>2 DEF SenderAnswer, TrySend
  <2>4. ClosingOrder'
    BY <2>1, <2>3 DEF ClosingOrder, ClosedAt, WgrpDone
  <2>5. LeavingOrder'
    BY <2>1, <2>2 DEF LeavingOrder, RespqClosed, WqClosed
  <2> QED BY <2>4, <2>5
<1> QED BY <1>1, <1>2, <1>3 DEF SenderStep

(* A hook goroutine leaves only when cmdq is closed and empty. *)
LEMMA HookClosing ==
  ASSUME TypeOK, ClosingInv, NEW w \in Workers, HookStep(w) PROVE ClosingInv'
<1> USE DEF ClosingInv
<1>1. /\ UNCHANGED <<worker, wq, sender, closed, shut, panic>>
      /\ hook[w] # "gone"
      /\ \A v \in Workers \ {w} : hook'[v] = hook[v]
      /\ hook'[w] = "gone" => "cmdq" \in closed /\ cmdq = << >>
      /\ cmdq' = cmdq \/ (cmdq # << >> /\ hook'[w] = "busy")
  BY DEF HookStep, HookStart, HookEnd, HookStop, control, workerVars, TypeOK,
         TypeGoroutines
<1>2. ClosingOrder'
  BY <1>1 DEF ClosingOrder, ClosedAt, WgrpDone
<1>3. LeavingOrder'
  BY <1>1 DEF LeavingOrder, RespqClosed, WqClosed
<1> QED BY <1>2, <1>3

(* The ticker, the timers and the handlers touch nothing the invariant is   *)
(* about, but for the timers' panics on closed channels.                    *)
LEMMA OtherClosing ==
  ASSUME ClosingInv, UNCHANGED <<worker, wq, sender, hook, cmdq, closed, shut>>,
         panic' \in {panic} \cup closed
  PROVE  ClosingInv'
BY DEF ClosingInv, ClosingOrder, ClosedAt, WgrpDone, LeavingOrder, RespqClosed, WqClosed

(* Shutdown closes the channels in order, and queue after the wait. *)
LEMMA ShutdownClosing ==
  ASSUME TypeOK, ClosingInv, ShutdownBegin \/ ShutdownStep PROVE ClosingInv'
<1> USE DEF ClosingInv
<1>1. /\ UNCHANGED <<worker, wq, sender, hook, cmdq, panic>>
      /\ closed \subseteq closed'
  BY DEF ShutdownStep, ShutdownBegin, ShutdownPoll, CloseExit, CloseCmdq, CloseQueue,
         CloseRetryq, CloseAt, ProcessExit, workerVars
<1>2. ClosingOrder'
  <2>1. shut \in [pc : {"running", "poll", "exit", "cmdq", "wait", "retryq",
                        "done", "exited"}, zero : 0..RestartWaitCount,
                  busy : 0..(MaxBusyPolls + 1), zeros : SUBSET Lengths]
    BY DEF TypeOK, TypeShutdown
  <2>2. CASE ShutdownBegin
    BY <2>1, <2>2 DEF ShutdownBegin, ClosingOrder, ClosedAt, WgrpDone, workerVars
  <2>3. CASE \E x \in Lengths : ShutdownPoll(x)
    <3>1. shut.pc = "poll" /\ shut'.pc \in {"poll", "exit"} /\ closed' = closed
      BY <2>1, <2>3 DEF ShutdownPoll, EndTurn
    <3> QED BY <1>1, <3>1 DEF ClosingOrder, ClosedAt, WgrpDone
  <2>4. CASE CloseExit
    BY <1>1, <2>1, <2>4 DEF CloseExit, CloseAt, ClosingOrder, ClosedAt, WgrpDone
  <2>5. CASE CloseCmdq
    BY <1>1, <2>1, <2>5 DEF CloseCmdq, CloseAt, ClosingOrder, ClosedAt, WgrpDone
  <2>6. CASE CloseQueue
    BY <1>1, <2>1, <2>6 DEF CloseQueue, CloseAt, ClosingOrder, ClosedAt, WgrpDone
  <2>7. CASE CloseRetryq
    BY <1>1, <2>1, <2>7 DEF CloseRetryq, CloseAt, ClosingOrder, ClosedAt, WgrpDone
  <2>8. CASE ProcessExit
    BY <1>1, <2>1, <2>8 DEF ProcessExit, ClosingOrder, ClosedAt, WgrpDone
  <2> QED BY <2>2, <2>3, <2>4, <2>5, <2>6, <2>7, <2>8 DEF ShutdownStep
<1>3. LeavingOrder'
  BY <1>1 DEF LeavingOrder, RespqClosed, WqClosed
<1> QED BY <1>2, <1>3

(* Nothing is closed and nobody has left at the start. *)
LEMMA InitClosing == Init => ClosingInv
<1> SUFFICES ASSUME Init PROVE ClosingInv OBVIOUS
<1>1. ClosingOrder
  BY DEF Init, ClosingOrder, ClosedAt
<1>2. LeavingOrder
  BY DEF Init, LeavingOrder, RespqClosed, Selecting
<1> QED BY <1>1, <1>2 DEF ClosingInv

(* The order of the closes: ClosingInv is inductive, given the types. *)
THEOREM ClosesInOrder == Spec => []ClosingInv
<1>1. Init => ClosingInv
  BY InitClosing
<1>2. TypeOK /\ ClosingInv /\ [Next]_vars => ClosingInv'
  <2> SUFFICES ASSUME TypeOK, ClosingInv, [Next]_vars PROVE ClosingInv'
    OBVIOUS
  <2>1. ASSUME NEW p \in Posts, Enqueue(p) PROVE ClosingInv'
    BY <2>1, OtherClosing DEF Enqueue, workerVars, control
  <2>2. ASSUME NEW w \in Workers, WorkerStep(w) PROVE ClosingInv'
    BY <2>2, LoopStepClosing, WorkerLeaveClosing DEF WorkerStep, LoopStep
  <2>3. ASSUME NEW w \in Workers, HookStep(w) PROVE ClosingInv'
    BY <2>3, HookClosing
  <2>4. ASSUME NEW w \in Workers, NEW s \in Senders, SenderStep(w, s) PROVE ClosingInv'
    BY <2>4, SenderClosing
  <2>5. CASE TickerStep
    BY <2>5, OtherClosing DEF TickerStep, TickerTick, TickerSweep, TickerStop,
       workerVars, control
  <2>6. CASE TimerStep
    <3>1. ASSUME NEW req \in backoff, BackoffFire(req) PROVE ClosingInv'
      BY <3>1, OtherClosing DEF BackoffFire, TrySend, workerVars
    <3>2. ASSUME NEW req \in quota, QuotaFire(req) PROVE ClosingInv'
      BY <3>2, OtherClosing DEF QuotaFire, Retry, TrySend, workerVars
    <3> QED BY <2>6, <3>1, <3>2 DEF TimerStep
  <2>7. CASE ShutdownBegin \/ ShutdownStep
    BY <2>7, ShutdownClosing
  <2>8. CASE Terminated \/ UNCHANGED vars
    BY <2>8, OtherClosing DEF Terminated, vars, workerVars, control
  <2> QED BY <2>1, <2>2, <2>3, <2>4, <2>5, <2>6, <2>7, <2>8 DEF Next
<1> QED BY <1>1, <1>2, TypeCorrect, PTL DEF Spec

-----------------------------------------------------------------------------
(* No goroutine of the wait group uses queue, retryq or respq when it is    *)
(* closed: no sender ever answers into a closed respq, and a panic on queue *)
(* or retryq is that of a timer after the wait.                             *)
THEOREM ChannelsSafe == Spec => []CoveredChannelsSafe
<1>1. TypeOK /\ ClosingInv => CoveredChannelsSafe
  BY DEF ClosingInv, ClosingOrder, ClosedAt, LeavingOrder, WgrpDone, RespqClosed,
         CoveredChannelsSafe, TypeOK, TypeShutdown
<1> QED BY <1>1, TypeCorrect, ClosesInOrder, PTL

(* When Shutdown has passed wgrp.Wait, the queues of the workers are sent   *)
(* and every queued hook command has run.                                   *)
THEOREM WaitDrains == Spec => []WaitDrainsWorkers
<1>1. TypeOK /\ ClosingInv => WaitDrainsWorkers
  <2> SUFFICES ASSUME TypeOK, ClosingInv, shut.pc \in {"retryq", "done", "exited"}
               PROVE  /\ cmdq = << >>
                      /\ \A w \in Workers :
                          /\ wq[w] = << >> /\ worker[w].batch = << >> /\ hook[w] = "gone"
                          /\ \A s \in Senders : sender[w][s].pc = "gone"
    BY DEF WaitDrainsWorkers
  <2>1. WgrpDone
    BY DEF ClosingInv, ClosingOrder, ClosedAt
  <2>2. cmdq = << >>
    BY <2>1, GoroutinesAssumption DEF WgrpDone, ClosingInv, LeavingOrder
  <2>3. \A w \in Workers, s \in Senders : sender[w][s].pc = "gone"
    BY <2>1 DEF WgrpDone, ClosingInv, LeavingOrder, RespqClosed
  <2>4. \A w \in Workers : wq[w] = << >>
    BY <2>3, GoroutinesAssumption DEF ClosingInv, LeavingOrder
  <2>5. \A w \in Workers : worker[w].batch = << >>
    BY <2>1 DEF WgrpDone, TypeOK, TypeGoroutines
  <2> QED BY <2>1, <2>2, <2>3, <2>4, <2>5 DEF WgrpDone
<1> QED BY <1>1, TypeCorrect, ClosesInOrder, PTL

(* A worker that is blocked on its queue or on its senders has a sender     *)
(* that can move, and while Shutdown waits so has everyone it waits for: no *)
(* number of workers and senders and no capacity makes them wait in a ring. *)
THEOREM NoRing == Spec => []NoMutualWait
<1>1. TypeOK /\ ClosingInv => NoMutualWait
  <2> SUFFICES ASSUME TypeOK, ClosingInv, NEW w \in Workers
               PROVE  /\ worker[w].pc \in {"distribute", "join"} => WorkerCanMove(w)
                      /\ shut.pc = "wait" => /\ worker[w].pc = "stopped" \/ WorkerCanMove(w)
                                             /\ hook[w] = "gone" \/ HookCanMove(w)
    BY DEF NoMutualWait
  <2>1. /\ worker[w].pc \in {"select", "distribute", "retry", "hook", "join", "stopped"}
        /\ hook[w] \in {"idle", "busy", "gone"}
        /\ \A s \in Senders : sender[w][s].pc \in {"idle", "sending", "gone"}
        /\ Len(wq[w]) \in Nat /\ Len(wq[w]) <= WqSize /\ (wq[w] = << >> => Len(wq[w]) = 0)
    BY DEF TypeOK, TypeGoroutines, TypeQueues
  <2>2. WqSize \in Nat /\ WqSize > 0
    BY SizesInNat
  <2>3. ASSUME worker[w].pc = "distribute" PROVE WorkerCanMove(w)
    <3>1. CASE Len(wq[w]) < WqSize
      BY <2>3, <3>1 DEF WorkerCanMove
    <3>2. CASE ~(Len(wq[w]) < WqSize)
      <4>1. wq[w] # << >>
        BY <2>1, <2>2, <3>2
      <4>2. \A s \in Senders : sender[w][s].pc # "gone"
        BY <4>1 DEF ClosingInv, LeavingOrder
      <4>3. PICK s \in Senders : SenderCanMove(w, s)
        BY <2>1, <4>1, <4>2, GoroutinesAssumption DEF SenderCanMove
      <4> QED BY <2>3, <4>3 DEF WorkerCanMove
    <3> QED BY <3>1, <3>2
  <2>4. ASSUME worker[w].pc = "join" PROVE WorkerCanMove(w)
    <3>1. \A s \in Senders : sender[w][s].pc = "gone" \/ SenderCanMove(w, s)
      BY <2>1, <2>4 DEF SenderCanMove, WqClosed
    <3> QED BY <2>4, <3>1 DEF WorkerCanMove
  <2>5. ASSUME shut.pc = "wait" PROVE "exit" \in closed /\ "cmdq" \in closed
    BY <2>5 DEF ClosingInv, ClosingOrder, ClosedAt
  <2>6. ASSUME shut.pc = "wait", worker[w].pc \in {"select", "retry", "hook"}
        PROVE  WorkerCanMove(w)
    BY <2>5, <2>6 DEF WorkerCanMove
  <2>7. ASSUME shut.pc = "wait" PROVE hook[w] = "gone" \/ HookCanMove(w)
    BY <2>1, <2>5, <2>7 DEF HookCanMove
  <2> QED BY <2>1, <2>3, <2>4, <2>6, <2>7
<1> QED BY <1>1, TypeCorrect, ClosesInOrder, PTL
=============================================================================
