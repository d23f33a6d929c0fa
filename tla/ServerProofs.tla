----------------------------- MODULE ServerProofs -----------------------------
(***************************************************************************)
(* Proofs about the HTTP front, for every set of clients and requests and  *)
(* every limit: the type invariant, that the supervisor is shut down only  *)
(* when no handler can run, and that what is odd about Retry-After, an age *)
(* other than 0 or a value beyond the threshold, comes from races.         *)
(***************************************************************************)
EXTENDS ServerProps, TLAPS

(* The limits are numbers. *)
LEMMA LimitsInNat ==
  /\ QueueSize \in Nat /\ MaxClock \in Nat /\ MaxSignals \in Nat
  /\ RetryAfterSecond \in Nat /\ ResetRetryAfterSecond \in Nat
  /\ RetryAfterSecond <= ResetRetryAfterSecond
BY LimitsAssumption

(* What the verdict on a request can be. *)
LEMMA VerdictType ==
  ASSUME NEW c \in Clients
  PROVE  Verdict(Http[c]) \in {"queue", "400", "405", "415", "aborted"}
<1>1. ApnsVerdict(Http[c]) \in {"queue", "400", "aborted"}
  BY DEF ApnsVerdict
<1>2. FcmVerdict(Http[c]) \in {"queue", "400"}
  BY DEF FcmVerdict
<1> QED BY <1>1, <1>2 DEF Verdict

-----------------------------------------------------------------------------
(* Type correctness: no step takes a variable out of its type.              *)

LEMMA ServerInitType == Init => ServerTypeOK
<1> SUFFICES ASSUME Init PROVE ServerTypeOK OBVIOUS
<1>1. /\ conn \in [Clients -> {"away", "backlog", "fresh", "done"} \cup Handlers]
      /\ local \in [Clients -> [now : Nat, x : Int, old : Nat, nxtRA : Nat]]
      /\ code \in [Clients -> Codes] /\ told \in [Clients -> Nat]
      /\ \A c \in Clients : code[c] = "none" /\ conn[c] = "away"
  BY DEF Init, Codes
<1>2. \A c \in Clients : code[c] = "none" <=> conn[c] # "done"
  BY <1>1
<1>3. /\ su \in Nat /\ ra \in Nat /\ reqCount \in Nat /\ clock \in Nat
      /\ queued \in 0..QueueSize /\ signals \in Nat
  BY LimitsInNat DEF Init
<1>4. /\ serve \in {"starting", "accepting", "returned"}
      /\ sg \in {"new", "notified", "waiting", "stopping", "draining", "returned"}
      /\ sup \in {"running", "stopping", "stopped"} /\ killed \in BOOLEAN
  BY DEF Init
<1> QED BY <1>1, <1>2, <1>3, <1>4 DEF ServerTypeOK

(* What Answer does to the connection, the code and the header. *)
LEMMA AnswerType ==
  ASSUME ServerTypeOK, NEW c \in Clients, NEW status \in Codes \ {"none"},
         NEW wait \in Nat, Answer(c, status, wait)
  PROVE  /\ conn' \in [Clients -> {"away", "backlog", "fresh", "done"} \cup Handlers]
         /\ code' \in [Clients -> Codes]
         /\ told' \in [Clients -> Nat]
         /\ \A d \in Clients : code'[d] = "none" <=> conn'[d] # "done"
BY DEF ServerTypeOK, Answer, Handlers, Rejecting

(* The steps that serve a connection keep the types. *)
LEMMA ConnectionStepType ==
  ASSUME ServerTypeOK, NEW c \in Clients,
         Connect(c) \/ Accept(c) \/ Begin(c) \/ CloseUnserved(c)
  PROVE  ServerTypeOK'
<1> USE LimitsInNat DEF ServerTypeOK, Codes, Handlers, Rejecting, shared, lifecycle
<1>1. CASE Connect(c)
  BY <1>1 DEF Connect
<1>2. CASE Accept(c)
  BY <1>2 DEF Accept
<1>3. CASE Begin(c)
  BY <1>3 DEF Begin
<1>4. CASE CloseUnserved(c)
  BY <1>4 DEF CloseUnserved, Answer
<1> QED BY <1>1, <1>2, <1>3, <1>4

(* So do the steps of a handler. *)
LEMMA HandlerStepType ==
  ASSUME ServerTypeOK, NEW c \in Clients, Decide(c) \/ HandlerStep(c)
  PROVE  ServerTypeOK'
<1> USE LimitsInNat DEF ServerTypeOK, Codes, Handlers, Rejecting, shared, lifecycle
<1>1. CASE Decide(c)
  <2>1. CASE Verdict(Http[c]) = "queue"
    BY <1>1, <2>1 DEF Decide
  <2>2. CASE Verdict(Http[c]) # "queue"
    <3>1. Verdict(Http[c]) \in Codes \ {"none"}
      BY <2>2, VerdictType
    <3>2. Answer(c, Verdict(Http[c]), 0)
      BY <1>1, <2>2 DEF Decide
    <3> HIDE DEF Codes
    <3> QED BY <1>1, <3>1, <3>2, AnswerType DEF Decide
  <2> QED BY <2>1, <2>2
<1>2. CASE Enqueue(c)
  BY <1>2 DEF Enqueue, HasRoom
<1>3. CASE AnswerOk(c)
  BY <1>3 DEF AnswerOk, Answer
<1>4. CASE RejectClock(c)
  BY <1>4 DEF RejectClock
<1>10. CASE RejectMark(c)
  BY <1>10 DEF RejectMark
<1>5. CASE RejectAge(c)
  <2>1. local' \in [Clients -> [now : Nat, x : Int, old : Nat, nxtRA : Nat]]
    BY <1>5 DEF RejectAge
  <2>2. CASE Divides(local[c].now - su)
    BY <1>5, <2>1, <2>2 DEF RejectAge
  <2>3. CASE ~Divides(local[c].now - su)
    <3>1. Answer(c, "aborted", 0) /\ "aborted" \in Codes \ {"none"}
      BY <1>5, <2>3 DEF RejectAge
    <3> HIDE DEF Codes
    <3> QED BY <1>5, <2>1, <3>1, AnswerType DEF RejectAge
  <2> QED BY <2>2, <2>3
<1>6. CASE RejectCompute(c)
  BY <1>6 DEF RejectCompute, Otherwise
<1>7. CASE RejectAdd(c)
  <2>1. ra + Increase(local[c].x) \in Nat
    BY DEF Increase
  <2> QED BY <1>7, <2>1 DEF RejectAdd
<1>8. CASE RejectPublish(c)
  BY <1>8 DEF RejectPublish
<1>9. CASE RejectReply(c)
  BY <1>9 DEF RejectReply, Answer
<1> QED
  BY <1>1, <1>2, <1>3, <1>4, <1>5, <1>6, <1>7, <1>8, <1>9, <1>10 DEF HandlerStep

(* And those of StartServer and of the world. *)
LEMMA OtherStepType ==
  ASSUME ServerTypeOK,
         \/ ServeStart \/ ServeFails \/ SignalNotify \/ SignalReceive
         \/ \E s \in Signals : Signal(s)
         \/ ShutdownBegins \/ ShutdownReturns \/ MainWait \/ MainReturn
         \/ WorkerTakes \/ TimerRequeues \/ Tick
  PROVE  ServerTypeOK'
<1> USE LimitsInNat DEF ServerTypeOK, shared, handlers, lifecycle
<1>1. CASE ServeStart \/ ServeFails \/ SignalNotify \/ SignalReceive
  BY <1>1 DEF ServeStart, ServeFails, SignalNotify, SignalReceive
<1>2. CASE \E s \in Signals : Signal(s)
  BY <1>2 DEF Signal
<1>3. CASE ShutdownBegins \/ ShutdownReturns \/ MainWait \/ MainReturn
  BY <1>3 DEF ShutdownBegins, ShutdownReturns, MainWait, WgDone, MainReturn
<1>4. CASE WorkerTakes \/ TimerRequeues \/ Tick
  BY <1>4 DEF WorkerTakes, TimerRequeues, HasRoom, Tick
<1> QED BY <1>1, <1>2, <1>3, <1>4

(* Every variable of the HTTP front keeps its type, whatever clients and    *)
(* signals do.                                                              *)
THEOREM ServerTypeCorrect == Spec => []ServerTypeOK
<1>1. ServerTypeOK /\ [Next]_vars => ServerTypeOK'
  <2> SUFFICES ASSUME ServerTypeOK, [Next]_vars PROVE ServerTypeOK'
    OBVIOUS
  <2>1. CASE UNCHANGED vars
    BY <2>1 DEF vars, handlers, shared, lifecycle, ServerTypeOK
  <2> QED
    BY <2>1, ConnectionStepType, HandlerStepType, OtherStepType DEF Next, Terminated
<1> QED BY <1>1, ServerInitType, PTL DEF Spec

-----------------------------------------------------------------------------
(* The order in which StartServer stops.                                    *)

LEMMA StoppingInit == Init => StoppingOrder
BY DEF Init, StoppingOrder, Open

(* No step breaks the order: a connection becomes fresh only while Serve    *)
(* accepts, a handler starts only on a fresh connection, and the signal     *)
(* goroutine returns only when there is neither.                            *)
LEMMA StoppingStep ==
  ASSUME ServerTypeOK, StoppingOrder, [Next]_vars
  PROVE  StoppingOrder'
<1> USE DEF StoppingOrder, ServerTypeOK, Open, Handlers, Rejecting, shared, handlers,
        lifecycle
<1>1. CASE \E c \in Clients : Connect(c) \/ Accept(c) \/ Begin(c) \/ CloseUnserved(c)
  BY <1>1 DEF Connect, Accept, Begin, CloseUnserved, Answer
<1>2. CASE \E c \in Clients : Decide(c) \/ Enqueue(c) \/ AnswerOk(c)
  BY <1>2 DEF Decide, Enqueue, AnswerOk, Answer
<1>3. CASE \E c \in Clients : RejectClock(c) \/ RejectMark(c) \/ RejectAge(c)
  BY <1>3 DEF RejectClock, RejectMark, RejectAge, Answer
<1>4. CASE \E c \in Clients : \/ RejectCompute(c) \/ RejectAdd(c)
                              \/ RejectPublish(c) \/ RejectReply(c)
  BY <1>4 DEF RejectCompute, RejectAdd, RejectPublish, RejectReply, Answer
<1>5. CASE ServeStart \/ ServeFails \/ SignalNotify \/ SignalReceive
  BY <1>5 DEF ServeStart, ServeFails, SignalNotify, SignalReceive
<1>6. CASE \E s \in Signals : Signal(s)
  BY <1>6 DEF Signal, Signals, Handled
<1>7. CASE ShutdownBegins \/ ShutdownReturns
  BY <1>7 DEF ShutdownBegins, ShutdownReturns, Drained
<1>8. CASE MainWait \/ MainReturn
  BY <1>8 DEF MainWait, WgDone, MainReturn
<1>9. CASE WorkerTakes \/ TimerRequeues \/ Tick
  BY <1>9 DEF WorkerTakes, TimerRequeues, HasRoom, Tick
<1>10. CASE UNCHANGED vars
  BY <1>10 DEF vars
<1> QED
  BY <1>1, <1>2, <1>3, <1>4, <1>5, <1>6, <1>7, <1>8, <1>9, <1>10
  DEF Next, HandlerStep, Terminated

(* Supervisor.Shutdown is called only when every handler has returned and   *)
(* none can start, so that no request is enqueued during it.                *)
THEOREM HandlersFirst == Spec => []NoLateEnqueue
<1>1. StoppingOrder => NoLateEnqueue
  BY DEF StoppingOrder, NoLateEnqueue
<1>2. ServerTypeOK /\ StoppingOrder /\ [Next]_vars => StoppingOrder'
  BY StoppingStep
<1> QED BY <1>1, <1>2, StoppingInit, ServerTypeCorrect, PTL DEF Spec

-----------------------------------------------------------------------------
(* The age of setRetryAfter: the stored time is that of a handler that has  *)
(* stored it, and each handler takes and stores the time once.              *)

Early == {"away", "backlog", "fresh", "serving", "enqueue", "accepted", "clock"}
MarkInv ==
    /\ clock >= 1
    /\ \A c \in Clients :
        /\ conn[c] \in Early => local[c].now = 0
        /\ conn[c] \in Early \cup {"mark", "age"} => local[c].x = 0
        /\ conn[c] \in {"mark", "age"} => local[c].now # 0
        /\ conn[c] = "age" => su # 0
    /\ su # 0 => \E d \in Clients : Stored(d) /\ local[d].now = su
AgeInv == MarkInv /\ AgeNeedsRace

(* Most steps leave the times and the ages alone, and take no handler to    *)
(* the places where they are taken and stored.                              *)
LEMMA AgesKept ==
  ASSUME AgeInv, su' = su, clock' >= 1,
         \A c \in Clients : local'[c].now = local[c].now /\ local'[c].x = local[c].x,
         \A c \in Clients :
            \/ conn'[c] = conn[c]
            \/ /\ conn[c] # "mark" /\ conn'[c] \notin {"mark", "age"}
               /\ conn'[c] \in Early => conn[c] \in Early
  PROVE  AgeInv'
<1>1. \A d \in Clients : Stored(d) <=> local'[d].now # 0 /\ conn'[d] # "mark"
  BY DEF Stored
<1>2. MarkInv'
  BY <1>1 DEF AgeInv, MarkInv, Stored, Early
<1>3. AgeNeedsRace'
  BY <1>1 DEF AgeInv, AgeNeedsRace, Stored
<1> QED BY <1>2, <1>3 DEF AgeInv

(* time.Now() is taken by a handler that has stored nothing yet.            *)
LEMMA ClockAges ==
  ASSUME ServerTypeOK, AgeInv, NEW c \in Clients, RejectClock(c)
  PROVE  AgeInv'
<1>1. /\ conn[c] = "clock" /\ conn' = [conn EXCEPT ![c] = "mark"]
      /\ local'[c].now = clock /\ local'[c].x = local[c].x
      /\ \A d \in Clients \ {c} : local'[d] = local[d] /\ conn'[d] = conn[d]
      /\ conn'[c] = "mark" /\ UNCHANGED <<su, clock>>
  BY DEF RejectClock, ServerTypeOK, shared
<1>2. local[c].now = 0 /\ local[c].x = 0 /\ ~Stored(c) /\ clock # 0
  BY <1>1 DEF AgeInv, MarkInv, Early, Stored
<1>3. \A d \in Clients : Stored(d) =>
        d # c /\ local'[d].now # 0 /\ conn'[d] # "mark" /\ local'[d].now = local[d].now
  BY <1>1, <1>2 DEF Stored
<1>4. MarkInv'
  BY <1>1, <1>2, <1>3 DEF AgeInv, MarkInv, Stored, Early
<1>5. AgeNeedsRace'
  <2> SUFFICES ASSUME NEW b \in Clients, local'[b].x # 0
               PROVE  \E d \in Clients \ {b} : /\ local'[d].now # 0 /\ conn'[d] # "mark"
                                              /\ local'[d].now = local'[b].now - local'[b].x
    BY DEF AgeNeedsRace, Stored
  <2>1. b # c /\ local'[b] = local[b]
    BY <1>1, <1>2
  <2>2. PICK d \in Clients \ {b} : Stored(d) /\ local[d].now = local[b].now - local[b].x
    BY <2>1 DEF AgeInv, AgeNeedsRace
  <2> QED BY <1>3, <2>1, <2>2
<1> QED BY <1>4, <1>5 DEF AgeInv

LEMMA MarkAges ==
  ASSUME ServerTypeOK, AgeInv, NEW c \in Clients, RejectMark(c)
  PROVE  AgeInv'
<1>1. /\ conn[c] = "mark" /\ conn'[c] = "age" /\ su' = local[c].now
      /\ \A d \in Clients \ {c} : conn'[d] = conn[d]
      /\ UNCHANGED <<local, clock>>
  BY DEF RejectMark, ServerTypeOK
<1>2. local[c].now # 0 /\ local[c].x = 0
  BY <1>1 DEF AgeInv, MarkInv
<1>3. \A d \in Clients : Stored(d) => local'[d].now # 0 /\ conn'[d] # "mark"
  BY <1>1 DEF Stored
<1>4. MarkInv'
  BY <1>1, <1>2, <1>3 DEF AgeInv, MarkInv, Stored, Early
<1>5. AgeNeedsRace'
  BY <1>1, <1>3 DEF AgeInv, AgeNeedsRace, Stored
<1> QED BY <1>4, <1>5 DEF AgeInv

(* The age is that of the handler whose time is stored.                     *)
LEMMA AgeAges ==
  ASSUME ServerTypeOK, AgeInv, NEW c \in Clients, RejectAge(c)
  PROVE  AgeInv'
<1>1. /\ conn[c] = "age" /\ conn'[c] \in {"compute", "done"}
      /\ local'[c].now = local[c].now /\ local'[c].x = local[c].now - su
      /\ \A d \in Clients \ {c} : local'[d] = local[d] /\ conn'[d] = conn[d]
      /\ UNCHANGED <<su, clock>>
  BY DEF RejectAge, ServerTypeOK, shared, Answer
<1>2. local[c].now \in Nat /\ su \in Nat
  BY DEF ServerTypeOK
<1>3. PICK d \in Clients : Stored(d) /\ local[d].now = su
  BY <1>1 DEF AgeInv, MarkInv
<1>4. \A b \in Clients : /\ local'[b].now = local[b].now
                         /\ Stored(b) => local'[b].now # 0 /\ conn'[b] # "mark"
  BY <1>1 DEF Stored
<1>5. MarkInv'
  BY <1>1, <1>3, <1>4 DEF AgeInv, MarkInv, Stored, Early
<1>6. AgeNeedsRace'
  <2> SUFFICES ASSUME NEW b \in Clients, local'[b].x # 0
               PROVE  \E e \in Clients \ {b} : /\ local'[e].now # 0 /\ conn'[e] # "mark"
                                              /\ local'[e].now = local'[b].now - local'[b].x
    BY DEF AgeNeedsRace, Stored
  <2>1. CASE b = c
    <3>1. d # c /\ local[d].now = local[c].now - (local[c].now - su)
      BY <1>1, <1>2, <1>3, <2>1
    <3> QED BY <1>1, <1>3, <1>4, <2>1, <3>1
  <2>2. CASE b # c
    <3>1. local'[b] = local[b]
      BY <1>1, <2>2
    <3>2. PICK e \in Clients \ {b} : Stored(e) /\ local[e].now = local[b].now - local[b].x
      BY <3>1 DEF AgeInv, AgeNeedsRace
    <3> QED BY <1>4, <3>1, <3>2
  <2> QED BY <2>1, <2>2
<1> QED BY <1>5, <1>6 DEF AgeInv

LEMMA AgeStep ==
  ASSUME ServerTypeOK, AgeInv, [Next]_vars
  PROVE  AgeInv'
<1> USE DEF shared, handlers, lifecycle
<1>t. /\ conn \in [Clients -> {"away", "backlog", "fresh", "done"} \cup Handlers]
      /\ local \in [Clients -> [now : Nat, x : Int, old : Nat, nxtRA : Nat]]
      /\ clock \in Nat /\ clock >= 1 /\ clock + 1 >= 1
  BY DEF ServerTypeOK, AgeInv, MarkInv
<1>1. ASSUME NEW c \in Clients, Connect(c) \/ Accept(c) \/ Begin(c) \/ CloseUnserved(c)
      PROVE  AgeInv'
  BY <1>t, <1>1, AgesKept DEF Connect, Accept, Begin, CloseUnserved, Answer, Early
<1>2. ASSUME NEW c \in Clients, Decide(c) \/ Enqueue(c) \/ AnswerOk(c) PROVE AgeInv'
  BY <1>t, <1>2, AgesKept DEF Decide, Enqueue, AnswerOk, Answer, Early
<1>3. ASSUME NEW c \in Clients, RejectCompute(c) \/ RejectAdd(c) PROVE AgeInv'
  BY <1>t, <1>3, AgesKept DEF RejectCompute, RejectAdd, Early
<1>4. ASSUME NEW c \in Clients, RejectPublish(c) \/ RejectReply(c) PROVE AgeInv'
  BY <1>t, <1>4, AgesKept DEF RejectPublish, RejectReply, Answer, Early
<1>5. CASE \/ ServeStart \/ ServeFails \/ SignalNotify \/ SignalReceive
           \/ \E s \in Signals : Signal(s)
  BY <1>t, <1>5, AgesKept DEF ServeStart, ServeFails, SignalNotify, SignalReceive, Signal
<1>6. CASE ShutdownBegins \/ ShutdownReturns \/ MainWait \/ MainReturn
  BY <1>t, <1>6, AgesKept DEF ShutdownBegins, ShutdownReturns, MainWait, MainReturn
<1>7. CASE WorkerTakes \/ TimerRequeues \/ Tick
  BY <1>t, <1>7, AgesKept DEF WorkerTakes, TimerRequeues, Tick
<1>8. CASE UNCHANGED vars
  BY <1>t, <1>8, AgesKept DEF vars
<1> QED
  BY <1>1, <1>2, <1>3, <1>4, <1>5, <1>6, <1>7, <1>8, ClockAges, MarkAges, AgeAges
     DEF Next, HandlerStep, Terminated

(* updateRetryAfterStat is given an age other than 0 only in a race of two  *)
(* handlers, however many of them run.                                      *)
THEOREM AgesComeFromRaces == Spec => []AgeNeedsRace
<1>1. Init => AgeInv
  BY DEF Init, AgeInv, MarkInv, AgeNeedsRace, Early
<1>2. ServerTypeOK /\ AgeInv /\ [Next]_vars => AgeInv'
  BY AgeStep
<1>3. AgeInv => AgeNeedsRace
  BY DEF AgeInv
<1> QED BY <1>1, <1>2, <1>3, ServerTypeCorrect, PTL DEF Spec
-----------------------------------------------------------------------------
(* Retry-After: what is stored has been published by a handler, and what a  *)
(* handler computes is above the threshold only if it added to more than it *)
(* had compared.                                                            *)

Decided(c) == conn[c] \in {"publish", "reply", "done"}
RaInv ==
    /\ (ra = RetryAfterSecond /\ \A d \in Clients : ~Published(d))
       \/ \E d \in Clients : Published(d) /\ local[d].nxtRA = ra
    /\ \A c \in Clients :
        /\ ~Decided(c) => local[c].nxtRA = 0
        /\ conn[c] = "add" =>
             /\ RetryAfterSecond <= local[c].old
             /\ local[c].old + Increase(local[c].x) < ResetRetryAfterSecond
        /\ conn[c] = "publish" => RetryAfterSecond <= local[c].nxtRA
OverrunInv == RaInv /\ OverrunNeedsRace

(* Most steps publish nothing, decide nothing and answer with no 503.       *)
LEMMA OverrunKept ==
  ASSUME OverrunInv, ra' = ra,
         \A c \in Clients :
            /\ local'[c].nxtRA = local[c].nxtRA
            /\ local[c].nxtRA # 0 \/ conn[c] = "add" =>
                 local'[c].old = local[c].old /\ local'[c].x = local[c].x
            /\ Published(c) <=> conn'[c] = "reply" \/ code'[c] = "503"
            /\ code'[c] = "503" => code[c] = "503" /\ told'[c] = told[c]
            /\ conn'[c] = conn[c] \/ conn'[c] \notin {"add", "publish"}
            /\ Decided(c) => conn'[c] \in {"publish", "reply", "done"}
  PROVE  OverrunInv'
<1>1. \A c \in Clients : Published(c)' <=> Published(c)
  BY DEF Published
<1>2. RaInv'
  BY <1>1 DEF OverrunInv, RaInv, Decided
<1>3. \A c \in Clients : local[c].nxtRA > ResetRetryAfterSecond => local[c].nxtRA # 0
  BY LimitsInNat
<1>4. OverrunNeedsRace'
  BY <1>1, <1>3 DEF OverrunInv, OverrunNeedsRace
<1> QED BY <1>2, <1>4 DEF OverrunInv

(* A handler below the threshold remembers what it has compared; any other  *)
(* publishes the minimum or the threshold.                                  *)
LEMMA ComputeOverrun ==
  ASSUME ServerTypeOK, OverrunInv, NEW c \in Clients, RejectCompute(c)
  PROVE  OverrunInv'
<1>1. /\ conn[c] = "compute" /\ UNCHANGED <<ra, code, told>>
      /\ \A d \in Clients \ {c} : local'[d] = local[d] /\ conn'[d] = conn[d]
      /\ local'[c].x = local[c].x
  BY DEF RejectCompute, ServerTypeOK, shared
<1>2. ~Published(c) /\ ~Published(c)' /\ local[c].nxtRA = 0 /\ RetryAfterSecond <= ra
  BY <1>1 DEF RejectCompute, ServerTypeOK, OverrunInv, RaInv, OverrunNeedsRace, Decided,
              Published
<1>3. \A d \in Clients : Published(d)' <=> Published(d)
  BY <1>1, <1>2 DEF Published
<1>4. \/ /\ conn'[c] = "add" /\ local'[c].nxtRA = 0 /\ local'[c].old = ra
         /\ ra + Increase(local[c].x) < ResetRetryAfterSecond
      \/ /\ conn'[c] = "publish"
         /\ local'[c].nxtRA \in {RetryAfterSecond, ResetRetryAfterSecond}
  BY <1>2, LimitsInNat DEF RejectCompute, BelowThreshold, Otherwise, ServerTypeOK
<1>5. \A d \in Clients : Published(d) => d # c /\ local'[d] = local[d]
  BY <1>1, <1>2
<1>6. RaInv'
  <2>1. (ra' = RetryAfterSecond /\ \A d \in Clients : ~Published(d)')
        \/ \E d \in Clients : Published(d)' /\ local'[d].nxtRA = ra'
    BY <1>1, <1>3, <1>5 DEF OverrunInv, RaInv
  <2>2. \A d \in Clients \ {c} :
          /\ ~Decided(d)' => local'[d].nxtRA = 0
          /\ conn'[d] = "add" =>
               /\ RetryAfterSecond <= local'[d].old
               /\ local'[d].old + Increase(local'[d].x) < ResetRetryAfterSecond
          /\ conn'[d] = "publish" => RetryAfterSecond <= local'[d].nxtRA
    BY <1>1 DEF OverrunInv, RaInv, Decided
  <2>3. /\ ~Decided(c)' => local'[c].nxtRA = 0
        /\ conn'[c] = "add" =>
             /\ RetryAfterSecond <= local'[c].old
             /\ local'[c].old + Increase(local'[c].x) < ResetRetryAfterSecond
        /\ conn'[c] = "publish" => RetryAfterSecond <= local'[c].nxtRA
    BY <1>1, <1>2, <1>4, LimitsInNat DEF Decided
  <2> QED BY <2>1, <2>2, <2>3 DEF RaInv
<1>7. ~(local'[c].nxtRA > ResetRetryAfterSecond)
  BY <1>4, LimitsInNat DEF ServerTypeOK
<1>8. OverrunNeedsRace'
  BY <1>1, <1>3, <1>5, <1>7 DEF OverrunInv, OverrunNeedsRace
<1> QED BY <1>6, <1>8 DEF OverrunInv

(* What is added to is more than what was compared when the sum is too      *)
(* large, so somebody has published it in between.                          *)
LEMMA AddOverrun ==
  ASSUME ServerTypeOK, OverrunInv, NEW c \in Clients, RejectAdd(c)
  PROVE  OverrunInv'
<1>1. /\ conn[c] = "add" /\ conn'[c] = "publish" /\ UNCHANGED <<ra, code, told>>
      /\ \A d \in Clients \ {c} : local'[d] = local[d] /\ conn'[d] = conn[d]
      /\ local'[c].x = local[c].x /\ local'[c].old = local[c].old
      /\ local'[c].nxtRA = ra + Increase(local[c].x)
  BY DEF RejectAdd, ServerTypeOK, shared
<1>2. ra \in Nat /\ local[c].old \in Nat /\ Increase(local[c].x) \in Nat
  BY DEF ServerTypeOK, Increase
<1>3. /\ ~Published(c) /\ ~Published(c)' /\ RetryAfterSecond <= ra
      /\ RetryAfterSecond <= local[c].old
      /\ local[c].old + Increase(local[c].x) < ResetRetryAfterSecond
  BY <1>1 DEF ServerTypeOK, OverrunInv, RaInv, OverrunNeedsRace, Published
<1>4. \A d \in Clients : /\ Published(d)' <=> Published(d)
                         /\ Published(d) => d # c /\ local'[d] = local[d]
  BY <1>1, <1>3 DEF Published
<1>5. RetryAfterSecond <= local'[c].nxtRA
  BY <1>1, <1>2, <1>3, LimitsInNat
<1>6. RaInv'
  BY <1>1, <1>4, <1>5 DEF OverrunInv, RaInv, Decided
<1>7. ASSUME local'[c].nxtRA > ResetRetryAfterSecond
      PROVE  \E d \in Clients \ {c} : /\ Published(d) /\ local[d].nxtRA = ra
                                       /\ local[c].old < ra
  <2>1. local[c].old < ra /\ ra # RetryAfterSecond
    BY <1>1, <1>2, <1>3, <1>7, LimitsInNat
  <2>2. PICK d \in Clients : Published(d) /\ local[d].nxtRA = ra
    BY <2>1 DEF OverrunInv, RaInv
  <2> QED BY <1>3, <2>1, <2>2
<1>8. OverrunNeedsRace'
  BY <1>1, <1>4, <1>7 DEF OverrunInv, OverrunNeedsRace
<1> QED BY <1>6, <1>8 DEF OverrunInv

LEMMA PublishOverrun ==
  ASSUME ServerTypeOK, OverrunInv, NEW c \in Clients, RejectPublish(c)
  PROVE  OverrunInv'
<1>1. /\ conn[c] = "publish" /\ conn'[c] = "reply" /\ ra' = local[c].nxtRA
      /\ \A d \in Clients \ {c} : conn'[d] = conn[d]
      /\ UNCHANGED <<local, code, told>>
  BY DEF RejectPublish, ServerTypeOK
<1>2. Published(c)' /\ RetryAfterSecond <= ra'
  BY <1>1 DEF Published, OverrunInv, RaInv
<1>3. \A d \in Clients : Published(d) => Published(d)'
  BY <1>1, <1>2 DEF Published
<1>4. RaInv'
  BY <1>1, <1>2 DEF OverrunInv, RaInv, Decided
<1>5. OverrunNeedsRace'
  BY <1>1, <1>2, <1>3 DEF OverrunInv, OverrunNeedsRace
<1> QED BY <1>4, <1>5 DEF OverrunInv

(* A handler that replies has published, so that what is stored was         *)
(* published by someone.                                                    *)
LEMMA ReplyOverrun ==
  ASSUME ServerTypeOK, OverrunInv, NEW c \in Clients, RejectReply(c)
  PROVE  OverrunInv'
<1>1. /\ conn[c] = "reply" /\ conn'[c] = "done" /\ code'[c] = "503" /\ told'[c] = ra
      /\ \A d \in Clients \ {c} : /\ conn'[d] = conn[d] /\ code'[d] = code[d]
                                   /\ told'[d] = told[d]
      /\ UNCHANGED <<local, ra>>
  BY DEF RejectReply, Answer, ServerTypeOK, shared
<1>2. PICK d \in Clients : Published(d) /\ local[d].nxtRA = ra
  BY <1>1 DEF OverrunInv, RaInv, Published
<1>3. \A e \in Clients : Published(e)' <=> Published(e)
  BY <1>1 DEF Published
<1>4. RaInv'
  BY <1>1, <1>3 DEF OverrunInv, RaInv, Decided
<1>5. OverrunNeedsRace'
  BY <1>1, <1>2, <1>3 DEF OverrunInv, OverrunNeedsRace
<1> QED BY <1>4, <1>5 DEF OverrunInv

LEMMA OverrunStep ==
  ASSUME ServerTypeOK, OverrunInv, [Next]_vars
  PROVE  OverrunInv'
<1> USE DEF shared, handlers, lifecycle, Decided, Published
<1>t. /\ conn \in [Clients -> {"away", "backlog", "fresh", "done"} \cup Handlers]
      /\ local \in [Clients -> [now : Nat, x : Int, old : Nat, nxtRA : Nat]]
      /\ code \in [Clients -> Codes] /\ told \in [Clients -> Nat]
      /\ \A c \in Clients : code[c] = "none" <=> conn[c] # "done"
      /\ \A c \in Clients : conn[c] \in {"age", "compute"} => local[c].nxtRA = 0
  BY DEF ServerTypeOK, OverrunInv, RaInv
<1>1. ASSUME NEW c \in Clients, Connect(c) \/ Accept(c) \/ Begin(c) \/ CloseUnserved(c)
      PROVE  OverrunInv'
  BY <1>t, <1>1, OverrunKept DEF Connect, Accept, Begin, CloseUnserved, Answer
<1>2. ASSUME NEW c \in Clients, Decide(c) PROVE OverrunInv'
  BY <1>t, <1>2, OverrunKept, VerdictType DEF Decide, Answer
<1>3. ASSUME NEW c \in Clients, Enqueue(c) \/ AnswerOk(c) PROVE OverrunInv'
  BY <1>t, <1>3, OverrunKept DEF Enqueue, AnswerOk, Answer
<1>4. ASSUME NEW c \in Clients, RejectClock(c) \/ RejectMark(c) PROVE OverrunInv'
  BY <1>t, <1>4, OverrunKept DEF RejectClock, RejectMark
<1>5. ASSUME NEW c \in Clients, RejectAge(c) PROVE OverrunInv'
  BY <1>t, <1>5, OverrunKept DEF RejectAge, Answer
<1>6. CASE \/ ServeStart \/ ServeFails \/ SignalNotify \/ SignalReceive
           \/ \E s \in Signals : Signal(s)
  BY <1>t, <1>6, OverrunKept DEF ServeStart, ServeFails, SignalNotify, SignalReceive,
     Signal
<1>7. CASE ShutdownBegins \/ ShutdownReturns \/ MainWait \/ MainReturn
  BY <1>t, <1>7, OverrunKept DEF ShutdownBegins, ShutdownReturns, MainWait, MainReturn
<1>8. CASE WorkerTakes \/ TimerRequeues \/ Tick
  BY <1>t, <1>8, OverrunKept DEF WorkerTakes, TimerRequeues, Tick
<1>9. CASE UNCHANGED vars
  BY <1>t, <1>9, OverrunKept DEF vars
<1> QED
  BY <1>1, <1>2, <1>3, <1>4, <1>5, <1>6, <1>7, <1>8, <1>9, ComputeOverrun, AddOverrun,
     PublishOverrun, ReplyOverrun DEF Next, HandlerStep, Terminated

(* However many handlers race in setRetryAfter, Retry-After is at least its *)
(* minimum, exceeds its threshold only if another handler has published a   *)
(* larger value between the two reads of it, and is what one has published. *)
THEOREM OverrunsComeFromRaces == Spec => []OverrunNeedsRace
<1>1. Init => OverrunInv
  BY LimitsInNat DEF Init, OverrunInv, RaInv, OverrunNeedsRace, Decided, Published
<1>2. ServerTypeOK /\ OverrunInv /\ [Next]_vars => OverrunInv'
  BY OverrunStep
<1>3. OverrunInv => OverrunNeedsRace
  BY DEF OverrunInv
<1> QED BY <1>1, <1>2, <1>3, ServerTypeCorrect, PTL DEF Spec
=============================================================================
