------------------------------- MODULE Server -------------------------------
(***************************************************************************)
(* The HTTP front of Gunfish (server.go): StartServer, the handlers of     *)
(* /push/apns and /push/fcm/v1, the Retry-After value they share, and the  *)
(* goroutine that turns a signal into a shutdown.                          *)
(*                                                                         *)
(* Each handler is a goroutine of net/http.  Handlers that find the queue  *)
(* full run setRetryAfter together, on fields of srvStats that no lock     *)
(* protects, so that every read and write of them is a step of its own.  A *)
(* panic in a handler is recovered by net/http, which aborts the           *)
(* connection.  What the supervisor does is Supervisor.tla; here it is a   *)
(* queue that is drained, and closed at some time after Shutdown is called.*)
(***************************************************************************)
EXTENDS Integers, FiniteSets

CONSTANTS
    Clients,                \* one connection with one request each
    Http,                   \* [Clients -> HttpRequest]
    MaxItems,               \* bound: items in a body
    MaxRequestSize,         \* 5000, config.MaxRequestSize
    MaxBulkRequests,        \* 500, fcmv1.MaxBulkRequests
    QueueSize,              \* capacity of the supervisor's queue
    MaxConnections,         \* conf.Provider.MaxConnections
    RetryAfterSecond,       \* 10
    ResetRetryAfterSecond,  \* 60
    MaxClock, MaxSignals    \* bounds: seconds that pass, signals that arrive

Signals == {"SIGHUP", "SIGTERM", "SIGINT"}

(* body: what decoding it meets.  "noaps" is a payload without "aps" and    *)
(* "misfit" an alert field of another type: both make the handler panic.    *)
HttpRequest == [path : {"/push/apns", "/push/fcm/v1"},
                method : {"GET", "POST"},
                ctype : {"json", "form", "other"},
                body : {"good", "malformed", "noaps", "incomplete", "misfit"},
                items : 0..MaxItems]

ASSUME HttpAssumption == Http \in [Clients -> HttpRequest]
ASSUME LimitsAssumption ==
    /\ {MaxItems, MaxRequestSize, MaxBulkRequests, QueueSize,
        MaxConnections, MaxClock, MaxSignals} \subseteq Nat
    /\ RetryAfterSecond \in Nat /\ ResetRetryAfterSecond \in Nat
    /\ RetryAfterSecond <= ResetRetryAfterSecond

VARIABLES
    conn,      \* each connection, with the handler that serves it
    local,     \* setRetryAfter: now, x, the RetryAfter compared (old), nxtRA
    code,      \* how each request was answered
    told,      \* the Retry-After header of each answer
    su, ra,    \* srvStats.ServiceUnavailableAt and srvStats.RetryAfter
    reqCount,  \* srvStats.RequestCount
    queued,    \* batches in the supervisor's queue
    clock,     \* time.Now().Unix()
    serve,     \* the goroutine of srv.Serve, which owns the listener
    sg,        \* the goroutine startSignalReciever
    sup,       \* the supervisor, as StartServer drives it
    signals,   \* signals the process has got
    killed     \* one of them had its default action

shared == <<su, ra, reqCount>>
handlers == <<conn, local, code, told, shared, queued>>
lifecycle == <<serve, sg, sup, signals, killed>>
vars == <<handlers, clock, lifecycle>>

Init ==
    /\ conn = [c \in Clients |-> "away"]
    /\ local = [c \in Clients |-> [now |-> 0, x |-> 0, old |-> 0, nxtRA |-> 0]]
    /\ code = [c \in Clients |-> "none"]
    /\ told = [c \in Clients |-> 0]
    /\ su = 0 /\ ra = RetryAfterSecond /\ reqCount = 0
    /\ queued = 0
    /\ clock = 1
    /\ serve = "starting" /\ sg = "new" /\ sup = "running"
    /\ signals = 0 /\ killed = FALSE

Up == ~killed /\ sup # "stopped"

(* Connections whose handler has been called and has not returned. *)
Rejecting == {"clock", "mark", "age", "compute", "add", "publish", "reply"}
Handlers == {"serving", "enqueue", "accepted"} \cup Rejecting
Open(states) == {c \in Clients : conn[c] \in states}

-----------------------------------------------------------------------------
(* What the handlers make of a request before they enqueue it. *)

MethodAllowed(r) == r.method = "POST"
MediaTypes(path) == IF path = "/push/apns" THEN {"json", "form"} ELSE {"json"}
TooManyOrNone(r) == r.items = 0 \/ r.items > MaxRequestSize
TooManyPayloads(r) == r.items >= MaxBulkRequests  \* newFCMRequests

(* validatePostedData comes between decoding, which "noaps" panics in, and  *)
(* mapToAlert, which "misfit" panics in.                                    *)
ApnsVerdict(r) ==
    CASE r.body = "malformed" -> "400"
      [] r.body = "noaps" -> "aborted"
      [] TooManyOrNone(r) \/ r.body = "incomplete" -> "400"
      [] r.body = "misfit" /\ ~TooManyOrNone(r) -> "aborted"
      [] OTHER -> "queue"
FcmVerdict(r) == IF r.body = "malformed" \/ TooManyPayloads(r) THEN "400" ELSE "queue"
Verdict(r) ==
    IF ~MethodAllowed(r) THEN "405"
    ELSE IF r.ctype \notin MediaTypes(r.path) THEN "415"
    ELSE IF r.path = "/push/apns" THEN ApnsVerdict(r) ELSE FcmVerdict(r)

Answer(c, status, wait) ==
    /\ conn' = [conn EXCEPT ![c] = "done"]
    /\ code' = [code EXCEPT ![c] = status]
    /\ told' = [told EXCEPT ![c] = wait]

-----------------------------------------------------------------------------
(* Connections, as net/http and netutil.LimitListener treat them. *)

Connect(c) ==
    /\ Up /\ conn[c] = "away" /\ serve # "returned"
    /\ conn' = [conn EXCEPT ![c] = "backlog"]
    /\ UNCHANGED <<local, code, told, shared, queued, clock, lifecycle>>

Accept(c) ==
    /\ Up /\ conn[c] = "backlog" /\ serve = "accepting"
    /\ Cardinality(Open({"fresh"} \cup Handlers)) < MaxConnections
    /\ conn' = [conn EXCEPT ![c] = "fresh"]
    /\ UNCHANGED <<local, code, told, shared, queued, clock, lifecycle>>

(* The request line has been read: its handler starts. *)
Begin(c) ==
    /\ Up /\ conn[c] = "fresh"
    /\ conn' = [conn EXCEPT ![c] = "serving"]
    /\ reqCount' = reqCount + 1
    /\ UNCHANGED <<local, code, told, su, ra, queued, clock, lifecycle>>

(* A connection is closed unserved when the listener is gone, or by         *)
(* srv.Shutdown when nothing was read from it for 5 seconds.                *)
CloseUnserved(c) ==
    /\ Up
    /\ \/ conn[c] = "backlog" /\ serve = "returned"
       \/ conn[c] = "fresh" /\ sg = "draining"
    /\ Answer(c, "closed", 0)
    /\ UNCHANGED <<local, shared, queued, clock, lifecycle>>

-----------------------------------------------------------------------------
(* The handlers: PushAPNsHandler and PushFCMHandler *)

(* Once the body has been read, the request is answered or goes on. *)
Decide(c) ==
    /\ Up /\ conn[c] = "serving"
    /\ IF Verdict(Http[c]) = "queue"
       THEN conn' = [conn EXCEPT ![c] = "enqueue"] /\ UNCHANGED <<code, told>>
       ELSE Answer(c, Verdict(Http[c]), 0)
    /\ UNCHANGED <<local, shared, queued, clock, lifecycle>>

(* EnqueueClientRequest never blocks. *)
HasRoomOffByOne == queued <= QueueSize   \* mutant
HasRoom == queued < QueueSize
EnqueueBlocking(c) ==   \* mutant: a send without default
    /\ Up /\ conn[c] = "enqueue" /\ HasRoom
    /\ queued' = queued + 1 /\ conn' = [conn EXCEPT ![c] = "accepted"]
    /\ UNCHANGED <<local, code, told, shared, clock, lifecycle>>
Enqueue(c) ==
    /\ Up /\ conn[c] = "enqueue"
    /\ queued' = IF HasRoom THEN queued + 1 ELSE queued
    /\ conn' = [conn EXCEPT ![c] = IF HasRoom THEN "accepted" ELSE "clock"]
    /\ UNCHANGED <<local, code, told, shared, clock, lifecycle>>

(* Only then is the answer written. *)
AnswerOk(c) ==
    /\ Up /\ conn[c] = "accepted"
    /\ Answer(c, "200", 0)
    /\ UNCHANGED <<local, shared, queued, clock, lifecycle>>

(* setRetryAfter: now := time.Now().Unix() *)
RejectClock(c) ==
    /\ Up /\ conn[c] = "clock"
    /\ conn' = [conn EXCEPT ![c] = "mark"]
    /\ local' = [local EXCEPT ![c].now = clock]
    /\ UNCHANGED <<code, told, shared, queued, clock, lifecycle>>

(* srvStats.ServiceUnavailableAt = now *)
RejectMarkLate(c) ==   \* mutant: the time is left to be stored afterwards
    /\ Up /\ conn[c] = "mark"
    /\ conn' = [conn EXCEPT ![c] = "age"]
    /\ UNCHANGED <<local, code, told, shared, queued, clock, lifecycle>>
RejectMark(c) ==
    /\ Up /\ conn[c] = "mark"
    /\ conn' = [conn EXCEPT ![c] = "age"]
    /\ su' = local[c].now
    /\ UNCHANGED <<local, code, told, ra, reqCount, queued, clock, lifecycle>>

(* x = now - srvStats.ServiceUnavailableAt, then 10/(x+1), which panics at  *)
(* x = -1 unless x is above the threshold.                                  *)
Divides(x) == x # -1
RejectAge(c) ==
    /\ Up /\ conn[c] = "age"
    /\ local' = [local EXCEPT ![c].x = local[c].now - su]
    /\ IF Divides(local[c].now - su)
       THEN conn' = [conn EXCEPT ![c] = "compute"] /\ UNCHANGED <<code, told>>
       ELSE Answer(c, "aborted", 0)
    /\ UNCHANGED <<shared, queued, clock, lifecycle>>

(* 2 * int64(math.Log(10/(x+1) + 1)).  The quotient of two integers makes   *)
(* the logarithm 2 at x = 0, 1 for 1..4 and 0 from 5 on.  For x < -1 it is  *)
(* 0, or not a number or infinite: then the conversion yields 0 or -2^63,   *)
(* and twice that is 0 in 64 bits.                                          *)
Increase(x) == IF x = 0 THEN 4 ELSE IF x \in 1..4 THEN 2 ELSE 0
BelowThresholdAlways(x, old) == x <= ResetRetryAfterSecond   \* mutant: no threshold
BelowThreshold(x, old) ==
    x <= ResetRetryAfterSecond /\ old + Increase(x) < ResetRetryAfterSecond
Otherwise(x) == IF x > ResetRetryAfterSecond THEN RetryAfterSecond
                                             ELSE ResetRetryAfterSecond

(* srvStats.RetryAfter is read to be compared with the threshold ...        *)
RejectCompute(c) ==
    LET x == local[c].x IN
    /\ Up /\ conn[c] = "compute"
    /\ IF BelowThreshold(x, ra)
       THEN /\ conn' = [conn EXCEPT ![c] = "add"]
            /\ local' = [local EXCEPT ![c].old = ra]
       ELSE /\ conn' = [conn EXCEPT ![c] = "publish"]
            /\ local' = [local EXCEPT ![c].nxtRA = Otherwise(x)]
    /\ UNCHANGED <<code, told, shared, queued, clock, lifecycle>>

(* ... and read again to be increased.                                      *)
RejectAdd(c) ==
    /\ Up /\ conn[c] = "add"
    /\ conn' = [conn EXCEPT ![c] = "publish"]
    /\ local' = [local EXCEPT ![c].nxtRA = ra + Increase(local[c].x)]
    /\ UNCHANGED <<code, told, shared, queued, clock, lifecycle>>

(* srvStats.RetryAfter = nxtRA *)
RejectPublish(c) ==
    /\ Up /\ conn[c] = "publish"
    /\ conn' = [conn EXCEPT ![c] = "reply"]
    /\ ra' = local[c].nxtRA
    /\ UNCHANGED <<local, code, told, su, reqCount, queued, clock, lifecycle>>

(* The header is what srvStats.RetryAfter is by now. *)
RejectReply(c) ==
    /\ Up /\ conn[c] = "reply"
    /\ Answer(c, "503", ra)
    /\ UNCHANGED <<local, shared, queued, clock, lifecycle>>

HandlerStep(c) ==
    \/ Enqueue(c) \/ AnswerOk(c) \/ RejectClock(c) \/ RejectMark(c) \/ RejectAge(c)
    \/ RejectCompute(c) \/ RejectAdd(c) \/ RejectPublish(c) \/ RejectReply(c)

-----------------------------------------------------------------------------
(* StartServer: the Serve goroutine, the signal goroutine and main *)

ServeStart ==
    /\ Up /\ serve = "starting"
    /\ serve' = IF sg \in {"draining", "returned"} THEN "returned" ELSE "accepting"
    /\ UNCHANGED <<handlers, clock, sg, sup, signals, killed>>

(* Serve fails to accept and closes the listener; nobody else is told. *)
ServeFails ==
    /\ Up /\ serve = "accepting"
    /\ serve' = "returned"
    /\ UNCHANGED <<handlers, clock, sg, sup, signals, killed>>

SignalNotify ==   \* signal.Notify
    /\ Up /\ sg = "new"
    /\ sg' = "notified"
    /\ UNCHANGED <<handlers, clock, serve, sup, signals, killed>>

SignalReceive ==   \* the goroutine reaches <-sigChan
    /\ Up /\ sg = "notified"
    /\ sg' = "waiting"
    /\ UNCHANGED <<handlers, clock, serve, sup, signals, killed>>

HandledNoHup(s) == s \in {"SIGTERM", "SIGINT"}   \* mutant: a case is missing
Handled(s) == s \in {"SIGHUP", "SIGTERM", "SIGINT"}

(* A signal kills the process before signal.Notify, is lost while nobody    *)
(* receives from the unbuffered sigChan, and else picks a case of the       *)
(* switch.                                                                  *)
Signal(s) ==
    /\ Up /\ signals < MaxSignals
    /\ signals' = signals + 1
    /\ killed' = (sg = "new")
    /\ sg' = IF sg # "waiting" THEN sg
             ELSE IF Handled(s) THEN "stopping" ELSE "returned"
    /\ UNCHANGED <<handlers, clock, serve, sup>>

(* srv.Shutdown closes the listener, and Serve returns. *)
ShutdownBegins ==
    /\ Up /\ sg = "stopping"
    /\ sg' = "draining"
    /\ serve' = IF serve = "accepting" THEN "returned" ELSE serve
    /\ UNCHANGED <<handlers, clock, sup, signals, killed>>

(* It returns when every connection is closed. *)
Drained == Open({"fresh"} \cup Handlers) = {}
ShutdownReturns ==
    /\ Up /\ sg = "draining" /\ Drained
    /\ sg' = "returned"
    /\ UNCHANGED <<handlers, clock, serve, sup, signals, killed>>

(* wg.Wait() returns; sup.Shutdown() *)
WgDoneServeOnly == serve = "returned"   \* mutant: wg.Add(1) for Serve only
WgDone == serve = "returned" /\ sg = "returned"
MainWait ==
    /\ Up /\ sup = "running" /\ WgDone
    /\ sup' = "stopping"
    /\ UNCHANGED <<handlers, clock, serve, sg, signals, killed>>

MainReturn ==
    /\ Up /\ sup = "stopping"
    /\ sup' = "stopped"
    /\ UNCHANGED <<handlers, clock, serve, sg, signals, killed>>

-----------------------------------------------------------------------------
(* The rest of the program and the world. *)

WorkerTakes ==
    /\ Up /\ queued > 0
    /\ queued' = queued - 1
    /\ UNCHANGED <<conn, local, code, told, shared, clock, lifecycle>>

(* A backoff timer puts a request back on the queue, if there is room. *)
TimerRequeues ==
    /\ Up /\ HasRoom
    /\ queued' = queued + 1
    /\ UNCHANGED <<conn, local, code, told, shared, clock, lifecycle>>

Tick ==
    /\ Up /\ clock < MaxClock
    /\ clock' = clock + 1
    /\ UNCHANGED <<handlers, lifecycle>>

Terminated == ~Up /\ UNCHANGED vars

Next ==
    \/ \E c \in Clients : \/ Connect(c) \/ Accept(c) \/ Begin(c) \/ CloseUnserved(c)
                          \/ Decide(c) \/ HandlerStep(c)
    \/ ServeStart \/ ServeFails \/ SignalNotify \/ SignalReceive
    \/ \E s \in Signals : Signal(s)
    \/ ShutdownBegins \/ ShutdownReturns \/ MainWait \/ MainReturn
    \/ WorkerTakes \/ TimerRequeues \/ Tick
    \/ Terminated

Spec == Init /\ [][Next]_vars

(* Goroutines that can run do run.  Nothing is assumed of clients (that     *)
(* they connect, send a request or finish its body), of signals, of the     *)
(* workers' draining the queue, or of Supervisor.Shutdown, which may wait   *)
(* for ever (Supervisor.tla).                                               *)
GoroutineFairness ==
    /\ \A c \in Clients : WF_vars(HandlerStep(c)) /\ WF_vars(CloseUnserved(c))
    /\ WF_vars(ServeStart) /\ WF_vars(SignalNotify) /\ WF_vars(SignalReceive)
    /\ WF_vars(ShutdownBegins) /\ WF_vars(ShutdownReturns)
    /\ WF_vars(MainWait)

FairSpec == Spec /\ GoroutineFairness
=============================================================================
