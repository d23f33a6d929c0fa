# Gunfish in TLA+

Gunfish is a push provider server: it takes batches of notifications over HTTP,
answers at once, and delivers them to APNs and FCM v1 from a pool of workers,
with resends, an error hook and a graceful stop. This directory models it, model
checks the models on small instances with TLC, and proves the main safety
properties for every instance with TLAPS. Source paths are relative to `src/`.

## Inventory

| Component | State | Operations | Interacts through |
|---|---|---|---|
| HTTP handlers (`server.go`) | `srvStats.{RequestCount, ServiceUnavailableAt, RetryAfter}` | validate, decode, enqueue, `setRetryAfter` | calls `EnqueueClientRequest` |
| Server lifecycle (`server.go`) | listener, `Serve` goroutine, signal goroutine, wait group | start, signal, `srv.Shutdown`, wait | calls `Supervisor.Shutdown` |
| Supervisor (`supervisor.go`) | `queue`, `retryq`, `cmdq`, `exit` | enqueue, shut down | channels read by the workers, the ticker and the hook goroutines |
| Worker, one per `worker_num` | its select loop, `w.queue`, `w.respq` | take a batch, distribute it, handle a response, leave | `w.queue` to its senders, `w.respq` back, `retryq`, `cmdq` |
| Sender, 20 per worker | the request it is sending | take, send, answer | `w.queue`, `w.respq`, the provider's client |
| Retry | `Tries` in each request, the ticker, timers | sweep, back off, retry after a quota error | `retryq`, `time.AfterFunc`, `queue` |
| Error hook | a goroutine per worker over `cmdq` | run a command | `cmdq` |
| APNs client (`apns/client.go`, `apns/jwt.go`) | the provider token shared by a worker's senders | send, reissue the token | called by senders |
| FCM client (`fcmv1/client.go`) | none of its own | send | called by senders |
| Statistics (`stat.go`) | `srvStats` | counters, `/stats/app` | written by all of them, without locks |
| Configuration (`config/config.go`) | the loaded values | load, validate | read at start; sizes the channels |
| Start-up (`cmd/gunfish/gunfish.go`, `StartServer`, `StartSupervisor`) | the configuration, the workers so far, the mux | load, size the channels, make the clients, listen | hands a complete process to the others, or ends |
| Log format, mocks, response handlers | | | output, tests, callbacks of an embedding program |

What is hard about it, and what makes each part correct:

* **Hand-overs.** A request goes queue, worker, `w.queue`, sender, `w.respq`,
  worker, `retryq`, timer, queue. Each accepted notification must have exactly
  one copy until it is settled, and none afterwards; a settled one must stay so.
* **Lossy sends.** Every channel send but one is a `select` with a `default`:
  a full channel drops what is sent. This is the design (it is also what keeps a
  worker and its senders from waiting for each other), so the models record each
  drop as a fate, `"dropped"`. A notification may be dropped only when more were
  accepted than a channel has room for.
* **Resends.** Timeouts, expired provider tokens, transient and quota errors
  lead to resends, bounded by a counter inside the request. A notification may
  reach its user twice only when an acceptance was not heard.
* **Shutdown.** It polls the lengths of the channels, then closes `exit` and
  `cmdq`, waits, and closes `queue` and `retryq`. Anything that sends on a closed
  channel panics, which in a plain goroutine ends the process.
* **Shared statistics.** `setRetryAfter` runs in concurrent handlers on fields
  that nothing protects.
* **The provider token.** The senders of a worker share it, check its age,
  reissue it and read it without a lock; a request must not carry a token that
  APNs finds too old, nor a torn one.
* **Starting.** What `LoadConfig` has checked is read again by every worker, and
  some of what is used is never checked. A process that serves must be complete:
  all its workers, each with the clients its endpoints need.
* **Signals.** One goroutine, an unbuffered channel, and three stages in which a
  signal kills the process, is lost, or stops it.

## Modules

| Module | What it is |
|---|---|
| `Supervisor` | the delivery pipeline of `supervisor.go`, from `EnqueueClientRequest` to the end of `Shutdown` |
| `SupervisorProps` | its type invariant, safety, action and liveness properties, and what the documentation says and the code does not keep |
| `Delivery` | the abstract specification: what the pipeline promises for a notification |
| `MCSupervisor` | instances of the pipeline for TLC |
| `SupervisorProofs` | TLAPS: type correctness of the pipeline, the order of closing and leaving, no mutual wait |
| `CopiesProofs` | TLAPS: one request per notification, and the refinement of `Delivery` |
| `StatsProofs` | TLAPS: the counters agree with the sends |
| `Responses` | from what a provider sends back to a result, and from a result to what a handler does about it |
| `ResponsesProofs` | TLAPS: the answers and the tables of `Supervisor` are those of the clients and the handlers |
| `Server` | the HTTP front: handlers, `Retry-After`, lifecycle, signals |
| `ServerProps`, `MCServer`, `ServerProofs` | its properties, instances and proofs |
| `Gunfish` | the whole running process: `Server` over `Supervisor` |
| `GunfishProps`, `MCGunfish`, `GunfishProofs` | its properties, instance and proofs |
| `ApnsToken` | the provider token of an APNs client and its senders |
| `ApnsTokenProps`, `MCApnsToken`, `ApnsTokenProofs` | its properties, instances and proofs |
| `Startup` | how the process starts, from the configuration to the mux |
| `StartupProps`, `MCStartup`, `StartupProofs` | its properties, instance and proofs |

`Supervisor` and `Server` meet at the queue and at the call of
`Supervisor.Shutdown`. Each stands alone: `Supervisor.Enqueue` is possible only
before the shutdown begins, and in `Server` the pipeline is a queue whose length
workers and timers change. `Gunfish` puts them together, and shows that these
assumptions hold: a handler always finds the pipeline running
(`EnqueueFindsItRunning`), and the front of the process is the `Server` of the
module (`ImplementsServer`). `Startup` ends where they begin.

### How Supervisor corresponds to the code

A goroutine is a `pc` with the values it holds, a buffered channel a bounded
sequence, a pending timer a member of a set. `worker[w]`, `sender[w][s]`,
`hook[w]`, `ticker` and `shut` are the goroutines; `queue`, `retryq`, `cmdq`,
`wq`, `respq` the channels; `backoff` and `quota` the timers; `closed` the
channels that have been closed (those of a worker are closed by where the worker
is: `WqClosed`, `RespqClosed`). `stats` is `srvStats`. `answer`, `fate` and
`wire` are history: how a POST was answered, what became of a notification, and
what the provider saw of it. Each select case is an action of its own, each
receive one step, each send on a channel one step.

An `answer` of a provider is one of seven classes, the cases the handlers of a
response tell apart: `ok`; `noanswer` (the client returned an error; the provider
may have taken the notification all the same); `expired` (APNs'
ExpiredProviderToken: resent and reported); `transient` (FCM INTERNAL,
UNAVAILABLE); `quota`; `refused` (reported to the hook); `unknown`. `Responses`
says where they come from: an `Exchange` is a call of `Send` as the provider saw
it (was it built, heard, with which status and body, was the notification taken),
`ApnsSend` and `FcmSend` are the `Send` of the clients, `handleAPNsResponse` and
`handleFCMResponse` the handlers, branch by branch. What the providers do
(`Exchanges`) is assumed: APNs takes what it answers with 200, FCM what it names.
`MCSupervisor` takes its replies from there (`RepliesOfTheClients`).

Choices that a reader should know:

* A panic in any of these goroutines ends the process. `panic` names the
  channel, and nothing is enabled afterwards.
* Time is abstracted: a tick or a timer may happen at any time after it is due
  to, in any order.
* The poll of `Shutdown` is one step per length, in the code's order: `queue`,
  `cmdq`, `retryq`, then for each worker its queue and its responses (of the
  workers themselves in any order). `shut.zeros` are the lengths this turn has
  found 0. The first that is not 0 ends the turn, since nothing that is read
  after it changes the outcome; so does the last one.
* A channel that is closed and empty yields the zero value: the ticker, which
  the wait group does not cover, then starts a timer with the zero Request.
* A sender whose client is missing skips its request; this cannot happen, since
  a route exists only for an enabled provider (`server.go:143-157`). The
  APNs client never returns an error with results. Both branches are left out.
* Each notification is posted once. `wire[n].sends` counts when `Send` returns.
* The `Workers` gauge is the number of workers not stopped and is not kept.

### How Server corresponds to the code

`conn[c]` is a connection with the handler that serves it. A request is what the
handlers tell apart: path, method, media type, number of items, and what decoding
meets. Two bodies make the handler panic, a payload without `aps`
(`apns/notification.go`) and an alert field of another type
(`mapToAlert`); net/http recovers that and aborts the connection. `Verdict`
follows the order of the checks. `Enqueue` is the call of `EnqueueClientRequest`,
`AnswerOk` the 200 that a later statement writes. `setRetryAfter` is seven steps,
one per access to a shared field: `RetryAfter` is read once to be compared with
the threshold (`RejectCompute`) and once more to be increased (`RejectAdd`),
without a lock or an atomic load. The logarithm in `updateRetryAfterStat` is
tabulated (`Increase`), with integer division, and with the two's complement
result of twice an invalid conversion. `ServeFails` is `Serve` returning an
error of its own: it closes the listener, and the signal goroutine goes on
waiting.

`/stats/app` and keep-alive connections are left out.
net/http is modelled from how it is used: `Shutdown` closes the listener and
connections on which nothing was read, and returns when the others are done;
`LimitListener` bounds the open connections.

### How Gunfish corresponds to the code

`Gunfish` declares the variables of both modules and instantiates them:
`queued` of `Server` is the length of the `queue` of `Supervisor`, a POST of
`Supervisor` is a client of `Server`. Three actions are joint. `Push` is
`EnqueueClientRequest` with what its caller makes of the result: it goes on to
answer 200 (`AnswerOk`, a step of its own) or to `setRetryAfter`. `Stop` is the call of `sup.Shutdown()`, `Exit` its return at
the end of `StartServer`. Every other step is one of `Server` (`Front`) or of
`Supervisor` (`Pipe`) and leaves the other side alone. The process is up as long
as both are: a signal without a handler ends the pipeline, and a panic in a
goroutine of the pipeline ends the front.

### How ApnsToken corresponds to the code

`jwt` and `issuedAt` are the two fields of `authToken`, `call[s]` the call of
`Send` a sender is in, with what it has read. A step is one access: the check of
the age, `CreateJWT` (which reads only constants and the clock), each word of the
string that is stored, the time, each word that is read. The two words of a
string are its pointer, here the text it points at, and its length; a race can
give a reader the pointer of one token and the length of another, in either
order. Texts of a token differ in their time and in their length, since an ECDSA
signature in DER has no fixed one. `CreateJWTFails` stores the empty string and
leaves `issuedAt`, as the assignment at `apns/client.go:142` does. `overlap` is
history: a sender issued a token while another one was between its check and the
end of its send. A sender's call ends within `Patience`, which stands for the
client's timeout of ten seconds.

### How Startup corresponds to the code

`pc` is the step `main` is at. The configuration is what the code tells apart:
the numbers of the `[provider]` section, and for the others which keys are
present. `enabled` can be set in the file as well, since the field has no tag
that hides it. `files` is what the certificate and key files hold now, and
`Replace` changes them at any time. `NewClient` is `apns.NewClient`: with a
provider token it signs at once, and `createSignature` uses the PEM block and the
key without looking (`apns/jwt.go:94-100`). `SpawnWorker` is a turn of the loop
of `StartSupervisor`, whose error ends `StartServer` in `Fatalf`. The sizes are
computed with the code's integer operations, in its order.

## Runs

| Run | Instance | Shows |
|---|---|---|
| `workers` | 2 workers, 1 POST of 2 notifications, 1 resend, channels of capacity 1, symmetry of workers | `TypeOK`, `ExactlyOneCopy`, `AttemptsMatchTries`, `CoveredChannelsSafe`, `WaitDrainsWorkers`, `NoMutualWait` |
| `answers` | 1 worker, 2 POSTs (APNs and FCM) with four kinds of answers each, 2 resends | `DuplicateOnlyIfUnheard`, `AnswerIsAPromise`, `StatsAccount`, `SettledForever`, `DropNeedsCrowd`, `ImplementsDelivery` |
| `live` | 1 worker, 1 POST of 2 notifications, fairness | `EveryAcceptedSettles`, `ShutdownEnds` |
| `drain` | 1 worker, 2 POSTs (APNs and FCM) as in `answers`, 1 resend, poll of 3 zeros | violated: `NothingInFlightWhenWaitEnds` |
| `late_answer` | as `live`, poll of 3 zeros | violated: `LateAnswerHarmless` |
| `forced` | as `live` | violated: `ForceTerminates` |
| `handlers` | 3 clients, one of which makes its handler panic, 1 place in the queue, 2 connections, 2 signals, 2 seconds; fairness | `ServerTypeOK`, `NoLateEnqueue`, `OverrunNeedsRace`, `AgeNeedsRace`, `NeverHeld`, `GracefulStop` |
| `refusal` | 3 clients | violated: `FullQueueMeans503` |
| `token` | 2 senders, 2 lengths of a token, time in minutes up to 165 | `TokenTypeOK`, `SoundWithoutOverlap`, `AtMostOneSlotBehind`, `OverlapBoundsAge` |
| `token_age` | the same with 1 length | violated: `RecreatedWithinHour` |
| `startup` | 19 sections at the limits, all keys, files that change once | `StartupTypeOK`, `ServingIsEquipped`, `PanicsExplained`, `ValidatedStarts` |
| `gunfish` | 2 clients, 1 worker, 1 sender, channels of capacity 1, 1 signal; fairness | `OkMeansTaken`, `EnqueueFindsItRunning`, `SignalEndsProcess`, `ImplementsServer` |

Deadlock is checked in the runs of the pipeline, of the token and of the start.
It is not in those of the HTTP front and of the whole process: a server that has
lost its only signals idles for ever, rightly.

`answers` is the largest run, with 1.5 million distinct states; `workers` has
600,000, `handlers` 250,000 and `gunfish` 120,000.

**Bounds.** Channels of capacity 1 are full as soon as one request waits, so that
every drop happens; two notifications are enough for one to push the other out
and for a batch to be split between two hands. `SendRetryCount` of 1 and 2 let a
notification be resent and given up. `RestartWaitCount` and `MaxBusyPolls` of 1
let both ends of the poll happen at once; `drain` and `late_answer` use 3 and
20, so that the poll ends by three zeros in a row. `RetryOnceCount` is 1: a
longer sweep only repeats the turn. In `handlers` the threshold of Retry-After
is 16 instead of 60, because three refusals could not reach 60: 10 grows to 14,
then to the threshold, or, when one refusal publishes between the two reads of
another, to 18. `drain` has an APNs and an FCM notification, so that both kinds
of timers can be pending. `MaxClock` lets the second change between two refusals,
`MaxSignals` gives a signal to lose and one to receive.

The durations of the token are Gunfish's own, in minutes: slots of 30, a lag of
10, a refresh after 59. A sender has `Patience` 1, more than its ten seconds. 165
minutes are enough for a token to be issued anywhere in a slot, replaced, and the
replacement to age. Two senders are enough for every race of a pair of fields; a
third can only write what one of the two could. `startup` takes each limit of the
section from both sides, and the sizes at which the arithmetic changes (134,
where `tp` becomes 1, and 266); the settings are few because the parts of the
configuration do not depend on each other. One replacement of the files lets them
differ between the check and each worker. `gunfish` has two clients, so that one
fills the queue and the other is refused while a signal comes, and one
notification that is reported to the hook and resent.

**Fairness.** The Go scheduler runs every goroutine that can run: weak fairness
for each. A `select` chooses at random among its ready cases, so a case that is
ready again and again is chosen: strong fairness per case of a worker's loop, and
for senders and hook goroutines that compete for a channel. A send to a provider
ends, because the clients have timeouts (`apns/client.go`, `fcmv1/client.go`).
Nothing is assumed of hook commands, of clients, of signals, of the draining of
the queue in `Server`, or of the ticker's choosing `exit`. In `Server` nothing is
assumed of `Supervisor.Shutdown` either, which may wait for a hook command for
ever: `GracefulStop` ends where `StartServer` calls it, and what comes after is
the matter of `ShutdownEnds` and `SignalEndsProcess`. `ShutdownEnds` has the
hypothesis `HooksEnd`, and `forced` shows that it is needed; `GracefulStop` has
`BodiesArrive`, because http.Server is given no timeouts. `Gunfish` has the
fairness of both, of the composed steps, and `SignalEndsProcess` both hypotheses.
`ApnsToken` and `Startup` state no liveness.

## What the runs found

* `drain`: a sender that waits for its provider, a request in a timer, and one in
  a worker's hands are in no channel, so the poll does not see them; nor does it
  see one that moves to a channel whose length it has read already.
* `late_answer`: `select` may prefer a response over the closed `exit`; if the
  answer is an error, `onResponse` sends on the closed `cmdq` and the process
  dies in the middle of its shutdown. Timers and the ticker can do the same with
  `queue` and `retryq`.
* `forced`: giving up the poll after two minutes does not bound `wgrp.Wait()`.
* `refusal`: between storing its time and reading it back, a handler may be
  overtaken by one with a later second; it then divides by zero, and its client
  gets an aborted connection instead of 503 with Retry-After. (The test that
  expects the 503, `server_test.go:192`, has a name with a leading underscore
  and does not run.)
* `token_age`: a sender that signs at the end of a slot and one that signs in the
  next store their tokens and times in opposite orders: the older token is then
  used until the younger time is an hour ago. `OverlapBoundsAge` shows that it is
  never worse than one slot, and `SoundWithoutOverlap` that nothing but such a
  race leads there.

Five more places where the documentation and the code differ are single lines of
code, transcribed in the models, that need no run: the FCM limit is 499
(`server.go:320`; `README.md:132` says 500); the configured `max_request_size` is
not applied to a POST (`server.go:378`; `README.md:218`); `worker_num` and
`max_connections` are called optional (`README.md:216`, `:219`), but a
`worker_num` of 0 is refused and a limit of 0 makes a listener that accepts
nothing; the latest of the certificates' expiry times is kept where a comment
says the minimum (`config/config.go:199-202`).

Also visible in the models: without a race the age of the last refusal is always 0 (`AgeNeedsRace`), so
Retry-After grows to its threshold and never falls back. In a race it can exceed
the threshold that `const.go:24-26` defines "so as not to wait too long", since it
is read once to be compared and once to be increased; `OverrunNeedsRace` says that
nothing else takes it there. A batch
can be taken and its client never answered, when a signal comes before
`signal.Notify` (`OkMeansTaken`). A `max_request_size` from 1 to 133 is
accepted and panics in `StartSupervisor`; so does the key file of a provider token
that is not an EC key in PEM. When the port is taken, `StartServer` returns and the
process ends with status 0.

## Proofs

Every theorem holds for all values of the constants that the assumptions of the
module allow; no module has a recursive operator. Of the 32 properties of the
passing runs, 26 are theorems: all but the five of liveness and `DropNeedsCrowd`.

`SupervisorProofs!TypeCorrect` proves `TypeOK` inductive, one lemma per
action. It uses the assumptions of `Supervisor`: capacities and limits are
positive, batches are sequences of notifications.

The second half of `SupervisorProofs` proves what the wait group is for, with any
number of workers, senders and notifications. `CoveredChannelsSafe` is about
`queue`, `retryq` and the `respq` of a worker; `cmdq` is not among them, as a
worker that the wait group covers may use it when it is closed (`late_answer`).
It and `WaitDrainsWorkers` are not inductive: nothing in them says why a sender
has left, or which channel is closed when. `ClosingInv` adds that. `ClosingOrder` ties the set of closed channels to
where `Shutdown` is, and says that the queue is closed only when the wait is
over; `LeavingOrder` says that a sender that left has a closed and empty queue, a
worker that stopped has no senders, and a hook goroutine that left saw `cmdq`
closed and empty. `LoopStepFrame` is the lemma that carries it: a worker in its
loop adds only to its own queue and to an open `cmdq`. From `ClosesInOrder`
follow `ChannelsSafe` and `WaitDrains`.

`NoRing` follows from it too. A worker that cannot put a request on its full
queue has senders, none of which has left, since the queue is not empty; each of
them is sending or can receive. A worker that joins has closed its queue, so that
a sender that is still there can send or leave. While `Shutdown` waits, `exit` and
`cmdq` are closed, so that an idle worker can stop and an idle hook goroutine can
leave. That is deadlock freedom for every capacity; that who can move does move is
fairness, and stays with `ShutdownEnds`.

`CopiesProofs` proves the properties of the hand-overs. None of them is inductive
alone: that a sender adds one copy depends on where the request it holds came
from, and that a resend is the right one on what the request has counted.
`CopyInv` (in `SupervisorProps`) is all of it together.

* `PlacesInv` says where requests are. There are nine kinds of places (`Kinds`:
  the queue, the batches of workers, their queues, the senders, the answers, the
  workers that retry, `retryq`, and the two kinds of timers). No notification is in
  two kinds (`OneKind`); within one it is at one index of one sequence
  (`FamilyDistinct`), with one sender (`OneSender`) or one worker (`OneRetrier`);
  and what is held is a request of a notification, but for the zero Request that a
  closed `retryq` yields (`OnlyRealRequests`).
* `HistoryInv` says what they carry. What is held is pending, and what is
  pending is held until a panic; `Tries` is what the provider has seen; an acceptance that was heard was heard
  once, and the fate agrees with it; a batch is untouched or taken as a whole.

A step of the pipeline then *moves* a request from one place to another, *carries*
it where it is, *drops* it with a fate, or takes in a batch; there is a lemma for
each kind, and one per action that says which it is. The invariant also uses
`TypeOK` and `ClosingInv`: the zero Request must not be taken for one of the
pipeline's own, and it appears only when `retryq` is closed. `BatchAssumption` says
that the batches of different POSTs, and the places of one, are
different notifications. This only names them: a notification *is* one item of one
body, whatever its text. From `OneCopyEach` follow `ExactlyOne`, `TriesCountSends`,
`NoHeardDuplicate` and `PostsArePromises`. `SettledStays` looks at each step
again: what it sends or settles is held, so it is pending. `PipelineDelivers` is
the simulation of `Delivery`: each step accepts a batch, is an attempt, makes
notifications leave (settled, or dropped), or is a stutter.

`StatsProofs` proves `StatsAccount`. The counters are compared with numbers of
elements of sets, a send being the pair of a notification and a number, and not
with a sum over the notifications: that a sum changes by one with one of its terms
would be an induction over a set. `StatsInv` puts each counter between two sets
that a step changes by at most one element. Above it are the sends whose answer
has been read (`SendsBut`): all of them, but the last one of a notification whose
answer is still in `respq`, or for retries also in the hands of a worker that
retries or in the timer of a quota error. Below it are the deliveries, the
rejections, or the sends that another send has followed or will (`Retried`). When
a counter grows, an answer leaves one of these places, so the upper set gets one
element more; when the lower set grows, the counter does, with it or before. That
it is the same answer, and that its send is the last one of its notification, is
`CopyInv`.

`ApnsTokenProofs` proves the four invariants of the token for all durations that
`DurationsAssumption` allows, not only those of the code. `TokenInv` is the types
with what they need: no time is later than the one that `CreateJWT` would take
now. `RaceInv` makes `AtMostOneSlotBehind` inductive: a sender that has
signed and not stored, or stored and not stamped, took its time in a call that
lasts no longer than `Patience`, which is no more than a slot, so that two times
that are on their way at once are at most a slot apart; and what a sender has read
is at most that much worse than what its check saw. `NoOverlapInv` is the
conditional half: as long as no issue has overlapped another call, a sender that
issues is alone, one that reads finds the token it has checked, and at rest the
token is whole and of the recorded time, or empty and stale. The time of a token
is `clock \div Slot * Slot - Lag`, which is not linear when `Slot` is a constant;
what is needed of it is three lemmas (`DivTimes`, `TimesApart`, `TimesOrdered`),
and everything above them is linear. `DurationsAssumption` has a conjunct for it:
`MaxClock` leaves room for the first time the clock may show.

`ServerProofs` proves `ServerTypeOK` inductive, and from
`StoppingOrder` the theorem `HandlersFirst`: the supervisor is told to stop only
after the signal goroutine has returned, which it does only when no connection is
open, and no connection is opened once `Serve` has returned.

`AgesComeFromRaces` needs `MarkInv`: the shared time is one that some handler has
taken and stored, and a handler that is about to read it back has stored its own.
The age that it then computes is the difference of its time and that of whoever
stored last. If this is itself, the age is 0; if not, there is the other handler
that the property asks for.

`OverrunsComeFromRaces` needs `RaInv`: `RetryAfter` is the value it starts with,
or one that a handler has published. A handler that is about to add has compared
a value (`old`) that leaves room below the threshold. If the value it reads now is
the same one or smaller, the sum is within the threshold; if it is larger, some
other handler has published it, and that is the one the property asks for.

`StartupProofs` proves the four invariants of a start for all settings. The
arithmetic is `WorkerQueueHasRoom`: for 134 to 5000, the quotient by `tp` is at
most 1900, so that `dif` is at least 100 and ten times it, divided among at most
119 workers, is never 0 (and the branch for a negative `dif` is never taken).
`StartupInv` carries through the steps what each has established: the
ranges after `LoadConfig`, the workers spawned so far and that each has the
clients of the enabled sections, and that an unchanged pair of files is still
valid.

`ResponsesProofs` proves that `Supervisor` may speak of answers and not of HTTP:
every exchange leads to one of the seven, `ok` means taken
(`AnswersMatchExchanges`), and for each the four tables `RetriedNow`,
`RetriedLater`, `Hooked` and the two counts say what the handler does
(`HandlersFollowTables`).

`GunfishProofs` proves the refinement of `Server` by the process step by step:
every step of the pipeline is, for the front, a batch taken (`WorkerTakes`), a
batch put back (`TimerRequeues`) or a stutter. `Shape` is the invariant it needs,
that the queue is a sequence. `StopInvariant` then orders the handlers, the
goroutines of the server and the stages of `Supervisor.Shutdown` in one
invariant, from which `HandlersFindItRunning` follows.

`PipelineIsSupervisor` is the other half of the composition: with the clients as
its POSTs, the process is a `Supervisor`. `Supervisor` alone lets a POST arrive
and the shutdown begin whenever they could, so that nothing proved of it rests on
how they are called. `PipelineAssumption` says that the constants of the process
are such as `Supervisor` assumes. The theorems of `CopiesProofs`, instantiated for
this pipeline (`C`), then hold of the process: `ProcessDelivers`, and, with the
invariant that the pipeline has accepted a body exactly when its client's code is
200 or its handler is about to write that (`CodeInv`), `TakenIffOk`. Its second
half, that no shutdown comes in between, is `StopInvariant` again: a handler
between the two steps is one that the server waits for, and until it has returned
`Supervisor.Shutdown` is not called and no channel is closed, so that nothing can
panic; only a signal before `signal.Notify` can end the process there.

The invariants come along as well. `ProcessKeepsPipeline` states the eight of
`Supervisor` of the pipeline inside the process, with its real callers and its
real shutdown; `ProcessKeepsFront` states three of `Server` of the front, whose
queue now changes only as the pipeline lets it (`F`; `FrontAssumption` says that
the constants are such as `Server` assumes).

The inductive invariants were model-checked before they were proved, by adding
them to the instances of the runs: `CopyInv` to `workers` and `answers`,
`TokenInv`, `RaceInv` and `NoOverlapInv` to `token`.

Only model-checked: the liveness properties `EveryAcceptedSettles`,
`ShutdownEnds`, `NeverHeld`, `GracefulStop` and `SignalEndsProcess`, since
fairness and ENABLED are beyond the prover, and `DropNeedsCrowd`, which counts
the copies in a channel against the notifications that were accepted.

## Not modelled

* `/stats/app` (`StatsHandler`, `GetStats`): it copies lengths and counters into
  fields that nothing else reads. Concurrent readers share `Uptime` and `Period`
  without a lock, which affects only what they print.
* Log format, log fields, flags, profiling endpoints, and the mock servers and
  tools, which are not part of the program.
* `InitErrorResponseHandler` and `InitSuccessResponseHandler` (`global.go`): an
  embedding program sets them before the server starts; the default ones do
  nothing (`server.go:42-56`), or what they do is the hook that is modelled.
* The wording of payloads, results and errors; what decoding meets and what an
  answer leads to is modelled.
* The token source of FCM, of a library that does its own locking.

## Plan

Done: the pipeline and its abstract specification, the HTTP front, the whole
process, the provider token, and the start, each with its proofs: every safety
invariant, action property and refinement of a passing run but `DropNeedsCrowd`.
Left:

1. `DropNeedsCrowd` as a theorem, from `CopyInv` and the number of elements of a
   full channel.
2. The readers of the statistics.
