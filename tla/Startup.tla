------------------------------ MODULE Startup -------------------------------
(***************************************************************************)
(* How a Gunfish process starts: main (cmd/gunfish/gunfish.go) loads the   *)
(* configuration (config/config.go), StartServer (server.go) starts the    *)
(* supervisor (supervisor.go), which makes the clients of each worker      *)
(* (apns/client.go, fcmv1/client.go), and then takes its listener.         *)
(*                                                                         *)
(* LoadConfig reads the certificate and key once, to check them; each      *)
(* worker's client reads them again.  Somebody may replace them meanwhile. *)
(*                                                                         *)
(* pc is the step the process is at, or how it ended: it serves, it left   *)
(* with an error ("refused", "usage", "fatal") or, when its port is taken, *)
(* without one ("bound"), or it panicked.                                  *)
(***************************************************************************)
EXTENDS Integers, Sequences

CONSTANTS
    Settings,          \* the [provider] sections of the instance
    MaxReplacements    \* bound: how often the files change

(* const.go and config.go, with durations in ms and in s *)
RequestPerSec == 2000
AverageResponseTime == 150
SenderNum == 20
FlowRateInterval == 10
DefaultRequestQueueSize == 2000
DefaultQueueSize == 1000
RequestSizes == 1..5000
QueueSizes == 128..40960
WorkerNums == 1..119

SectionProvider == [worker_num : Int, queue_size : Int, max_request_size : Int,
                    max_connections : Int]

ASSUME SettingsAssumption ==
    Settings \subseteq SectionProvider /\ MaxReplacements \in Nat

(* Which keys a section has.  enabled can be set in the file, too, and a    *)
(* FCM v1 section without credentials has no token source.                  *)
SectionApns == [cert : BOOLEAN, key : BOOLEAN, token : BOOLEAN, enabled : BOOLEAN]
SectionFCM == [api_key : BOOLEAN, enabled : BOOLEAN]
SectionFCMv1 == [credentials : BOOLEAN, endpoint : {"good", "bad"}, enabled : BOOLEAN]

(* What the key file holds: no file, no PEM block, a block that is not      *)
(* PKCS8, or a PKCS8 key; and whether the certificates are of that key, and *)
(* none of them has expired.                                                *)
Files == {f \in [key : {"missing", "raw", "pkcs1", "rsa", "ec"},
                 pair : {"bad", "expired", "valid"}] :
              f.key \in {"missing", "raw"} => f.pair = "bad"}

VARIABLES
    pc,
    conf,       \* the configuration, from the file and on
    files,      \* the certificate and key files as they are now
    replaced,   \* how often they have changed
    workers,    \* s.workers: the clients each was made with
    routes      \* the endpoints of the mux

vars == <<pc, conf, files, replaced, workers, routes>>

Panics == {"panic-size", "panic-key", "panic-fcm", "panic-listen", "panic-limit"}
Ended == {"serving", "refused", "usage", "fatal", "bound"} \cup Panics

Init ==
    /\ pc = "load"
    /\ conf \in [provider : Settings, apns : SectionApns, fcm : SectionFCM,
                 fcmv1 : SectionFCMv1]
    /\ files \in Files
    /\ replaced = 0
    /\ workers = << >> /\ routes = {}

Goto(next) == pc' = next /\ UNCHANGED <<conf, files, replaced, workers, routes>>

-----------------------------------------------------------------------------
(* LoadConfig *)

Default(value, default) == IF value = 0 THEN default ELSE value
WithDefaults(p) ==
    [p EXCEPT !.max_request_size = Default(@, DefaultRequestQueueSize),
              !.queue_size = Default(@, DefaultQueueSize)]

ProviderInvalid(p) ==
    \/ p.max_request_size \notin RequestSizes
    \/ p.queue_size \notin QueueSizes
    \/ p.worker_num \notin WorkerNums

HasPair(apns) == apns.cert /\ apns.key
UseAuthToken(apns) == apns.token
ApnsEnabled(apns) == HasPair(apns) \/ UseAuthToken(apns)

(* validateConfigAPNs checks a pair if there is one, and nothing of the key *)
(* of a provider token.                                                     *)
ApnsInvalidUnchecked(apns) == FALSE   \* mutant: the pair is not loaded
ApnsInvalid(apns) == HasPair(apns) /\ files.pair # "valid"

(* The credentials are read here only: the file, its JSON, project_id.      *)
FCMv1Invalid(fcmv1, credentialsOk) == fcmv1.credentials /\ ~credentialsOk

LoadConfig(credentialsOk) ==
    /\ pc = "load"
    /\ LET provider == WithDefaults(conf.provider)
           invalid == \/ ProviderInvalid(provider) \/ ApnsInvalid(conf.apns)
                      \/ conf.fcm.api_key
                      \/ FCMv1Invalid(conf.fcmv1, credentialsOk)
       IN /\ pc' = IF invalid THEN "refused" ELSE "environment"
          /\ conf' = [conf EXCEPT
                        !.provider = provider,
                        !.apns.enabled = @ \/ ApnsEnabled(conf.apns),
                        !.fcmv1.enabled = @ \/ conf.fcmv1.credentials]
    /\ UNCHANGED <<files, replaced, workers, routes>>

(* main: an unknown -environment, or no port for -enable-pprof *)
Environment == pc = "environment" /\ (Goto("size") \/ Goto("usage"))

-----------------------------------------------------------------------------
(* StartSupervisor *)

Throughput(requestSize) == ((requestSize * AverageResponseTime) \div 1000) \div SenderNum
Surplus(requestSize) == RequestPerSec - requestSize \div Throughput(requestSize)
Abs(n) == IF n > 0 THEN n ELSE -1 * n
WqSize(requestSize, workerNum) ==
    (Abs(Surplus(requestSize)) * FlowRateInterval) \div workerNum

(* The channels are made and the ticker and hook goroutines started, unless *)
(* the throughput is 0, by which the next line divides.                     *)
SizesBad(p) == Throughput(p.max_request_size) = 0
Size ==
    /\ pc = "size"
    /\ Goto(IF SizesBad(conf.provider) THEN "panic-size" ELSE "spawn")

(* apns.NewClient.  With a provider token it does not look at the           *)
(* certificate, but signs with the key: createSignature uses the PEM block  *)
(* and the EC key it expects without a check.                               *)
KeyFileOf(apns) == IF apns.key THEN files.key ELSE "missing"
NewClient(apns) ==
    IF ~UseAuthToken(apns)
    THEN IF apns.cert /\ apns.key /\ files.pair # "bad" THEN "ok" ELSE "error"
    ELSE CASE KeyFileOf(apns) \in {"missing", "pkcs1"} -> "error"
           [] KeyFileOf(apns) \in {"raw", "rsa"} -> "panic"
           [] OTHER -> "ok"

(* fcmv1.NewClient fails on an endpoint that is no URL, and only on that.   *)
NewFCMClient(fcmv1) == IF fcmv1.endpoint = "good" THEN "ok" ELSE "error"

(* One turn of the loop that spawns workers.  A client that cannot be made  *)
(* ends the loop, and StartServer, with workers and hooks running.          *)
FailedIgnored(client) == FALSE    \* mutant: logged, and the loop goes on
Failed(client) == client = "error"
OnClientErrorBreaks == "listen"   \* mutant: err is not looked at after the loop
OnClientError == "fatal"
LegacyRefusedNot(fcm) == FALSE    \* mutant: left to StartServer
LegacyRefused(fcm) == fcm.enabled

SpawnWorker ==
    /\ pc = "spawn" /\ Len(workers) < conf.provider.worker_num
    /\ LET apns == IF conf.apns.enabled THEN NewClient(conf.apns) ELSE "none"
           fcmv1 == IF conf.fcmv1.enabled THEN NewFCMClient(conf.fcmv1) ELSE "none"
       IN CASE apns = "panic" -> Goto("panic-key")
            [] Failed(apns) -> Goto(OnClientError)
            [] apns \in {"none", "ok"} /\ LegacyRefused(conf.fcm) -> Goto("fatal")
            [] apns \in {"none", "ok"} /\ ~LegacyRefused(conf.fcm) /\ Failed(fcmv1) ->
                 Goto(OnClientError)
            [] OTHER ->
                 /\ workers' = Append(workers, [apns |-> apns, fcmv1 |-> fcmv1])
                 /\ UNCHANGED <<pc, conf, files, replaced, routes>>

Spawned ==
    /\ pc = "spawn" /\ Len(workers) = conf.provider.worker_num
    /\ Goto("listen")

-----------------------------------------------------------------------------
(* StartServer, after the supervisor *)

(* Under Server::Starter the first of its listeners is taken, even if it    *)
(* gave none; else the port is, unless another process has it: then the     *)
(* supervisor is shut down and main returns.                                *)
Listen ==
    /\ pc = "listen"
    /\ \E got \in {"mux", "bound", "panic-listen"} : Goto(got)

(* netutil.LimitListener makes a channel of max_connections. *)
Mux ==
    /\ pc = "mux"
    /\ IF conf.provider.max_connections < 0 THEN Goto("panic-limit")
       ELSE IF conf.fcm.enabled THEN Goto("panic-fcm")
       ELSE /\ pc' = "serving"
            /\ routes' = (IF conf.apns.enabled THEN {"/push/apns"} ELSE {})
                           \cup (IF conf.fcmv1.enabled THEN {"/push/fcm/v1"} ELSE {})
            /\ UNCHANGED <<conf, files, replaced, workers>>

-----------------------------------------------------------------------------
(* Somebody renews, breaks or removes the files. *)
Replace ==
    /\ pc \notin Ended /\ replaced < MaxReplacements
    /\ files' \in Files \ {files}
    /\ replaced' = replaced + 1
    /\ UNCHANGED <<pc, conf, workers, routes>>

Terminated == pc \in Ended /\ UNCHANGED vars

Next ==
    \/ \E credentialsOk \in BOOLEAN : LoadConfig(credentialsOk)
    \/ Environment \/ Size \/ SpawnWorker \/ Spawned \/ Listen \/ Mux
    \/ Replace
    \/ Terminated

Spec == Init /\ [][Next]_vars
=============================================================================
