---------------------------- MODULE StartupProofs ----------------------------
(***************************************************************************)
(* Proofs about the startup, for every [provider] section: the sizes the   *)
(* supervisor computes, and that a process that serves is equipped.        *)
(***************************************************************************)
EXTENDS StartupProps, TLAPS

(* The ranges of LoadConfig hold positive numbers.                          *)
LEMMA Positive ==
  /\ \A q \in QueueSizes : q >= 1
  /\ \A w \in WorkerNums : w >= 1 /\ w > 0
BY DEF QueueSizes, WorkerNums

(* Where the throughput is 0, and where it is not.                          *)
LEMMA SizesBadBelow134 ==
  \A r \in RequestSizes : IF Throughput(r) = 0 THEN r \in 1..133 ELSE r >= 134
<1> SUFFICES ASSUME NEW r \in RequestSizes
             PROVE  IF Throughput(r) = 0 THEN r \in 1..133 ELSE r >= 134
  OBVIOUS
<1> QED BY DEF Throughput, RequestSizes, AverageResponseTime, SenderNum

(* The division of StartSupervisor by the throughput is safe from 134 on.   *)
LEMMA ThroughputZero ==
  ASSUME NEW r \in RequestSizes
  PROVE  /\ Throughput(r) \in Nat
         /\ Throughput(r) = 0 <=> r <= 133
BY DEF Throughput, RequestSizes, AverageResponseTime, SenderNum

(* Two facts of products, for the quotient.                                 *)
LEMMA ProductNat ==
  ASSUME NEW q \in Nat, NEW t \in Nat
  PROVE  q * t \in Nat
OBVIOUS

LEMMA ProductMonotone ==
  ASSUME NEW q \in Nat, NEW t \in Nat, t >= 3
  PROVE  q * 3 <= q * t
<1>1. PICK d \in Nat : t = 3 + d
  OBVIOUS
<1>2. q * t = q * 3 + q * d
  BY <1>1
<1>3. PICK e \in Nat : e = q * d
  BY ProductNat
<1> QED BY <1>2, <1>3

(* The quotient by the throughput is far from RequestPerSec.                *)
LEMMA QuotientSmall ==
  ASSUME NEW r \in RequestSizes, r >= 134
  PROVE  r \div Throughput(r) \in 0..1900
<1>1. r \in Nat /\ r <= 5000 /\ r >= 134
  BY DEF RequestSizes
<1>2. Throughput(r) \in Nat /\ Throughput(r) # 0
  BY <1>1, ThroughputZero
<1>3. CASE Throughput(r) = 1
  <2>1. r <= 266
    BY <1>1, <1>3 DEF Throughput, AverageResponseTime, SenderNum
  <2> QED BY <1>1, <1>3, <2>1
<1>4. CASE Throughput(r) = 2
  <2>1. r <= 399
    BY <1>1, <1>4 DEF Throughput, AverageResponseTime, SenderNum
  <2> QED BY <1>1, <1>4, <2>1
<1>5. CASE Throughput(r) >= 3
  <2>1. PICK t \in Nat : t = Throughput(r)
    BY <1>2
  <2>2. t >= 3
    BY <1>5, <2>1
  <2>3. PICK q \in Nat : q = r \div t
    BY <1>1, <2>1, <2>2
  <2>4. q * t <= r
    BY <1>1, <2>2, <2>3
  <2>5. q * 3 <= q * t
    BY <2>2, ProductMonotone
  <2>6. q * 3 <= r
    <3>1. PICK p \in Nat : p = q * t
      BY ProductNat
    <3> QED BY <1>1, <2>4, <2>5, <3>1
  <2>7. q \in 0..1900
    <3>1. q * 3 <= 5000
      BY <1>1, <2>6
    <3> QED BY <3>1
  <2> QED BY <2>1, <2>3, <2>7
<1>6. Throughput(r) = 1 \/ Throughput(r) = 2 \/ Throughput(r) >= 3
  BY <1>2
<1> QED BY <1>3, <1>4, <1>5, <1>6

(* Every worker gets a share of at least one.                               *)
LEMMA TenfoldLarge ==
  ASSUME NEW x \in 100..2000
  PROVE  x * 10 \in Nat /\ x * 10 >= 119
OBVIOUS

LEMMA ShareOfWorker ==
  ASSUME NEW n \in Nat, n >= 119, NEW w \in 1..119
  PROVE  n \div w \in Nat /\ n \div w >= 1
OBVIOUS

(* So the queue of a worker holds at least one request, for every valid     *)
(* max_request_size the division survives and every valid worker_num.       *)
THEOREM WorkerQueueHasRoom ==
  ASSUME NEW r \in RequestSizes, r >= 134, NEW w \in WorkerNums
  PROVE  WqSize(r, w) \in Nat /\ WqSize(r, w) >= 1
<1>1. r \div Throughput(r) \in 0..1900
  BY QuotientSmall
<1>2. Surplus(r) \in 100..2000
  BY <1>1 DEF Surplus, RequestPerSec
<1>3. Abs(Surplus(r)) \in 100..2000
  BY <1>2 DEF Abs
<1>4. PICK x \in 100..2000 : x = Abs(Surplus(r))
  BY <1>3
<1>5. w \in 1..119
  BY DEF WorkerNums
<1>6. x * 10 \in Nat /\ x * 10 >= 119
  BY TenfoldLarge
<1>7. (x * 10) \div w \in Nat /\ (x * 10) \div w >= 1
  BY <1>5, <1>6, ShareOfWorker
<1> QED BY <1>4, <1>7 DEF WqSize, FlowRateInterval

-----------------------------------------------------------------------------
(* What a process has checked by the time it is at pc, and what its workers *)
(* have: the configuration does not change after LoadConfig, and only a     *)
(* turn of the loop that made every client appends a worker.                *)

Loaded == pc \notin {"load", "refused"}
Sized == pc \in {"spawn", "listen", "mux", "serving"}
Complete == pc \in {"listen", "mux", "serving", "panic-fcm"}

Checked ==
    /\ Loaded => /\ conf.provider.max_request_size \in RequestSizes
                 /\ conf.provider.queue_size \in QueueSizes
                 /\ conf.provider.worker_num \in WorkerNums
    /\ Sized => conf.provider.max_request_size >= 134
Equipped ==
    /\ \A i \in 1..Len(workers) :
         /\ conf.apns.enabled => workers[i].apns = "ok"
         /\ conf.fcmv1.enabled => workers[i].fcmv1 = "ok"
    /\ Len(workers) > 0 => ~conf.fcm.enabled
    /\ pc \in {"load", "environment", "size"} => workers = << >>
    /\ Complete => Len(workers) = conf.provider.worker_num /\ ~conf.fcm.enabled
    /\ pc # "serving" => routes = {}
    /\ "/push/apns" \in routes => conf.apns.enabled
    /\ "/push/fcm/v1" \in routes => conf.fcmv1.enabled

PairStays ==
    Loaded /\ replaced = 0 /\ conf.apns.cert /\ conf.apns.key => files.pair = "valid"

StartupInv ==
    StartupTypeOK /\ Checked /\ Equipped /\ PairStays /\ PanicsExplained /\ ValidatedStarts

(* The file has been read, and nothing else has been done.                  *)
LEMMA StartupInitInv == Init => StartupInv
<1> SUFFICES ASSUME Init PROVE StartupInv OBVIOUS
<1>1. conf \in [provider : SectionProvider, apns : SectionApns, fcm : SectionFCM,
                fcmv1 : SectionFCMv1]
  BY SettingsAssumption DEF Init
<1>2. StartupTypeOK
  BY <1>1, SettingsAssumption DEF Init, StartupTypeOK
<1>3. Checked /\ Equipped /\ PairStays /\ PanicsExplained /\ ValidatedStarts
  BY DEF Init, PairStays, ValidatedStarts, Checked, Equipped, Loaded, Sized, Complete, PanicsExplained
<1> QED BY <1>2, <1>3 DEF StartupInv

(* A section with its defaults is a section.                                *)
LEMMA DefaultsType ==
  ASSUME NEW p \in SectionProvider
  PROVE  WithDefaults(p) \in SectionProvider
<1>1. /\ p.worker_num \in Int /\ p.queue_size \in Int
      /\ p.max_request_size \in Int /\ p.max_connections \in Int
  BY DEF SectionProvider
<1>2. /\ Default(p.max_request_size, DefaultRequestQueueSize) \in Int
      /\ Default(p.queue_size, DefaultQueueSize) \in Int
  BY <1>1 DEF Default, DefaultRequestQueueSize, DefaultQueueSize
<1> QED BY <1>1, <1>2 DEF WithDefaults, SectionProvider

(* LoadConfig completes the configuration and checks what it says.          *)
LEMMA LoadConfigInv ==
  ASSUME StartupInv, NEW credentialsOk \in BOOLEAN, LoadConfig(credentialsOk)
  PROVE  StartupInv'
<1>1. PICK provider : provider = WithDefaults(conf.provider)
  OBVIOUS
<1>2. provider \in SectionProvider
  BY <1>1, DefaultsType DEF StartupInv, StartupTypeOK
<1>3. /\ conf'.provider = provider /\ conf'.fcm = conf.fcm
      /\ conf' \in [provider : SectionProvider, apns : SectionApns, fcm : SectionFCM,
                    fcmv1 : SectionFCMv1]
  BY <1>1, <1>2 DEF LoadConfig, StartupInv, StartupTypeOK, SectionApns, SectionFCM,
     SectionFCMv1, ApnsEnabled, HasPair, UseAuthToken
<1>4. pc' \in {"refused", "environment"}
  BY DEF LoadConfig
<1>5. pc' = "environment" => ~ProviderInvalid(provider)
  BY <1>1 DEF LoadConfig
<1>6. /\ conf'.apns.cert = conf.apns.cert /\ conf'.apns.key = conf.apns.key
      /\ pc' = "environment" => ~ApnsInvalid(conf.apns)
  BY DEF LoadConfig, StartupInv, StartupTypeOK, SectionApns
<1>7. /\ workers = << >> /\ UNCHANGED <<files, replaced, workers, routes>>
      /\ routes = {}
  BY DEF LoadConfig, StartupInv, Equipped
<1> HIDE DEF LoadConfig
<1> QED
  BY <1>2, <1>3, <1>4, <1>5, <1>6, <1>7
  DEF StartupInv, StartupTypeOK, Checked, Equipped, Loaded, Sized, Complete, Ended,
      PairStays, PanicsExplained, ValidatedStarts, ProviderInvalid, ApnsInvalid, HasPair

(* A worker is appended with the clients it needs, or none at all.          *)
LEMMA SpawnWorkerInv ==
  ASSUME StartupInv, SpawnWorker
  PROVE  StartupInv'
<1>1. CASE workers' = workers
  <2>1. /\ pc' \in {"spawn", "panic-key", "fatal"}
        /\ UNCHANGED <<conf, files, replaced, routes>>
    BY <1>1 DEF SpawnWorker, NewFCMClient, Goto, OnClientError
  <2>2. pc = "spawn"
    BY DEF SpawnWorker
  <2>3. pc' = "panic-key" => conf.apns.token /\ files.key \in {"raw", "rsa"}
    BY <2>2 DEF SpawnWorker, NewFCMClient, Goto, OnClientError, NewClient, UseAuthToken, KeyFileOf
  <2>4. ASSUME pc' = "fatal", replaced = 0 PROVE ValidatedStarts'
    <3>1. CASE conf.fcm.enabled
      BY <2>1, <3>1 DEF ValidatedStarts
    <3>2. CASE conf.fcmv1.enabled /\ conf.fcmv1.endpoint = "bad"
      BY <2>1, <3>2 DEF ValidatedStarts
    <3>3. CASE conf.apns.enabled /\ NewClient(conf.apns) = "error"
      <4>1. CASE conf.apns.token
        BY <2>1, <4>1 DEF ValidatedStarts
      <4>2. CASE ~conf.apns.token
        <5>1. ~(conf.apns.cert /\ conf.apns.key /\ files.pair # "bad")
          BY <3>3, <4>2 DEF NewClient, UseAuthToken
        <5>2. ~(conf.apns.cert /\ conf.apns.key)
          BY <2>2, <2>4, <5>1 DEF StartupInv, PairStays, Loaded
        <5>3. ~ApnsEnabled(conf.apns)
          BY <4>2, <5>2 DEF ApnsEnabled, HasPair, UseAuthToken
        <5> QED BY <2>1, <3>3, <5>3 DEF ValidatedStarts, ApnsEnabled, HasPair, UseAuthToken
      <4> QED BY <4>1, <4>2
    <3>4. \/ conf.fcm.enabled
          \/ conf.fcmv1.enabled /\ conf.fcmv1.endpoint = "bad"
          \/ conf.apns.enabled /\ NewClient(conf.apns) = "error"
      <4>1. conf.fcmv1.endpoint \in {"good", "bad"}
        BY DEF StartupInv, StartupTypeOK, SectionFCMv1
      <4> QED
        BY <2>2, <2>4, <4>1
        DEF SpawnWorker, NewFCMClient, Goto, OnClientError, Failed, LegacyRefused, NewClient
    <3> QED BY <3>1, <3>2, <3>3, <3>4
  <2>5. ValidatedStarts'
    BY <2>1, <2>4 DEF ValidatedStarts
  <2> QED
    BY <1>1, <2>1, <2>2, <2>3, <2>5
    DEF StartupInv, StartupTypeOK, Checked, Equipped, Loaded, Sized, Complete, Ended,
        Panics, PairStays, PanicsExplained
<1>2. CASE workers' # workers
  <2>1. PICK a \in {"none", "ok"}, f \in {"none", "ok"} :
          /\ workers' = Append(workers, [apns |-> a, fcmv1 |-> f])
          /\ conf.apns.enabled => a = "ok"
          /\ conf.fcmv1.enabled => f = "ok"
          /\ ~conf.fcm.enabled
          /\ UNCHANGED <<pc, conf, files, replaced, routes>>
          /\ pc = "spawn"
    BY <1>2 DEF SpawnWorker, NewFCMClient, Goto, OnClientError, NewClient, Failed, LegacyRefused
  <2>2. [apns |-> a, fcmv1 |-> f] \in [apns : {"none", "ok"}, fcmv1 : {"none", "ok"}]
    OBVIOUS
  <2>3. workers \in Seq([apns : {"none", "ok"}, fcmv1 : {"none", "ok"}])
    BY DEF StartupInv, StartupTypeOK
  <2>4. /\ workers' \in Seq([apns : {"none", "ok"}, fcmv1 : {"none", "ok"}])
        /\ Len(workers') = Len(workers) + 1
        /\ \A i \in 1..Len(workers) : workers'[i] = workers[i]
        /\ workers'[Len(workers')] = [apns |-> a, fcmv1 |-> f]
    BY <2>1, <2>2, <2>3
  <2>5. \A i \in 1..Len(workers') : /\ conf.apns.enabled => workers'[i].apns = "ok"
                                    /\ conf.fcmv1.enabled => workers'[i].fcmv1 = "ok"
    BY <2>1, <2>3, <2>4 DEF StartupInv, Equipped
  <2> QED
    BY <2>1, <2>4, <2>5
    DEF StartupInv, StartupTypeOK, Checked, Equipped, Loaded, Sized, Complete,
        PairStays, PanicsExplained, ValidatedStarts
<1> QED BY <1>1, <1>2

(* The other steps of the process, and those of whoever changes its files.  *)
LEMMA OtherStepInv ==
  ASSUME StartupInv, Environment \/ Size \/ Spawned \/ Listen \/ Mux \/ Replace
  PROVE  StartupInv'
<1> USE DEF StartupInv, StartupTypeOK, Checked, Equipped, Loaded, Sized, Complete, Ended,
        Panics, Goto, PairStays, PanicsExplained, ValidatedStarts
<1>1. CASE Environment
  BY <1>1 DEF Environment
<1>2. CASE Size
  <2>1. conf.provider.max_request_size \in RequestSizes
    BY <1>2 DEF Size
  <2>2. IF SizesBad(conf.provider) THEN conf.provider.max_request_size \in 1..133
                                 ELSE conf.provider.max_request_size >= 134
    BY <2>1, SizesBadBelow134 DEF SizesBad
  <2> QED BY <1>2, <2>2 DEF Size
<1>3. CASE Spawned
  <2>1. Len(workers) \in WorkerNums
    BY <1>3 DEF Spawned
  <2>2. Len(workers) > 0
    BY <2>1, Positive
  <2> QED BY <1>3, <2>2 DEF Spawned
<1>4. CASE Listen
  BY <1>4 DEF Listen
<1>5. CASE Mux
  <2>1. CASE pc' = "serving"
    BY <1>5, <2>1 DEF Mux
  <2>2. CASE pc' # "serving"
    BY <1>5, <2>2 DEF Mux
  <2> QED BY <2>1, <2>2
<1>6. CASE Replace
  <2>1. replaced' \in 0..MaxReplacements
    BY <1>6, SettingsAssumption DEF Replace
  <2> QED BY <1>6, <2>1 DEF Replace
<1> QED BY <1>1, <1>2, <1>3, <1>4, <1>5, <1>6

(* The parts of the invariant hold together in every reachable state.       *)
THEOREM StartupInvariant == Spec => []StartupInv
<1>1. StartupInv /\ [Next]_vars => StartupInv'
  <2> SUFFICES ASSUME StartupInv, [Next]_vars PROVE StartupInv'
    OBVIOUS
  <2>1. CASE UNCHANGED vars
    BY <2>1 DEF vars, StartupInv, StartupTypeOK, Checked, Equipped, Loaded, Sized,
       Complete, PairStays, PanicsExplained, ValidatedStarts
  <2> QED BY <2>1, LoadConfigInv, SpawnWorkerInv, OtherStepInv DEF Next, Terminated
<1> QED BY <1>1, StartupInitInv, PTL DEF Spec

(* In particular the sections keep their types, whatever is filled in.      *)
THEOREM StartupTypes == Spec => []StartupTypeOK
<1>1. StartupInv => StartupTypeOK
  BY DEF StartupInv
<1> QED BY <1>1, StartupInvariant, PTL

(* A process that serves has all its workers, each with its clients, and    *)
(* channels with room, whatever the sections of the file say.               *)
THEOREM ServingEquipped == Spec => []ServingIsEquipped
<1>1. StartupInv => ServingIsEquipped
  <2> SUFFICES ASSUME StartupInv, pc = "serving"
               PROVE  ServingIsEquipped
    BY DEF ServingIsEquipped
  <2>1. /\ conf.provider.max_request_size \in RequestSizes
        /\ conf.provider.max_request_size >= 134
        /\ conf.provider.worker_num \in WorkerNums
        /\ conf.provider.queue_size \in QueueSizes
    BY DEF StartupInv, Checked, Loaded, Sized
  <2>2. WqSize(conf.provider.max_request_size, conf.provider.worker_num) >= 1
    BY <2>1, WorkerQueueHasRoom
  <2>3. conf.provider.queue_size >= 1 /\ conf.provider.worker_num >= 1
    BY <2>1, Positive
  <2>4. /\ Len(workers) = conf.provider.worker_num
        /\ \A i \in 1..Len(workers) :
             /\ "/push/apns" \in routes => workers[i].apns = "ok"
             /\ "/push/fcm/v1" \in routes => workers[i].fcmv1 = "ok"
    BY DEF StartupInv, Equipped, Complete
  <2> QED BY <2>2, <2>3, <2>4 DEF ServingIsEquipped
<1> QED BY <1>1, StartupInvariant, PTL

(* A start panics for no other reason than those, and never for the legacy  *)
(* FCM: StartSupervisor has refused it before the mux is made.              *)
THEOREM PanicsAreExplained == Spec => []PanicsExplained
<1>1. StartupInv => PanicsExplained
  BY DEF StartupInv
<1> QED BY <1>1, StartupInvariant, PTL

(* What LoadConfig accepted StartSupervisor accepts, but for what LoadConfig*)
(* does not look at, as long as nobody changes the files in between.        *)
THEOREM ValidatedConfigStarts == Spec => []ValidatedStarts
<1>1. StartupInv => ValidatedStarts
  BY DEF StartupInv
<1> QED BY <1>1, StartupInvariant, PTL
=============================================================================
