---------------------------- MODULE StartupProps ----------------------------
(***************************************************************************)
(* What a process that has started can rely on, and why one has not.       *)
(***************************************************************************)
EXTENDS Startup

(* The type invariant of the startup. *)
StartupTypeOK ==
    /\ pc \in {"load", "environment", "size", "spawn", "listen", "mux"} \cup Ended
    /\ conf \in [provider : SectionProvider, apns : SectionApns, fcm : SectionFCM,
                 fcmv1 : SectionFCMv1]
    /\ files \in Files /\ replaced \in 0..MaxReplacements
    /\ workers \in Seq([apns : {"none", "ok"}, fcmv1 : {"none", "ok"}])
    /\ routes \subseteq {"/push/apns", "/push/fcm/v1"}

(* A process that serves is what Supervisor.tla starts from: there are as   *)
(* many workers as configured, each with a client for every endpoint of the *)
(* mux (a sender without one drops the request), and every channel has      *)
(* room, also where the size computed from max_request_size is smallest     *)
(* (supervisor.go:82-97, 158-209, 426, 447).                                *)
ServingIsEquipped ==
    pc = "serving" =>
        /\ Len(workers) = conf.provider.worker_num /\ Len(workers) >= 1
        /\ \A i \in 1..Len(workers) :
             /\ "/push/apns" \in routes => workers[i].apns = "ok"
             /\ "/push/fcm/v1" \in routes => workers[i].fcmv1 = "ok"
        /\ conf.provider.queue_size >= 1
        /\ WqSize(conf.provider.max_request_size, conf.provider.worker_num) >= 1

(* The panics of a start have one cause each: a max_request_size that is    *)
(* valid and below 134, the key of a provider token that is no EC key, a    *)
(* Server::Starter without listeners, a negative max_connections.  The one  *)
(* for the legacy FCM is never reached (server.go:147).                     *)
PanicsExplained ==
    /\ pc = "panic-size" => conf.provider.max_request_size \in 1..133
    /\ pc \in {"spawn", "listen", "serving"} => conf.provider.max_request_size >= 134
    /\ pc = "panic-key" => conf.apns.token /\ files.key \in {"raw", "rsa"}
    /\ pc = "panic-limit" => conf.provider.max_connections < 0
    /\ pc # "panic-fcm"

(* What LoadConfig has checked is checked for good, if the files stay: when *)
(* StartSupervisor fails all the same, it is for what LoadConfig does not   *)
(* look at (config.go:118-138, 183-206): the key of a provider token,       *)
(* "enabled" set in a section without its keys, or a bad FCM endpoint.      *)
ValidatedStarts ==
    pc = "fatal" /\ replaced = 0 =>
        \/ conf.apns.token
        \/ conf.apns.enabled /\ ~ApnsEnabled(conf.apns)
        \/ conf.fcm.enabled
        \/ conf.fcmv1.enabled /\ conf.fcmv1.endpoint = "bad"
=============================================================================
