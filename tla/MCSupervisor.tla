---------------------------- MODULE MCSupervisor ----------------------------
(* Small instances of the delivery pipeline for TLC. *)
EXTENDS SupervisorProps, Responses, TLC

CONSTANTS a1, a2, f1, p1, p2, w1, w2, s1, s2

MixedProvider == (a1 :> "apns") @@ (f1 :> "fcmv1")
MixedBatch == (p1 :> <<a1>>) @@ (p2 :> <<f1>>)
MixedReplies ==
    (a1 :> {"ok", "noanswer", "expired", "refused"})
    @@ (f1 :> {"ok", "transient", "quota", "unknown"})

(* a1 may get everything APNs can answer; f1 what FCM can answer, but for   *)
(* what a1 shows as well *)
ASSUME RepliesOfTheClients ==
    /\ AnswersOf("apns") = MixedReplies[a1]
    /\ AnswersOf("fcmv1") \ {"noanswer", "refused"} = MixedReplies[f1]

PairProvider == (a1 :> "apns") @@ (a2 :> "apns")
PairBatch == (p1 :> <<a1, a2>>)
PairReplies == (a1 :> {"ok", "noanswer"}) @@ (a2 :> {"ok", "expired"})
Symm == Permutations(Workers) \cup Permutations(Senders)
=============================================================================
