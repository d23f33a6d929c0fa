----------------------------- MODULE Responses ------------------------------
(***************************************************************************)
(* From what a provider sends back to what is done about it: Send of the   *)
(* two clients makes a result or an error of an exchange (apns/client.go,  *)
(* fcmv1/client.go), and the handlers of supervisor.go decide on it.       *)
(* AnswerOf sorts the exchanges into the answers of Supervisor.tla.        *)
(***************************************************************************)
EXTENDS Supervisor

Providers == {"apns", "fcmv1"}

(* The reason of an APNs error, or the status of a FCM error               *)
Reasons == {"none", "ExpiredProviderToken", "INTERNAL", "UNAVAILABLE", "QUOTA_EXCEEDED",
            "UNREGISTERED", "INVALID_ARGUMENT", "NOT_FOUND", "other"}

(* One call of Send: did NewRequest succeed and client.Do return a response,*)
(* with which status and which JSON body; and was the notification taken?   *)
(* "name" is the body of a FCM success, "neither" an object without a name  *)
(* or an error, "garbage" what does not decode.                             *)
Exchange == [built : BOOLEAN, heard : BOOLEAN, status : {"200", "other"},
             body : {"name", "error", "neither", "garbage"}, reason : Reasons,
             taken : BOOLEAN]

(* What the providers do: APNs takes a notification if and only if it       *)
(* answers 200, FCM if it names the message and not if it gives an error.   *)
Exchanges(provider) ==
    {x \in Exchange :
        /\ x.heard \/ x.taken => x.built
        /\ x.heard => IF provider = "apns" THEN x.taken <=> x.status = "200"
                      ELSE /\ x.body = "name" => x.taken
                           /\ x.body = "error" => ~x.taken}

-----------------------------------------------------------------------------
(* Send: an error and no result, or one result *)

NoResult == [sent |-> FALSE, err |-> "none"]
Result(err) == [sent |-> TRUE, err |-> err]

(* The reason is read from the body of a response that is not 200; a body   *)
(* that does not decode becomes the reason.  Err() is nil only for a 200    *)
(* without a reason, so that an empty reason is an error as well.           *)
ApnsSend(x) ==
    IF ~x.built \/ ~x.heard THEN NoResult
    ELSE IF x.status = "200" THEN Result("nil")
    ELSE Result(IF x.body = "error" THEN x.reason ELSE "other")

(* The status code is not looked at: the body decides.                      *)
FcmSend(x) ==
    IF ~x.built \/ ~x.heard \/ x.body \in {"garbage", "neither"} THEN NoResult
    ELSE Result(IF x.body = "error" THEN x.reason ELSE "nil")

Send(provider, x) == IF provider = "apns" THEN ApnsSend(x) ELSE FcmSend(x)

-----------------------------------------------------------------------------
(* The handlers: what they count, whether they retry, whether they give the *)
(* error hook the result *)

Effect(sentCount, errCount, resend, hooked) ==
    [sent |-> sentCount, err |-> errCount, retry |-> resend, hook |-> hooked]

handleAPNsResponse(r) ==
    IF ~r.sent THEN Effect(0, 1, "now", FALSE)
    ELSE IF r.err = "nil" THEN Effect(1, 0, "never", FALSE)
    ELSE Effect(1, 1, IF r.err = "ExpiredProviderToken" THEN "now" ELSE "never", TRUE)

handleFCMResponse(r) ==
    IF ~r.sent THEN Effect(0, 0, "now", FALSE)
    ELSE CASE r.err = "nil" -> Effect(1, 0, "never", FALSE)
           [] r.err \in {"INTERNAL", "UNAVAILABLE"} -> Effect(0, 0, "now", FALSE)
           [] r.err = "QUOTA_EXCEEDED" -> Effect(0, 0, "later", FALSE)
           [] r.err \in {"UNREGISTERED", "INVALID_ARGUMENT", "NOT_FOUND"} ->
                Effect(0, 1, "never", TRUE)
           [] OTHER -> Effect(0, 1, "never", FALSE)

Handle(provider, r) ==
    IF provider = "apns" THEN handleAPNsResponse(r) ELSE handleFCMResponse(r)

-----------------------------------------------------------------------------
(* The answer of Supervisor.tla that stands for a result *)

ApnsAnswer(r) ==
    CASE ~r.sent -> "noanswer"
      [] r.sent /\ r.err = "nil" -> "ok"
      [] r.sent /\ r.err = "ExpiredProviderToken" -> "expired"
      [] OTHER -> "refused"
FcmAnswer(r) ==
    CASE ~r.sent -> "noanswer"
      [] r.sent /\ r.err = "nil" -> "ok"
      [] r.sent /\ r.err \in {"INTERNAL", "UNAVAILABLE"} -> "transient"
      [] r.sent /\ r.err = "QUOTA_EXCEEDED" -> "quota"
      [] r.sent /\ r.err \in {"UNREGISTERED", "INVALID_ARGUMENT", "NOT_FOUND"} -> "refused"
      [] OTHER -> "unknown"
AnswerOf(provider, x) ==
    IF provider = "apns" THEN ApnsAnswer(ApnsSend(x)) ELSE FcmAnswer(FcmSend(x))
AnswersOf(provider) == {AnswerOf(provider, x) : x \in Exchanges(provider)}
=============================================================================
