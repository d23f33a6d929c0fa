--------------------------- MODULE ResponsesProofs ---------------------------
(***************************************************************************)
(* Supervisor.tla lets a provider give one of seven answers and says in    *)
(* four small tables what follows from each.  Here it is proved that the   *)
(* answers are those of the clients, and the tables those of the handlers. *)
(***************************************************************************)
EXTENDS Responses, TLAPS

(* What a sender may find (SenderAnswer of Supervisor.tla) is what Send can *)
(* return: an answer of the seven; "ok" only for a notification that was    *)
(* taken, and no other answer for one than "ok" and "noanswer"              *)
(* (apns/client.go:46-78, fcmv1/client.go:28-65).                           *)
THEOREM AnswersMatchExchanges ==
  ASSUME NEW provider \in Providers, NEW x \in Exchanges(provider)
  PROVE  /\ AnswerOf(provider, x) \in Answers
         /\ AnswerOf(provider, x) = "ok" => x.taken
         /\ x.taken => AnswerOf(provider, x) \in {"ok", "noanswer"}
<1>0. x \in Exchange
  BY DEF Exchanges
<1>1. CASE ~x.built \/ ~x.heard
  <2>1. ApnsSend(x) = NoResult /\ FcmSend(x) = NoResult
    BY <1>1 DEF ApnsSend, FcmSend
  <2> QED BY <2>1 DEF AnswerOf, ApnsAnswer, FcmAnswer, NoResult, Answers
<1>2. CASE x.built /\ x.heard /\ provider = "apns"
  <2>1. x.taken <=> x.status = "200"
    BY <1>2 DEF Exchanges
  <2>2. CASE x.status = "200"
    <3>1. ApnsSend(x) = Result("nil")
      BY <1>2, <2>2 DEF ApnsSend
    <3>2. AnswerOf(provider, x) = "ok"
      BY <1>2, <3>1 DEF AnswerOf, ApnsAnswer, Result
    <3> QED BY <2>1, <2>2, <3>2 DEF Answers
  <2>3. CASE x.status # "200"
    <3>1. PICK e \in Reasons : ApnsSend(x) = Result(e)
      BY <1>0, <1>2, <2>3 DEF ApnsSend, Exchange, Reasons
    <3>2. AnswerOf(provider, x) \in {"expired", "refused"}
      BY <1>2, <3>1 DEF AnswerOf, ApnsAnswer, Result, Reasons
    <3> QED BY <2>1, <2>3, <3>2 DEF Answers
  <2> QED BY <2>2, <2>3
<1>3. CASE x.built /\ x.heard /\ provider = "fcmv1"
  <2>1. (x.body = "name" => x.taken) /\ (x.body = "error" => ~x.taken)
    BY <1>3 DEF Exchanges
  <2>2. CASE x.body = "name"
    <3>1. FcmSend(x) = Result("nil")
      BY <1>3, <2>2 DEF FcmSend
    <3>2. AnswerOf(provider, x) = "ok"
      BY <1>3, <3>1 DEF AnswerOf, FcmAnswer, Result
    <3> QED BY <2>1, <2>2, <3>2 DEF Answers
  <2>3. CASE x.body = "error"
    <3>1. x.reason \in Reasons /\ FcmSend(x) = Result(x.reason)
      BY <1>0, <1>3, <2>3 DEF FcmSend, Exchange
    <3>2. AnswerOf(provider, x) \in Answers \ {"ok"}
      BY <1>3, <3>1 DEF AnswerOf, FcmAnswer, Result, Reasons, Answers
    <3> QED BY <2>1, <2>3, <3>2
  <2>4. CASE x.body \in {"garbage", "neither"}
    <3>1. FcmSend(x) = NoResult
      BY <2>4 DEF FcmSend
    <3> QED BY <1>3, <3>1 DEF AnswerOf, FcmAnswer, NoResult, Answers
  <2> QED BY <1>0, <2>2, <2>3, <2>4 DEF Exchange
<1> QED BY <1>1, <1>2, <1>3 DEF Providers

(* What the handlers do about a result (supervisor.go:325-401) is what the  *)
(* tables of Supervisor.tla say of its answer: whether it is resent, now or *)
(* in a minute, whether the hook gets it, and how it is counted.            *)
THEOREM HandlersFollowTables ==
  ASSUME NEW provider \in Providers, NEW x \in Exchanges(provider)
  PROVE  LET a == AnswerOf(provider, x)
             effect == Handle(provider, Send(provider, x))
         IN /\ effect.retry = "now" <=> RetriedNow(a)
            /\ effect.retry = "later" <=> RetriedLater(a)
            /\ HookCmd /\ effect.hook <=> Hooked(a)
            /\ effect.sent = SentCounted(provider, a)
            /\ effect.err = ErrCounted(provider, a)
<1>1. CASE provider = "apns"
  BY <1>1 DEF Exchanges, Exchange, AnswerOf, ApnsAnswer, ApnsSend, NoResult, Result, Send,
     Handle, handleAPNsResponse, Effect, RetriedNow, RetriedLater, Hooked, SentCounted,
     ErrCounted
<1>2. CASE provider = "fcmv1"
  BY <1>2 DEF Exchanges, Exchange, AnswerOf, FcmAnswer, FcmSend, NoResult, Result, Send,
     Handle, handleFCMResponse, Effect, RetriedNow, RetriedLater, Hooked, SentCounted,
     ErrCounted
<1> QED BY <1>1, <1>2 DEF Providers
=============================================================================
