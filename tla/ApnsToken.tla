------------------------------ MODULE ApnsToken ------------------------------
(***************************************************************************)
(* The provider token of an APNs client (apns/client.go).  A worker has    *)
(* one client and its senders share it: each of them checks the age of the *)
(* token before it sends, issues a new one when it is stale, and puts what *)
(* it then reads into its request.  Nothing locks the token.               *)
(*                                                                         *)
(* Every access to the shared fields is a step.  A Go string is two words, *)
(* so that the token is written and read one word at a time, in an order   *)
(* that the build chooses; of a time.Time only one word ever differs.      *)
(*                                                                         *)
(* Time is an integer; the constants give Gunfish's durations in its unit. *)
(***************************************************************************)
EXTENDS Integers, FiniteSets

CONSTANTS
    Senders,    \* the senders of the worker
    Slot,       \* 1800 s: the time in a token is a multiple of it ...
    Lag,        \* 600 s: ... that is at least this long ago
    Refresh,    \* time.Hour - time.Minute: an older token is not used
    Hour,       \* APNs refuses a token whose time is longer ago
    Sizes,      \* lengths of a signed token (the signature is DER)
    Patience,   \* bound: how long one Send takes
    MaxClock    \* bound: the end of time

ASSUME DurationsAssumption ==
    /\ {Slot, Lag, Refresh, Hour, Patience, MaxClock} \subseteq Nat \ {0}
    /\ Sizes \subseteq Nat \ {0} /\ Sizes # {}
    /\ Refresh + Patience <= Hour /\ Lag + Slot <= Refresh /\ Patience <= Slot
    /\ Lag + 2 * Slot <= MaxClock

VARIABLES
    clock,      \* time.Now()
    jwt,        \* ac.authToken.jwt: the text its pointer points at, its length
    issuedAt,   \* ac.authToken.issuedAt
    call,       \* the call of Send of each sender
    overlap     \* history: an issue has overlapped another sender's call

vars == <<clock, jwt, issuedAt, call, overlap>>

Times == 0..MaxClock
Words == {"text", "len"}
NoText == [iat |-> 0, size |-> 0]   \* what an empty string points at
Text == [iat : Times, size : Sizes] \cup {NoText}
Jwt == [text : Text, len : Sizes \cup {0}]
Whole(token) == token.len = token.text.size
Signed(text) == [text |-> text, len |-> text.size]

NoCall == [pc |-> "idle", since |-> 0, words |-> {}, token |-> Signed(NoText)]

(* tokenTime: the last half hour that is ten minutes past *)
TokenTimeAhead(now) == ((now + Lag) \div Slot) * Slot   \* mutant: the wrong sign
TokenTime(now) == ((now - Lag) \div Slot) * Slot

(* NewClient has issued the first token before any sender runs. *)
Init ==
    /\ clock \in (Lag + Slot)..(Lag + 2 * Slot)
    /\ \E size \in Sizes : jwt = Signed([iat |-> TokenTime(clock), size |-> size])
    /\ issuedAt = TokenTime(clock)
    /\ call = [s \in Senders |-> NoCall]
    /\ overlap = FALSE

At(s, pc) == call[s].pc = pc
Issuing(s) == call[s].pc \in {"issue", "store", "wipe", "stamp"}
Goto(s, pc, words) == [call EXCEPT ![s].pc = pc, ![s].words = words]

(* issuedAt.Add(time.Hour - time.Minute).Before(time.Now()) *)
StaleLate == issuedAt + Refresh + Slot < clock   \* mutant: a slot is forgotten
Stale == issuedAt + Refresh < clock

(* NewRequest checks the token. *)
CheckToken(s) ==
    /\ At(s, "idle")
    /\ call' = [call EXCEPT ![s] =
                 [NoCall EXCEPT !.pc = IF Stale THEN "issue" ELSE "read",
                                !.since = clock,
                                !.words = IF Stale THEN {} ELSE Words]]
    /\ overlap' = (overlap \/ \E t \in Senders \ {s} :
                                Issuing(t) \/ (Stale /\ ~At(t, "idle")))
    /\ UNCHANGED <<clock, jwt, issuedAt>>

(* issueToken: CreateJWT signs a text for the time of now. *)
CreateJWT(s) ==
    /\ At(s, "issue")
    /\ \E size \in Sizes :
         call' = [Goto(s, "store", Words) EXCEPT ![s].token =
                    Signed([iat |-> TokenTime(clock), size |-> size])]
    /\ UNCHANGED <<clock, jwt, issuedAt, overlap>>

(* It fails, and its empty result is assigned all the same. *)
CreateJWTFails(s) ==
    /\ At(s, "issue")
    /\ call' = Goto(s, "wipe", Words)
    /\ UNCHANGED <<clock, jwt, issuedAt, overlap>>

(* One word of ac.authToken.jwt = ...; Send fails if CreateJWT did. *)
StoreJwt(s, word) ==
    /\ call[s].pc \in {"store", "wipe"} /\ word \in call[s].words
    /\ jwt' = [jwt EXCEPT ![word] = call[s].token[word]]
    /\ call' = IF call[s].words # {word} THEN Goto(s, call[s].pc, call[s].words \ {word})
               ELSE IF At(s, "store") THEN Goto(s, "stamp", {})
               ELSE [call EXCEPT ![s] = NoCall]
    /\ UNCHANGED <<clock, issuedAt, overlap>>

(* ac.authToken.issuedAt = time.Unix(tokenTime, 0) *)
StampTimeNow(s) == clock   \* mutant: the time of issue, not that of the token
StampTime(s) == call[s].token.text.iat
Stamp(s) ==
    /\ At(s, "stamp")
    /\ issuedAt' = StampTime(s)
    /\ call' = Goto(s, "read", Words)
    /\ UNCHANGED <<clock, jwt, overlap>>

(* One word of "bearer " + ac.authToken.jwt; then the request is sent. *)
ReadJwt(s, word) ==
    /\ At(s, "read") /\ word \in call[s].words
    /\ LET left == call[s].words \ {word}
       IN call' = [Goto(s, IF left = {} THEN "sending" ELSE "read", left)
                     EXCEPT ![s].token[word] = jwt[word]]
    /\ UNCHANGED <<clock, jwt, issuedAt, overlap>>

(* client.Do returns: an answer, or the timeout of the client. *)
SendReturns(s) ==
    /\ At(s, "sending")
    /\ call' = [call EXCEPT ![s] = NoCall]
    /\ UNCHANGED <<clock, jwt, issuedAt, overlap>>

Tick ==
    /\ clock < MaxClock
    /\ \A s \in Senders : At(s, "idle") \/ clock < call[s].since + Patience
    /\ clock' = clock + 1
    /\ UNCHANGED <<jwt, issuedAt, call, overlap>>

Next ==
    \/ \E s \in Senders :
         \/ CheckToken(s) \/ CreateJWT(s) \/ CreateJWTFails(s) \/ Stamp(s)
         \/ \E word \in Words : StoreJwt(s, word) \/ ReadJwt(s, word)
         \/ SendReturns(s)
    \/ Tick

Spec == Init /\ [][Next]_vars
=============================================================================
