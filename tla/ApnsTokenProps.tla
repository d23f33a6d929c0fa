--------------------------- MODULE ApnsTokenProps ---------------------------
(***************************************************************************)
(* What the provider token of a client keeps to, and what its lack of a    *)
(* lock costs.                                                             *)
(***************************************************************************)
EXTENDS ApnsToken

(* The type invariant of the client: in particular the time of a token is   *)
(* never in the future (client.go:139), and a sender is busy no longer      *)
(* than Patience.                                                           *)
TokenTypeOK ==
    /\ clock \in Times /\ issuedAt \in Times /\ issuedAt <= clock
    /\ jwt \in Jwt /\ jwt.text.iat <= clock
    /\ call \in [Senders -> [pc : {"idle", "issue", "store", "wipe", "stamp", "read",
                                   "sending"},
                             since : Times, words : SUBSET Words, token : Jwt]]
    /\ \A s \in Senders : /\ call[s].since <= clock
                          /\ call[s].token.text.iat <= clock
                          /\ ~At(s, "idle") => clock <= call[s].since + Patience
    /\ overlap \in BOOLEAN

Sending(s) == At(s, "sending")
Age(s) == clock - call[s].token.text.iat

(* As long as no issue has overlapped another sender's call, every request  *)
(* carries a token that CreateJWT returned, of a time that is neither too   *)
(* recent nor more than an hour ago, and the recorded time is that of the   *)
(* token: the races are the only way to a bad token (client.go:115-148).    *)
SoundWithoutOverlap ==
    ~overlap =>
        /\ \A s \in Senders : Sending(s) => /\ Whole(call[s].token)
                                            /\ Age(s) \in Lag..Hour
        /\ (\A s \in Senders : ~Issuing(s)) =>
                jwt.text \in {NoText, [iat |-> issuedAt, size |-> jwt.len]}

(* However the senders race, the recorded time is at most one slot ahead of *)
(* the token: a sender that stored the younger time and one that stored the *)
(* older token took their times within Patience.                            *)
AtMostOneSlotBehind ==
    jwt.text # NoText => issuedAt - jwt.text.iat <= Slot

(* So a request never carries a token that is older than an hour and a half.*)
OverlapBoundsAge ==
    \A s \in Senders : Sending(s) /\ call[s].token.text # NoText
                            => Age(s) \in Lag..(Hour + Slot)

-----------------------------------------------------------------------------
(* What a comment says, and the code does not keep.                         *)

(* apns/client.go:117 "If iat of jwt is more than 1 hour ago, returns 403   *)
(* InvalidProviderToken. So, recreate jwt earlier than 1 hour.": a request  *)
(* is not sent with a token of more than an hour ago.                       *)
RecreatedWithinHour ==
    \A s \in Senders : Sending(s) /\ call[s].token.text # NoText => Age(s) <= Hour
=============================================================================
