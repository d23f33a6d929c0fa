--------------------------- MODULE ApnsTokenProofs ---------------------------
(***************************************************************************)
(* Proofs about the provider token, for every set of senders, all sizes of *)
(* a signed token and all durations that DurationsAssumption admits: what  *)
(* a client without a lock on its token keeps to, with and without a race. *)
(***************************************************************************)
EXTENDS ApnsTokenProps, TLAPS

-----------------------------------------------------------------------------
(* The inductive invariants.                                                *)

(* No token has a time of less than Lag ago.                                *)
NotTooRecent ==
    /\ clock >= Lag + Slot
    /\ issuedAt <= TokenTime(clock)
    /\ jwt.text.iat <= TokenTime(clock)
    /\ \A s \in Senders : call[s].token.text.iat <= TokenTime(clock)

TokenInv == TokenTypeOK /\ NotTooRecent

(* What a sender that issues has signed since its call began ...            *)
Pending(s) == At(s, "store") \/ At(s, "stamp")
(* ... and whether the shared text is at least as young as that: its own or *)
(* one that was stored after it.                                            *)
HasStored(s) == At(s, "stamp") \/ (At(s, "store") /\ "text" \notin call[s].words)
HasRead(s) == At(s, "sending") \/ (At(s, "read") /\ "text" \notin call[s].words)
MayRead(s) == At(s, "read") /\ "text" \in call[s].words

(* However the senders race, an issue takes its time in one call, so that   *)
(* two times that are on their way at once are at most one slot apart.      *)
RaceOf(s) ==
    /\ At(s, "issue") \/ At(s, "wipe") => call[s].token.text = NoText
    /\ Pending(s) => call[s].token.text.iat >= TokenTime(call[s].since)
    /\ HasStored(s) /\ jwt.text # NoText
         => jwt.text.iat + Slot >= call[s].token.text.iat
    /\ MayRead(s) /\ jwt.text # NoText
         => jwt.text.iat + Slot + Refresh >= call[s].since
    /\ HasRead(s) /\ call[s].token.text # NoText
         => call[s].token.text.iat + Slot + Refresh >= call[s].since
RaceInv == AtMostOneSlotBehind /\ \A s \in Senders : RaceOf(s)

(* Without a race, a sender that issues is alone ...                        *)
Alone(s) == \A t \in Senders \ {s} : At(t, "idle")
(* ... it has found the token stale, and what it has stored is what it      *)
(* signed, or the nothing that a failed CreateJWT returns.                  *)
SoundIssue(s) ==
    /\ Issuing(s) => Alone(s)
    /\ At(s, "issue") \/ At(s, "wipe") => Stale /\ call[s].token = Signed(NoText)
    /\ Pending(s) => Whole(call[s].token) /\ call[s].token.text # NoText
    /\ At(s, "store") \/ At(s, "wipe") =>
         /\ "text" \notin call[s].words => jwt.text = call[s].token.text
         /\ "len" \notin call[s].words => jwt.len = call[s].token.len
    /\ At(s, "stamp") => jwt = call[s].token
(* What a sender reads is what the check has found young enough.            *)
SoundRead(s) ==
    /\ At(s, "read") =>
         /\ jwt.text # NoText /\ issuedAt + Refresh >= call[s].since
         /\ "text" \notin call[s].words => call[s].token.text = jwt.text
         /\ "len" \notin call[s].words => call[s].token.len = jwt.len
    /\ At(s, "sending") =>
         /\ Whole(call[s].token) /\ call[s].token.text # NoText
         /\ call[s].token.text.iat + Refresh >= call[s].since
(* Between issues the token is whole and of the recorded time, or empty and *)
(* recorded as stale.                                                       *)
SoundAtRest ==
    (\A s \in Senders : ~Issuing(s)) =>
        /\ Whole(jwt)
        /\ IF jwt.text = NoText THEN Stale ELSE jwt.text.iat = issuedAt
Sound == SoundAtRest /\ \A s \in Senders : SoundIssue(s) /\ SoundRead(s)
NoOverlapInv == ~overlap => Sound
-----------------------------------------------------------------------------
(* The arithmetic of a token's time.                                        *)

(* A quotient times its divisor is at most one divisor below the dividend.  *)
LEMMA DivTimes ==
  ASSUME NEW n \in Int, NEW k \in Nat \ {0}
  PROVE  /\ (n \div k) \in Int
         /\ (n \div k) * k \in Int
         /\ (n \div k) * k <= n
         /\ n < (n \div k) * k + k
<1>1. (n \div k) \in Int
  OBVIOUS
<1>2. PICK q \in Int : q = n \div k
  BY <1>1
<1>3. k * q <= n /\ n < k * q + k
  BY <1>2
<1>4. q * k = k * q /\ q * k \in Int
  OBVIOUS
<1> QED BY <1>2, <1>3, <1>4

(* Multiples of k that are ordered by more than one k apart ...             *)
LEMMA TimesApart ==
  ASSUME NEW p \in Int, NEW q \in Int, NEW k \in Nat \ {0}, q * k > p * k + k
  PROVE  q * k >= p * k + 2 * k
<1>1. q * k - p * k = (q - p) * k
  OBVIOUS
<1>2. ASSUME q - p <= 1 PROVE (q - p) * k <= k
  BY <1>2
<1>3. q - p >= 2
  BY <1>1, <1>2
<1>4. ASSUME NEW d \in Int, d >= 2 PROVE d * k >= 2 * k
  BY <1>4
<1>5. (q - p) * k >= 2 * k
  BY <1>3, <1>4
<1> QED BY <1>1, <1>5

LEMMA TimesOrdered ==
  ASSUME NEW p \in Int, NEW q \in Int, NEW k \in Nat \ {0}, q * k > p * k
  PROVE  q * k >= p * k + k
<1>1. q * k - p * k = (q - p) * k
  OBVIOUS
<1>2. ASSUME NEW d \in Int, d <= 0 PROVE d * k <= 0
  BY <1>2
<1>3. q - p >= 1
  BY <1>1, <1>2
<1>4. ASSUME NEW d \in Int, d >= 1 PROVE d * k >= k
  BY <1>4
<1>5. (q - p) * k >= k
  BY <1>3, <1>4
<1> QED BY <1>1, <1>5
(* The time in a token is between Lag and Lag + Slot ago, ...               *)
LEMMA TokenTimeBounds ==
  ASSUME NEW now \in Int
  PROVE  /\ TokenTime(now) \in Int
         /\ TokenTime(now) <= now - Lag
         /\ now < TokenTime(now) + Lag + Slot
<1>1. Lag \in Nat /\ Slot \in Nat \ {0}
  BY DurationsAssumption
<1>2. PICK n \in Int : n = now - Lag
  BY <1>1
<1>3. TokenTime(now) = (n \div Slot) * Slot
  BY <1>2 DEF TokenTime
<1> QED BY <1>1, <1>2, <1>3, DivTimes

(* ... it grows with time, ...                                              *)
LEMMA TokenTimeGrows ==
  ASSUME NEW a \in Int, NEW b \in Int, a <= b
  PROVE  TokenTime(a) <= TokenTime(b)
<1>1. Lag \in Nat /\ Slot \in Nat \ {0}
  BY DurationsAssumption
<1>2. PICK p \in Int, q \in Int : p = (a - Lag) \div Slot /\ q = (b - Lag) \div Slot
  BY <1>1, DivTimes
<1>3. TokenTime(a) = p * Slot /\ TokenTime(b) = q * Slot
  BY <1>2 DEF TokenTime
<1>4. TokenTime(a) > TokenTime(b) => TokenTime(a) >= TokenTime(b) + Slot
  BY <1>1, <1>3, TimesOrdered
<1> QED BY <1>1, <1>4, TokenTimeBounds

(* ... and by one slot at most within a slot.                               *)
LEMMA TokenTimeSteps ==
  ASSUME NEW a \in Int, NEW b \in Int, b <= a + Slot
  PROVE  TokenTime(b) <= TokenTime(a) + Slot
<1>1. Lag \in Nat /\ Slot \in Nat \ {0}
  BY DurationsAssumption
<1>2. PICK p \in Int, q \in Int : p = (a - Lag) \div Slot /\ q = (b - Lag) \div Slot
  BY <1>1, DivTimes
<1>3. TokenTime(a) = p * Slot /\ TokenTime(b) = q * Slot
  BY <1>2 DEF TokenTime
<1>4. TokenTime(b) > TokenTime(a) + Slot => TokenTime(b) >= TokenTime(a) + 2 * Slot
  BY <1>1, <1>3, TimesApart
<1> QED BY <1>1, <1>4, TokenTimeBounds

-----------------------------------------------------------------------------
(* Types, and that no token is too recent.                                  *)

Calls == [pc : {"idle", "issue", "store", "wipe", "stamp", "read", "sending"},
          since : Times, words : SUBSET Words, token : Jwt]

(* A change to one call keeps what holds of every call.                     *)
LEMMA OneCall ==
  ASSUME TokenInv, NEW s \in Senders, NEW c \in Calls,
         call' = [call EXCEPT ![s] = c], clock' = clock,
         c.since <= clock, c.token.text.iat <= TokenTime(clock),
         c.pc # "idle" => clock <= c.since + Patience,
         jwt' \in Jwt, jwt'.text.iat <= TokenTime(clock),
         issuedAt' \in Times, issuedAt' <= TokenTime(clock), overlap' \in BOOLEAN
  PROVE  TokenInv'
<1>1. call \in [Senders -> Calls] /\ clock \in Times /\ clock \in Int
  BY DEF TokenInv, TokenTypeOK, Calls, Times
<1>2. call' \in [Senders -> Calls]
  BY <1>1
<1>3. \A t \in Senders : call'[t] = IF t = s THEN c ELSE call[t]
  BY <1>1
<1>4. TokenTime(clock) \in Int /\ TokenTime(clock) <= clock - Lag /\ Lag \in Nat
  BY <1>1, TokenTimeBounds, DurationsAssumption
<1>5. /\ c.token.text.iat \in Int /\ jwt'.text.iat \in Int /\ issuedAt' \in Int
  BY <1>1 DEF Calls, Jwt, Text, NoText, Times
<1>6. c.token.text.iat <= clock /\ jwt'.text.iat <= clock /\ issuedAt' <= clock
  BY <1>1, <1>4, <1>5
<1>7. TokenTime(clock)' = TokenTime(clock)
  BY DEF TokenTime
<1>8. TokenTypeOK'
  <2>1. \A t \in Senders : /\ call'[t].since <= clock'
                           /\ call'[t].token.text.iat <= clock'
                           /\ call'[t].pc # "idle" => clock' <= call'[t].since + Patience
    BY <1>3, <1>6 DEF TokenInv, TokenTypeOK, At
  <2> QED BY <1>1, <1>2, <1>6, <2>1 DEF TokenTypeOK, Calls, At
<1>9. NotTooRecent'
  BY <1>3, <1>7 DEF TokenInv, NotTooRecent
<1> QED BY <1>8, <1>9 DEF TokenInv

LEMMA SignedIsToken ==
  ASSUME NEW text \in Text
  PROVE  /\ Signed(text) \in Jwt /\ Signed(text).text = text
         /\ Signed(text).len = text.size /\ Whole(Signed(text))
BY DEF Signed, Text, Jwt, NoText, Whole

LEMMA InitTokenInv == Init => TokenInv
<1> SUFFICES ASSUME Init PROVE TokenInv
  OBVIOUS
<1>1. /\ Lag \in Nat \ {0} /\ Slot \in Nat \ {0} /\ MaxClock \in Nat /\ Patience \in Nat
      /\ Lag + 2 * Slot <= MaxClock /\ Sizes \subseteq Nat \ {0}
  BY DurationsAssumption
<1>2. clock \in Int /\ clock >= Lag + Slot /\ clock <= MaxClock /\ clock \in Times
  BY <1>1 DEF Init, Times
<1>3. TokenTime(clock) \in Int /\ 0 <= TokenTime(clock) /\ TokenTime(clock) <= clock - Lag
  BY <1>1, <1>2, TokenTimeBounds
<1>4. TokenTime(clock) \in Times /\ TokenTime(clock) <= clock
  BY <1>1, <1>2, <1>3 DEF Times
<1>5. PICK size \in Sizes : jwt = Signed([iat |-> TokenTime(clock), size |-> size])
  BY DEF Init
<1>6. [iat |-> TokenTime(clock), size |-> size] \in Text /\ NoText \in Text
  BY <1>4 DEF Text
<1>7. jwt \in Jwt /\ jwt.text.iat = TokenTime(clock)
  BY <1>5, <1>6, SignedIsToken
<1>8. Signed(NoText) \in Jwt /\ Signed(NoText).text.iat = 0
  BY <1>6, SignedIsToken DEF NoText
<1>9. NoCall \in Calls /\ NoCall.since = 0 /\ NoCall.token.text.iat = 0 /\ NoCall.pc = "idle"
  BY <1>1, <1>8 DEF NoCall, Calls, Times, Words
<1>10. call \in [Senders -> Calls] /\ \A s \in Senders : call[s] = NoCall
  BY <1>9 DEF Init
<1>11. issuedAt = TokenTime(clock) /\ overlap \in BOOLEAN
  BY DEF Init
<1>12. \A s \in Senders : /\ call[s].since <= clock /\ call[s].token.text.iat <= clock
                          /\ call[s].token.text.iat <= TokenTime(clock) /\ At(s, "idle")
  BY <1>1, <1>2, <1>3, <1>9, <1>10 DEF At
<1>13. TokenTypeOK
  BY <1>2, <1>4, <1>7, <1>10, <1>11, <1>12 DEF TokenTypeOK, Calls
<1>14. NotTooRecent
  BY <1>2, <1>3, <1>7, <1>11, <1>12 DEF NotTooRecent
<1> QED BY <1>13, <1>14 DEF TokenInv
-----------------------------------------------------------------------------
(* What each step of a sender makes of its call.                            *)

CallAt(pc, since, words, token) ==
    [pc |-> pc, since |-> since, words |-> words, token |-> token]

LEMMA WordCopied ==
  ASSUME NEW a \in Jwt, NEW b \in Jwt, NEW word \in Words, NEW c,
         c = [a EXCEPT ![word] = b[word]]
  PROVE  /\ c \in Jwt
         /\ c.text = IF word = "text" THEN b.text ELSE a.text
         /\ c.len = IF word = "len" THEN b.len ELSE a.len
<1>1. CASE word = "text"
  BY <1>1 DEF Jwt
<1>2. CASE word = "len"
  BY <1>2 DEF Jwt
<1> QED BY <1>1, <1>2 DEF Words

LEMMA CallTyped ==
  ASSUME TokenInv, NEW s \in Senders
  PROVE  /\ call \in [Senders -> Calls]
         /\ call[s] = CallAt(call[s].pc, call[s].since, call[s].words, call[s].token)
         /\ call[s].since \in Times /\ call[s].words \subseteq Words
         /\ call[s].token \in Jwt /\ jwt \in Jwt
         /\ clock \in Int /\ issuedAt \in Int /\ clock \in Times
BY DEF TokenInv, TokenTypeOK, Calls, CallAt, Times

LEMMA CheckTokenCall ==
  ASSUME TokenInv, NEW s \in Senders, CheckToken(s)
  PROVE  call' = [call EXCEPT ![s] =
                    CallAt(IF Stale THEN "issue" ELSE "read", clock,
                           IF Stale THEN {} ELSE Words, Signed(NoText))]
<1>1. PICK pc, words : /\ pc = IF Stale THEN "issue" ELSE "read"
                       /\ words = IF Stale THEN {} ELSE Words
  OBVIOUS
<1>2. PICK c : c = [NoCall EXCEPT !.pc = pc, !.since = clock, !.words = words]
  OBVIOUS
<1>3. c \in [pc : {pc}, since : {clock}, words : {words}, token : {Signed(NoText)}]
  BY <1>2 DEF NoCall
<1>4. c = CallAt(pc, clock, words, Signed(NoText))
  BY <1>3 DEF CallAt
<1> QED BY <1>1, <1>2, <1>4 DEF CheckToken

LEMMA GotoRecord ==
  ASSUME NEW c \in Calls, NEW pc, NEW words
  PROVE  [c EXCEPT !.pc = pc, !.words = words] = CallAt(pc, c.since, words, c.token)
<1>1. PICK d : d = [c EXCEPT !.pc = pc, !.words = words]
  OBVIOUS
<1>2. d \in [pc : {pc}, since : {c.since}, words : {words}, token : {c.token}]
  BY <1>1 DEF Calls
<1> QED BY <1>1, <1>2 DEF CallAt

LEMMA GotoCall ==
  ASSUME TokenInv, NEW s \in Senders, NEW pc, NEW words
  PROVE  Goto(s, pc, words)
           = [call EXCEPT ![s] = CallAt(pc, call[s].since, words, call[s].token)]
<1>1. call \in [Senders -> Calls] /\ call[s] \in Calls
  BY CallTyped
<1>2. Goto(s, pc, words) = [call EXCEPT ![s] = [call[s] EXCEPT !.pc = pc, !.words = words]]
  BY <1>1 DEF Goto, Calls
<1> QED BY <1>1, <1>2, GotoRecord

(* Another token in the call of one sender.                                 *)
LEMMA TokenRecord ==
  ASSUME NEW c, NEW pc, NEW since, NEW words, NEW old, NEW token,
         c = CallAt(pc, since, words, old)
  PROVE  [c EXCEPT !.token = token] = CallAt(pc, since, words, token)
<1>1. PICK d : d = [c EXCEPT !.token = token]
  OBVIOUS
<1>2. c \in [pc : {pc}, since : {since}, words : {words}, token : {old}]
  BY DEF CallAt
<1>3. d \in [pc : {pc}, since : {since}, words : {words}, token : {token}]
  BY <1>1, <1>2
<1> QED BY <1>1, <1>3 DEF CallAt

LEMMA CreateJWTCall ==
  ASSUME TokenInv, NEW s \in Senders, CreateJWT(s)
  PROVE  \E size \in Sizes :
           call' = [call EXCEPT ![s] =
                      CallAt("store", call[s].since, Words,
                             Signed([iat |-> TokenTime(clock), size |-> size]))]
<1>1. PICK size \in Sizes :
        call' = [Goto(s, "store", Words) EXCEPT ![s].token =
                   Signed([iat |-> TokenTime(clock), size |-> size])]
  BY DEF CreateJWT
<1>2. PICK since, old, token : /\ since = call[s].since /\ old = call[s].token
                               /\ token = Signed([iat |-> TokenTime(clock), size |-> size])
  OBVIOUS
<1>3. PICK moved : moved = Goto(s, "store", Words)
  OBVIOUS
<1>4. moved = [call EXCEPT ![s] = CallAt("store", since, Words, old)]
  BY <1>2, <1>3, GotoCall
<1>5. PICK f, h : f = call /\ h = call' /\ f \in [Senders -> Calls]
  BY CallTyped
<1>6. h = [moved EXCEPT ![s].token = token]
  BY <1>1, <1>2, <1>3, <1>5
<1>7. moved = [f EXCEPT ![s] = CallAt("store", since, Words, old)]
  BY <1>4, <1>5
<1>8. h = [f EXCEPT ![s] = CallAt("store", since, Words, token)]
  <2>1. PICK c : c = CallAt("store", since, Words, old)
    OBVIOUS
  <2>2. moved[s] = c
    BY <1>5, <1>7, <2>1
  <2>3. [c EXCEPT !.token = token] = CallAt("store", since, Words, token)
    BY <2>1, TokenRecord
  <2>4. h = [moved EXCEPT ![s] = [c EXCEPT !.token = token]]
    BY <1>6, <2>2
  <2> QED BY <1>5, <1>7, <2>3, <2>4
<1> QED BY <1>2, <1>5, <1>8

LEMMA StoreJwtCall ==
  ASSUME TokenInv, NEW s \in Senders, NEW word \in Words, StoreJwt(s, word)
  PROVE  /\ jwt' \in Jwt
         /\ jwt'.text = IF word = "text" THEN call[s].token.text ELSE jwt.text
         /\ jwt'.len = IF word = "len" THEN call[s].token.len ELSE jwt.len
         /\ \/ /\ call[s].words # {word}
               /\ call' = [call EXCEPT ![s] = CallAt(call[s].pc, call[s].since,
                                                     call[s].words \ {word}, call[s].token)]
            \/ /\ call[s].words = {word} /\ At(s, "store")
               /\ call' = [call EXCEPT ![s] = CallAt("stamp", call[s].since, {},
                                                     call[s].token)]
            \/ /\ call[s].words = {word} /\ At(s, "wipe")
               /\ call' = [call EXCEPT ![s] = NoCall]
<1>1. call[s].token \in Jwt /\ jwt \in Jwt
  BY CallTyped
<1>2. PICK a \in Jwt, b \in Jwt : a = jwt /\ b = call[s].token
  BY <1>1
<1>3. PICK c : c = [a EXCEPT ![word] = b[word]]
  OBVIOUS
<1>4. /\ c \in Jwt
      /\ c.text = IF word = "text" THEN b.text ELSE a.text
      /\ c.len = IF word = "len" THEN b.len ELSE a.len
  <2>1. CASE word = "text"
    BY <1>2, <1>3, <2>1 DEF Jwt
  <2>2. CASE word = "len"
    BY <1>2, <1>3, <2>2 DEF Jwt
  <2> QED BY <2>1, <2>2 DEF Words
<1>5. jwt' = c
  BY <1>2, <1>3 DEF StoreJwt
<1>6. /\ jwt' \in Jwt
      /\ jwt'.text = IF word = "text" THEN call[s].token.text ELSE jwt.text
      /\ jwt'.len = IF word = "len" THEN call[s].token.len ELSE jwt.len
  BY <1>2, <1>4, <1>5
<1>7. Goto(s, call[s].pc, call[s].words \ {word})
        = [call EXCEPT ![s] = CallAt(call[s].pc, call[s].since, call[s].words \ {word},
                                     call[s].token)]
  BY GotoCall
<1>8. Goto(s, "stamp", {})
        = [call EXCEPT ![s] = CallAt("stamp", call[s].since, {}, call[s].token)]
  BY GotoCall
<1> QED BY <1>6, <1>7, <1>8 DEF StoreJwt, At

LEMMA ReadJwtCall ==
  ASSUME TokenInv, NEW s \in Senders, NEW word \in Words, ReadJwt(s, word)
  PROVE  \E token \in Jwt :
           /\ token.text = IF word = "text" THEN jwt.text ELSE call[s].token.text
           /\ token.len = IF word = "len" THEN jwt.len ELSE call[s].token.len
           /\ call' = [call EXCEPT ![s] =
                         CallAt(IF call[s].words = {word} THEN "sending" ELSE "read",
                                call[s].since, call[s].words \ {word}, token)]
<1>1. /\ call \in [Senders -> Calls] /\ call[s].token \in Jwt /\ jwt \in Jwt
      /\ call[s].words \subseteq Words
  BY CallTyped
<1>2. PICK token : token = [call[s].token EXCEPT ![word] = jwt[word]]
  OBVIOUS
<1>3. /\ token \in Jwt
      /\ token.text = IF word = "text" THEN jwt.text ELSE call[s].token.text
      /\ token.len = IF word = "len" THEN jwt.len ELSE call[s].token.len
  BY <1>1, <1>2, WordCopied
<1>4. (call[s].words \ {word} = {}) <=> (call[s].words = {word})
  BY DEF ReadJwt
<1>5. PICK pc : pc = IF call[s].words = {word} THEN "sending" ELSE "read"
  OBVIOUS
<1>6. PICK moved : moved = Goto(s, pc, call[s].words \ {word})
  OBVIOUS
<1>7. moved = [call EXCEPT ![s] = CallAt(pc, call[s].since, call[s].words \ {word},
                                         call[s].token)]
  BY <1>6, GotoCall
<1>8. moved[s].token = call[s].token
  BY <1>1, <1>7 DEF CallAt
<1>9. call' = [moved EXCEPT ![s].token[word] = jwt[word]]
  BY <1>4, <1>5, <1>6 DEF ReadJwt
<1>10. PICK f, h, since, words, old :
          /\ f = call /\ f \in [Senders -> Calls] /\ h = call' /\ since = call[s].since
          /\ words = call[s].words \ {word} /\ old = call[s].token
  BY <1>1
<1>11. h = [moved EXCEPT ![s].token = token]
  BY <1>2, <1>8, <1>9, <1>10
<1>12. moved = [f EXCEPT ![s] = CallAt(pc, since, words, old)]
  BY <1>7, <1>10
<1>13. h = [f EXCEPT ![s] = CallAt(pc, since, words, token)]
  <2>1. PICK c : c = CallAt(pc, since, words, old)
    OBVIOUS
  <2>2. moved[s] = c
    BY <1>10, <1>12, <2>1
  <2>3. [c EXCEPT !.token = token] = CallAt(pc, since, words, token)
    BY <2>1, TokenRecord
  <2>4. h = [moved EXCEPT ![s] = [c EXCEPT !.token = token]]
    BY <1>11, <2>2
  <2> QED BY <1>10, <1>12, <2>3, <2>4
<1> QED BY <1>3, <1>5, <1>10, <1>13
-----------------------------------------------------------------------------
(* Every step keeps the types, and no token gets too recent.                *)

Pcs == {"idle", "issue", "store", "wipe", "stamp", "read", "sending"}

LEMMA CallAtIs ==
  ASSUME NEW pc \in Pcs, NEW since \in Times, NEW words \in SUBSET Words,
         NEW token \in Jwt
  PROVE  /\ CallAt(pc, since, words, token) \in Calls
         /\ CallAt(pc, since, words, token).pc = pc
         /\ CallAt(pc, since, words, token).since = since
         /\ CallAt(pc, since, words, token).words = words
         /\ CallAt(pc, since, words, token).token = token
BY DEF CallAt, Calls, Pcs

(* What the checks and the reads of the clock find.                         *)
LEMMA Now ==
  ASSUME TokenInv
  PROVE  /\ clock \in Int /\ clock \in Times /\ issuedAt \in Int
         /\ TokenTime(clock) \in Int /\ TokenTime(clock) \in Times
         /\ 0 < TokenTime(clock) /\ TokenTime(clock) <= clock
         /\ Lag \in Nat /\ Slot \in Nat \ {0} /\ Patience \in Nat /\ Refresh \in Nat
         /\ NoText \in Text /\ Signed(NoText) \in Jwt /\ Signed(NoText).text = NoText
         /\ NoText.iat = 0
         /\ NoCall = CallAt("idle", 0, {}, Signed(NoText)) /\ 0 \in Times
<1>1. clock \in Int /\ clock \in Times /\ issuedAt \in Int /\ clock >= Lag + Slot
  BY DEF TokenInv, TokenTypeOK, NotTooRecent, Times
<1>2. /\ Lag \in Nat /\ Slot \in Nat \ {0} /\ Patience \in Nat /\ Refresh \in Nat
      /\ MaxClock \in Nat
  BY DurationsAssumption
<1>3. TokenTime(clock) \in Int /\ 0 < TokenTime(clock) /\ TokenTime(clock) <= clock
  BY <1>1, <1>2, TokenTimeBounds
<1>4. TokenTime(clock) \in Times /\ 0 \in Times
  BY <1>1, <1>2, <1>3 DEF Times
<1>5. NoText \in Text /\ NoText.iat = 0
  BY DEF Text, NoText
<1>6. Signed(NoText) \in Jwt /\ Signed(NoText).text = NoText
  BY <1>5, SignedIsToken
<1>7. NoCall = CallAt("idle", 0, {}, Signed(NoText))
  BY DEF NoCall, CallAt
<1> QED BY <1>1, <1>2, <1>3, <1>4, <1>5, <1>6, <1>7

(* A call that changes and leaves the clock keeps the invariant.            *)
LEMMA CallKeeps ==
  ASSUME TokenInv, NEW s \in Senders,
         NEW pc \in Pcs, NEW since \in Times, NEW words \in SUBSET Words,
         NEW token \in Jwt,
         call' = [call EXCEPT ![s] = CallAt(pc, since, words, token)], clock' = clock,
         since <= clock, token.text.iat <= TokenTime(clock),
         pc # "idle" => clock <= since + Patience,
         jwt' \in Jwt, jwt'.text.iat <= TokenTime(clock),
         issuedAt' \in Times, issuedAt' <= TokenTime(clock), overlap' \in BOOLEAN
  PROVE  TokenInv'
<1>1. PICK c \in Calls : /\ c = CallAt(pc, since, words, token)
                         /\ c.pc = pc /\ c.since = since /\ c.token = token
  BY CallAtIs
<1>2. call' = [call EXCEPT ![s] = c]
  BY <1>1
<1>3. /\ c.since <= clock /\ c.token.text.iat <= TokenTime(clock)
      /\ c.pc # "idle" => clock <= c.since + Patience
  BY <1>1
<1> QED BY <1>1, <1>2, <1>3, OneCall

LEMMA SharedKept ==
  ASSUME TokenInv
  PROVE  /\ jwt \in Jwt /\ jwt.text.iat <= TokenTime(clock)
         /\ issuedAt \in Times /\ issuedAt <= TokenTime(clock) /\ overlap \in BOOLEAN
         /\ \A s \in Senders :
              /\ call[s].pc \in Pcs /\ call[s].since \in Times
              /\ call[s].words \in SUBSET Words /\ call[s].token \in Jwt
              /\ call[s].since <= clock /\ call[s].token.text.iat <= TokenTime(clock)
              /\ call[s].pc # "idle" => clock <= call[s].since + Patience
BY DEF TokenInv, TokenTypeOK, NotTooRecent, At, Pcs

LEMMA SenderKeepsTypes ==
  ASSUME TokenInv, NEW s \in Senders,
         \/ CheckToken(s) \/ CreateJWT(s) \/ CreateJWTFails(s) \/ Stamp(s)
         \/ \E word \in Words : StoreJwt(s, word) \/ ReadJwt(s, word)
         \/ SendReturns(s)
  PROVE  TokenInv'
<1>1. CASE CheckToken(s)
  <2>1. PICK pc \in Pcs, words \in SUBSET Words :
          /\ pc = IF Stale THEN "issue" ELSE "read"
          /\ words = IF Stale THEN {} ELSE Words
    BY DEF Pcs
  <2>2. PICK since \in Times, token \in Jwt :
          since = clock /\ token = Signed(NoText) /\ token.text.iat = 0
    BY Now
  <2>3. call' = [call EXCEPT ![s] = CallAt(pc, since, words, token)]
    BY <1>1, <2>1, <2>2, CheckTokenCall
  <2>4. since <= clock /\ token.text.iat <= TokenTime(clock) /\ clock <= since + Patience
    BY <2>2, Now
  <2>5. overlap' \in BOOLEAN /\ UNCHANGED <<clock, jwt, issuedAt>>
    BY <1>1, SharedKept DEF CheckToken
  <2> QED BY <2>1, <2>2, <2>3, <2>4, <2>5, SharedKept, CallKeeps
<1>2. CASE CreateJWT(s)
  <2>1. PICK size \in Sizes :
          call' = [call EXCEPT ![s] =
                     CallAt("store", call[s].since, Words,
                            Signed([iat |-> TokenTime(clock), size |-> size]))]
    BY <1>2, CreateJWTCall
  <2>2. PICK since \in Times, token \in Jwt :
          /\ since = call[s].since
          /\ token = Signed([iat |-> TokenTime(clock), size |-> size])
          /\ token.text.iat = TokenTime(clock)
    <3>1. [iat |-> TokenTime(clock), size |-> size] \in Text
      BY <2>1, Now DEF Text
    <3> QED BY <3>1, SignedIsToken, SharedKept
  <2>3. "store" \in Pcs /\ Words \in SUBSET Words
    BY DEF Pcs
  <2>4. call' = [call EXCEPT ![s] = CallAt("store", since, Words, token)]
    BY <2>1, <2>2
  <2>5. /\ since <= clock /\ token.text.iat <= TokenTime(clock) /\ clock <= since + Patience
        /\ UNCHANGED <<clock, jwt, issuedAt, overlap>>
    BY <1>2, <2>2, SharedKept, Now DEF CreateJWT, At
  <2> QED BY <2>2, <2>3, <2>4, <2>5, SharedKept, CallKeeps
<1>3. CASE CreateJWTFails(s)
  <2>1. call' = [call EXCEPT ![s] = CallAt("wipe", call[s].since, Words, call[s].token)]
    BY <1>3, GotoCall DEF CreateJWTFails
  <2>2. "wipe" \in Pcs /\ Words \in SUBSET Words /\ call[s].pc # "idle"
        /\ UNCHANGED <<clock, jwt, issuedAt, overlap>>
    BY <1>3 DEF Pcs, CreateJWTFails, At
  <2>3. PICK since \in Times, token \in Jwt : since = call[s].since /\ token = call[s].token
    BY SharedKept
  <2>4. call' = [call EXCEPT ![s] = CallAt("wipe", since, Words, token)]
    BY <2>1, <2>3
  <2> QED BY <2>2, <2>3, <2>4, SharedKept, CallKeeps
<1>4. CASE Stamp(s)
  <2>1. call' = [call EXCEPT ![s] = CallAt("read", call[s].since, Words, call[s].token)]
    BY <1>4, GotoCall DEF Stamp
  <2>2. "read" \in Pcs /\ Words \in SUBSET Words /\ call[s].pc # "idle"
        /\ UNCHANGED <<clock, jwt, overlap>>
    BY <1>4 DEF Pcs, Stamp, At
  <2>3. PICK since \in Times, token \in Jwt : since = call[s].since /\ token = call[s].token
    BY SharedKept
  <2>4. call' = [call EXCEPT ![s] = CallAt("read", since, Words, token)]
    BY <2>1, <2>3
  <2>5. issuedAt' \in Times /\ issuedAt' <= TokenTime(clock)
    <3>1. token.text.iat \in Times
      BY <2>3, Now DEF Jwt, Text
    <3> QED BY <1>4, <2>3, <3>1, SharedKept DEF Stamp, StampTime
  <2> QED BY <2>2, <2>3, <2>4, <2>5, SharedKept, CallKeeps
<1>5. ASSUME NEW word \in Words, StoreJwt(s, word) PROVE TokenInv'
  <2>1. /\ jwt' \in Jwt /\ UNCHANGED <<clock, issuedAt, overlap>>
        /\ jwt'.text = IF word = "text" THEN call[s].token.text ELSE jwt.text
    BY <1>5, StoreJwtCall DEF StoreJwt
  <2>2. jwt'.text.iat <= TokenTime(clock)
    BY <2>1, SharedKept
  <2>3. PICK since \in Times, token \in Jwt : since = call[s].since /\ token = call[s].token
    BY SharedKept
  <2>4. call[s].pc # "idle"
    BY <1>5 DEF StoreJwt
  <2>5. CASE call' = [call EXCEPT ![s] = NoCall]
    <3>1. PICK t \in Jwt : t = Signed(NoText) /\ t.text.iat = 0
      BY Now
    <3>2. /\ call' = [call EXCEPT ![s] = CallAt("idle", 0, {}, t)]
          /\ "idle" \in Pcs /\ {} \in SUBSET Words
      BY <2>5, <3>1, Now DEF Pcs
    <3>3. 0 <= clock /\ t.text.iat <= TokenTime(clock) /\ 0 \in Times
      BY <3>1, Now
    <3> QED BY <2>1, <2>2, <3>1, <3>2, <3>3, SharedKept, CallKeeps
  <2>6. ASSUME NEW pc \in Pcs, NEW words \in SUBSET Words,
               call' = [call EXCEPT ![s] = CallAt(pc, call[s].since, words, call[s].token)]
        PROVE  TokenInv'
    <3>1. call' = [call EXCEPT ![s] = CallAt(pc, since, words, token)]
      BY <2>3, <2>6
    <3> QED BY <2>1, <2>2, <2>3, <2>4, <3>1, SharedKept, CallKeeps
  <2>7. /\ call[s].words \ {word} \in SUBSET Words /\ {} \in SUBSET Words
        /\ "stamp" \in Pcs /\ call[s].pc \in Pcs
    BY SharedKept DEF Pcs
  <2> QED BY <1>5, <2>5, <2>6, <2>7, StoreJwtCall
<1>6. ASSUME NEW word \in Words, ReadJwt(s, word) PROVE TokenInv'
  <2>1. PICK token \in Jwt :
          /\ token.text = IF word = "text" THEN jwt.text ELSE call[s].token.text
          /\ token.len = IF word = "len" THEN jwt.len ELSE call[s].token.len
          /\ call' = [call EXCEPT ![s] =
                        CallAt(IF call[s].words = {word} THEN "sending" ELSE "read",
                               call[s].since, call[s].words \ {word}, token)]
    BY <1>6, ReadJwtCall
  <2>2. PICK pc \in Pcs, since \in Times, words \in SUBSET Words :
          /\ pc = IF call[s].words = {word} THEN "sending" ELSE "read"
          /\ since = call[s].since /\ words = call[s].words \ {word}
    BY SharedKept DEF Pcs
  <2>3. call' = [call EXCEPT ![s] = CallAt(pc, since, words, token)]
    BY <2>1, <2>2
  <2>4. /\ since <= clock /\ token.text.iat <= TokenTime(clock) /\ clock <= since + Patience
        /\ UNCHANGED <<clock, jwt, issuedAt, overlap>>
    BY <1>6, <2>1, <2>2, SharedKept DEF ReadJwt, At
  <2>5. /\ jwt' \in Jwt /\ jwt'.text.iat <= TokenTime(clock)
        /\ issuedAt' \in Times /\ issuedAt' <= TokenTime(clock) /\ overlap' \in BOOLEAN
    BY <2>4, SharedKept
  <2>6. token \in Jwt /\ pc \in Pcs /\ since \in Times /\ words \in SUBSET Words
    BY <2>1, <2>2
  <2> QED BY <2>3, <2>4, <2>5, <2>6, CallKeeps
<1>7. CASE SendReturns(s)
  <2>1. PICK t \in Jwt : t = Signed(NoText) /\ t.text.iat = 0
    BY Now
  <2>2. /\ call' = [call EXCEPT ![s] = CallAt("idle", 0, {}, t)]
        /\ "idle" \in Pcs /\ {} \in SUBSET Words
        /\ UNCHANGED <<clock, jwt, issuedAt, overlap>>
    BY <1>7, <2>1, Now DEF Pcs, SendReturns
  <2>3. 0 <= clock /\ t.text.iat <= TokenTime(clock) /\ 0 \in Times
    BY <2>1, Now
  <2> QED BY <2>1, <2>2, <2>3, SharedKept, CallKeeps
<1> QED BY <1>1, <1>2, <1>3, <1>4, <1>5, <1>6, <1>7

(* Time passes, but not over a call that has lasted Patience.               *)
LEMMA TickKeepsTypes ==
  ASSUME TokenInv, Tick
  PROVE  /\ TokenInv' /\ clock' = clock + 1 /\ TokenTime(clock) <= TokenTime(clock')
         /\ UNCHANGED <<jwt, issuedAt, call, overlap>>
<1>1. clock' = clock + 1 /\ UNCHANGED <<jwt, issuedAt, call, overlap>> /\ clock < MaxClock
  BY DEF Tick
<1>2. clock \in Int /\ 0 <= clock /\ MaxClock \in Nat
  BY DurationsAssumption, Now DEF Times
<1>3. clock' \in Times /\ clock' \in Int /\ clock <= clock'
  BY <1>1, <1>2 DEF Times
<1>4. TokenTime(clock) <= TokenTime(clock') /\ TokenTime(clock') \in Int
  BY <1>2, <1>3, TokenTimeGrows, TokenTimeBounds
<1>5. TokenTime(clock)' = TokenTime(clock')
  BY DEF TokenTime
<1>6. /\ issuedAt \in Int /\ jwt.text.iat \in Int
      /\ \A s \in Senders : call[s].token.text.iat \in Int /\ call[s].since \in Int
  BY SharedKept, Now DEF Jwt, Text, Times
<1>7. TokenTypeOK'
  <2>1. issuedAt <= clock' /\ jwt.text.iat <= clock'
    BY <1>1, <1>2, <1>6 DEF TokenInv, TokenTypeOK
  <2>2. ASSUME NEW s \in Senders
        PROVE  /\ call[s].since <= clock' /\ call[s].token.text.iat <= clock'
               /\ call[s].pc # "idle" => clock' <= call[s].since + Patience
    <3>1. call[s].since <= clock /\ call[s].token.text.iat <= clock
      BY DEF TokenInv, TokenTypeOK
    <3>2. call[s].pc # "idle" => clock < call[s].since + Patience
      BY DEF Tick, At
    <3>3. Patience \in Nat
      BY DurationsAssumption
    <3> QED BY <1>1, <1>2, <1>6, <3>1, <3>2, <3>3
  <2> QED BY <1>1, <1>3, <2>1, <2>2 DEF TokenInv, TokenTypeOK, At
<1>8. NotTooRecent'
  <2>1. clock' >= Lag + Slot
    BY <1>1, <1>2, Now DEF TokenInv, NotTooRecent
  <2>2. issuedAt <= TokenTime(clock') /\ jwt.text.iat <= TokenTime(clock')
    BY <1>4, <1>6, SharedKept, Now
  <2>3. \A s \in Senders : call[s].token.text.iat <= TokenTime(clock')
    BY <1>4, <1>6, SharedKept, Now
  <2> QED BY <1>1, <1>5, <2>1, <2>2, <2>3 DEF NotTooRecent
<1> QED BY <1>1, <1>4, <1>7, <1>8 DEF TokenInv

LEMMA NextTokenInv == TokenInv /\ [Next]_vars => TokenInv'
<1> SUFFICES ASSUME TokenInv, [Next]_vars PROVE TokenInv'
  OBVIOUS
<1>1. CASE UNCHANGED vars
  BY <1>1 DEF vars, TokenInv, TokenTypeOK, NotTooRecent, At, TokenTime
<1>2. CASE Tick
  BY <1>2, TickKeepsTypes
<1> QED BY <1>1, <1>2, SenderKeepsTypes DEF Next

(* The type invariant: in particular no token has a time in the future, and *)
(* a call lasts no longer than Patience.                                    *)
THEOREM TokenTypes == Spec => []TokenTypeOK
<1>1. TokenInv => TokenTypeOK
  BY DEF TokenInv
<1> QED BY <1>1, InitTokenInv, NextTokenInv, PTL DEF Spec
-----------------------------------------------------------------------------
(* What a race may cost: a slot, and no more.                               *)

(* The times that the inequalities are about are integers.                  *)
LEMMA TimesAre ==
  ASSUME TokenInv
  PROVE  /\ jwt.text.iat \in Int
         /\ \A s \in Senders : /\ call[s].token.text.iat \in Int /\ call[s].since \in Int
                               /\ TokenTime(call[s].since) \in Int
                               /\ call[s].since < TokenTime(call[s].since) + Lag + Slot
         /\ \A token \in Jwt : token.text.iat \in Int
         /\ \A time \in Times : time \in Int
         /\ \A s \in Senders : ~At(s, "idle") =>
              /\ TokenTime(call[s].since) <= TokenTime(clock)
              /\ TokenTime(clock) <= TokenTime(call[s].since) + Slot
         /\ Lag + Slot <= Refresh /\ clock < TokenTime(clock) + Lag + Slot
<1>1. \A time \in Times : time \in Int
  BY DEF Times
<1>2. \A token \in Jwt : token.text.iat \in Int
  BY Now DEF Jwt, Text, Times
<1>3. /\ jwt.text.iat \in Int
      /\ \A s \in Senders : call[s].token.text.iat \in Int /\ call[s].since \in Int
  BY <1>1, <1>2, SharedKept
<1>4. ASSUME NEW s \in Senders
      PROVE  /\ TokenTime(call[s].since) \in Int
             /\ call[s].since < TokenTime(call[s].since) + Lag + Slot
  BY <1>3, TokenTimeBounds
<1>5. ASSUME NEW s \in Senders, ~At(s, "idle")
      PROVE  /\ TokenTime(call[s].since) <= TokenTime(clock)
             /\ TokenTime(clock) <= TokenTime(call[s].since) + Slot
  <2>1. PICK a \in Int, b \in Int : a = call[s].since /\ b = clock
    BY <1>3, Now
  <2>2. a <= b /\ b <= a + Patience
    BY <1>5, <2>1, SharedKept DEF At
  <2>3. Patience <= Slot /\ Patience \in Int /\ Slot \in Int
    BY DurationsAssumption
  <2>4. b <= a + Slot
    BY <2>1, <2>2, <2>3
  <2> QED BY <2>1, <2>2, <2>4, TokenTimeGrows, TokenTimeSteps
<1>6. Lag + Slot <= Refresh /\ clock < TokenTime(clock) + Lag + Slot
  BY DurationsAssumption, Now, TokenTimeBounds
<1> QED BY <1>1, <1>2, <1>3, <1>4, <1>5, <1>6

(* A step that leaves the shared fields alone changes what holds of its     *)
(* sender only.                                                             *)
LEMMA RaceOfOthers ==
  ASSUME RaceInv, NEW s \in Senders, UNCHANGED <<jwt, issuedAt>>,
         \A t \in Senders \ {s} : call'[t] = call[t],
         RaceOf(s)'
  PROVE  RaceInv'
<1>1. ASSUME NEW t \in Senders \ {s} PROVE RaceOf(t)'
  BY <1>1 DEF RaceInv, RaceOf, Pending, HasStored, HasRead, MayRead, At, TokenTime
<1>2. AtMostOneSlotBehind'
  BY DEF RaceInv, AtMostOneSlotBehind
<1> QED BY <1>1, <1>2 DEF RaceInv
LEMMA SenderKeepsRace ==
  ASSUME TokenInv, RaceInv, NEW s \in Senders,
         \/ CheckToken(s) \/ CreateJWT(s) \/ CreateJWTFails(s) \/ Stamp(s)
         \/ \E word \in Words : StoreJwt(s, word) \/ ReadJwt(s, word)
         \/ SendReturns(s)
  PROVE  RaceInv'
<1> USE DEF Pending, HasStored, HasRead, MayRead, At
<1>0. RaceOf(s)
  BY DEF RaceInv
<1>1. CASE CheckToken(s)
  <2>a. PICK pc, words : /\ pc = IF Stale THEN "issue" ELSE "read"
                         /\ words = IF Stale THEN {} ELSE Words
    OBVIOUS
  <2>b. call' = [call EXCEPT ![s] = CallAt(pc, clock, words, Signed(NoText))]
    BY <1>1, <2>a, CheckTokenCall
  <2>c. /\ call'[s].pc = pc /\ call'[s].since = clock /\ call'[s].words = words
        /\ call'[s].token = Signed(NoText)
        /\ \A t \in Senders \ {s} : call'[t] = call[t]
    BY <2>b, CallTyped DEF CallAt
  <2>1. /\ call'[s].pc = IF Stale THEN "issue" ELSE "read"
        /\ call'[s].since = clock /\ call'[s].token = Signed(NoText)
        /\ call'[s].words = IF Stale THEN {} ELSE Words
        /\ \A t \in Senders \ {s} : call'[t] = call[t]
    BY <2>a, <2>c
  <2>2. UNCHANGED <<jwt, issuedAt>> /\ "text" \in Words
    BY <1>1 DEF CheckToken, Words
  <2>3. ASSUME ~Stale, jwt.text # NoText PROVE jwt.text.iat + Slot + Refresh >= clock
    BY <2>3, Now, TimesAre DEF RaceInv, AtMostOneSlotBehind, Stale
  <2>4. RaceOf(s)'
    BY <2>1, <2>2, <2>3, Now DEF RaceOf
  <2> QED BY <2>1, <2>2, <2>4, RaceOfOthers
<1>2. CASE CreateJWT(s)
  <2>1. PICK size \in Sizes :
          call' = [call EXCEPT ![s] =
                     CallAt("store", call[s].since, Words,
                            Signed([iat |-> TokenTime(clock), size |-> size]))]
    BY <1>2, CreateJWTCall
  <2>2. /\ call'[s].pc = "store" /\ call'[s].since = call[s].since
        /\ call'[s].words = Words
        /\ call'[s].token = Signed([iat |-> TokenTime(clock), size |-> size])
        /\ \A t \in Senders \ {s} : call'[t] = call[t]
    BY <2>1, CallTyped DEF CallAt
  <2>3. call'[s].token.text.iat = TokenTime(clock)
    BY <2>2 DEF Signed
  <2>4. TokenTime(call[s].since) <= TokenTime(clock)
    BY <1>2, TimesAre DEF CreateJWT
  <2>5. UNCHANGED <<jwt, issuedAt>> /\ "text" \in Words
    BY <1>2 DEF CreateJWT, Words
  <2>6. TokenTime(call[s].since)' = TokenTime(call[s].since)
    BY <2>2 DEF TokenTime
  <2>7. RaceOf(s)'
    BY <2>2, <2>3, <2>4, <2>5, <2>6 DEF RaceOf
  <2> QED BY <2>2, <2>5, <2>7, RaceOfOthers
<1>3. CASE CreateJWTFails(s)
  <2>1. call' = [call EXCEPT ![s] = CallAt("wipe", call[s].since, Words, call[s].token)]
    BY <1>3, GotoCall DEF CreateJWTFails
  <2>2. /\ call'[s].pc = "wipe" /\ call'[s].token = call[s].token
        /\ \A t \in Senders \ {s} : call'[t] = call[t]
    BY <2>1, CallTyped DEF CallAt
  <2>3. UNCHANGED <<jwt, issuedAt>> /\ call[s].pc = "issue"
    BY <1>3 DEF CreateJWTFails
  <2>4. RaceOf(s)'
    BY <1>0, <2>2, <2>3 DEF RaceOf
  <2> QED BY <2>2, <2>3, <2>4, RaceOfOthers
<1>4. CASE Stamp(s)
  <2>1. call' = [call EXCEPT ![s] = CallAt("read", call[s].since, Words, call[s].token)]
    BY <1>4, GotoCall DEF Stamp
  <2>2. /\ call'[s].pc = "read" /\ call'[s].token = call[s].token
        /\ call'[s].since = call[s].since /\ call'[s].words = Words
        /\ \A t \in Senders \ {s} : call'[t] = call[t]
    BY <2>1, CallTyped DEF CallAt
  <2>3. /\ jwt' = jwt /\ issuedAt' = call[s].token.text.iat /\ call[s].pc = "stamp"
        /\ "text" \in Words
    BY <1>4 DEF Stamp, StampTime, Words
  <2>4. /\ call[s].token.text.iat >= TokenTime(call[s].since)
        /\ jwt.text # NoText => jwt.text.iat + Slot >= call[s].token.text.iat
    BY <1>0, <2>3 DEF RaceOf
  <2>5. AtMostOneSlotBehind'
    BY <2>3, <2>4, Now, TimesAre DEF AtMostOneSlotBehind
  <2>6. jwt.text # NoText => jwt.text.iat + Slot + Refresh >= call[s].since
    BY <2>4, Now, TimesAre
  <2>7. RaceOf(s)'
    BY <2>2, <2>3, <2>6 DEF RaceOf
  <2>8. ASSUME NEW t \in Senders \ {s} PROVE RaceOf(t)'
    BY <2>2, <2>3, <2>8 DEF RaceInv, RaceOf, TokenTime
  <2> QED BY <2>5, <2>7, <2>8 DEF RaceInv
<1>5. ASSUME NEW word \in Words, StoreJwt(s, word) PROVE RaceInv'
  <2>1. /\ jwt'.text = IF word = "text" THEN call[s].token.text ELSE jwt.text
        /\ call[s].pc \in {"store", "wipe"} /\ issuedAt' = issuedAt
        /\ word \in call[s].words
    BY <1>5, StoreJwtCall DEF StoreJwt
  <2>2. /\ \/ /\ call'[s].pc = call[s].pc /\ call'[s].words = call[s].words \ {word}
              /\ call'[s].token = call[s].token /\ call'[s].since = call[s].since
           \/ /\ call[s].pc = "store" /\ call'[s].pc = "stamp" /\ call[s].words = {word}
              /\ call'[s].token = call[s].token /\ call'[s].since = call[s].since
           \/ call'[s].pc = "idle"
        /\ \A t \in Senders \ {s} : call'[t] = call[t]
    <3>1. CASE call' = [call EXCEPT ![s] = NoCall]
      <4>1. call' = [call EXCEPT ![s] = CallAt("idle", 0, {}, Signed(NoText))]
        BY <3>1, Now
      <4> QED BY <4>1, CallTyped DEF CallAt
    <3>2. CASE call' = [call EXCEPT ![s] = CallAt(call[s].pc, call[s].since,
                                                  call[s].words \ {word}, call[s].token)]
      BY <3>2, CallTyped DEF CallAt
    <3>3. CASE /\ call[s].words = {word} /\ At(s, "store")
               /\ call' = [call EXCEPT ![s] = CallAt("stamp", call[s].since, {},
                                                     call[s].token)]
      BY <3>3, CallTyped DEF CallAt
    <3> QED BY <1>5, <3>1, <3>2, <3>3, StoreJwtCall
  <2>3. TokenTime(call[s].since)' = TokenTime(call'[s].since)
    BY DEF TokenTime
  <2>4. CASE word = "text" /\ jwt'.text # NoText
    <3>1. PICK v \in Int : v = call[s].token.text.iat
      BY TimesAre
    <3>2. /\ jwt'.text.iat = v /\ call[s].pc = "store" /\ v >= TokenTime(call[s].since)
      BY <1>0, <2>1, <2>4, <3>1 DEF RaceOf
    <3>3. v + Slot >= TokenTime(clock)
      BY <3>1, <3>2, TimesAre, Now
    <3>4. AtMostOneSlotBehind'
      BY <2>1, <3>1, <3>2, <3>3, SharedKept, Now DEF AtMostOneSlotBehind
    <3>5. ASSUME NEW t \in Senders
          PROVE  /\ v + Slot >= call[t].token.text.iat
                 /\ v + Slot + Refresh >= call[t].since
      <4>1. call[t].token.text.iat <= TokenTime(clock) /\ call[t].since <= clock
        BY SharedKept
      <4> QED BY <3>1, <3>3, <4>1, TimesAre, Now
    <3>6. ASSUME NEW t \in Senders \ {s} PROVE RaceOf(t)'
      BY <2>2, <3>2, <3>5, <3>6 DEF RaceInv, RaceOf, TokenTime
    <3>7. RaceOf(s)'
      BY <1>0, <2>2, <2>3, <3>2, <3>5 DEF RaceOf
    <3> QED BY <3>4, <3>6, <3>7 DEF RaceInv
  <2>5. CASE word = "text" /\ jwt'.text = NoText
    <3>1. ASSUME NEW t \in Senders \ {s} PROVE RaceOf(t)'
      BY <2>2, <2>5, <3>1 DEF RaceInv, RaceOf, TokenTime
    <3>2. RaceOf(s)'
      BY <1>0, <2>1, <2>2, <2>3, <2>5 DEF RaceOf
    <3> QED BY <2>5, <3>1, <3>2 DEF RaceInv, AtMostOneSlotBehind
  <2>6. CASE word # "text"
    <3>1. jwt'.text = jwt.text
      BY <2>1, <2>6
    <3>2. ASSUME NEW t \in Senders \ {s} PROVE RaceOf(t)'
      BY <2>2, <3>1, <3>2 DEF RaceInv, RaceOf, TokenTime
    <3>3. RaceOf(s)'
      BY <1>0, <2>1, <2>2, <2>3, <2>6, <3>1 DEF RaceOf
    <3> QED BY <2>1, <3>1, <3>2, <3>3 DEF RaceInv, AtMostOneSlotBehind
  <2> QED BY <2>4, <2>5, <2>6
<1>6. ASSUME NEW word \in Words, ReadJwt(s, word) PROVE RaceInv'
  <2>1. PICK token \in Jwt :
          /\ token.text = IF word = "text" THEN jwt.text ELSE call[s].token.text
          /\ token.len = IF word = "len" THEN jwt.len ELSE call[s].token.len
          /\ call' = [call EXCEPT ![s] =
                        CallAt(IF call[s].words = {word} THEN "sending" ELSE "read",
                               call[s].since, call[s].words \ {word}, token)]
    BY <1>6, ReadJwtCall
  <2>2. /\ call'[s].pc = IF call[s].words = {word} THEN "sending" ELSE "read"
        /\ call'[s].since = call[s].since /\ call'[s].words = call[s].words \ {word}
        /\ call'[s].token = token
        /\ \A t \in Senders \ {s} : call'[t] = call[t]
    BY <2>1, CallTyped DEF CallAt
  <2>3. UNCHANGED <<jwt, issuedAt>> /\ call[s].pc = "read" /\ word \in call[s].words
    BY <1>6 DEF ReadJwt
  <2>4. RaceOf(s)'
    <3>1. CASE word = "text"
      <4>1. token.text = jwt.text /\ MayRead(s)
        BY <2>1, <2>3, <3>1
      <4> QED BY <1>0, <2>2, <2>3, <3>1, <4>1 DEF RaceOf
    <3>2. CASE word # "text"
      <4>1. token.text = call[s].token.text
        BY <2>1, <3>2
      <4> QED BY <1>0, <2>2, <2>3, <3>2, <4>1 DEF RaceOf
    <3> QED BY <3>1, <3>2
  <2> QED BY <2>2, <2>3, <2>4, RaceOfOthers
<1>7. CASE SendReturns(s)
  <2>1. call' = [call EXCEPT ![s] = CallAt("idle", 0, {}, Signed(NoText))]
    BY <1>7, Now DEF SendReturns
  <2>2. call'[s].pc = "idle" /\ \A t \in Senders \ {s} : call'[t] = call[t]
    BY <2>1, CallTyped DEF CallAt
  <2>3. UNCHANGED <<jwt, issuedAt>>
    BY <1>7 DEF SendReturns
  <2>4. RaceOf(s)'
    BY <2>2 DEF RaceOf
  <2> QED BY <2>2, <2>3, <2>4, RaceOfOthers
<1> QED BY <1>1, <1>2, <1>3, <1>4, <1>5, <1>6, <1>7
LEMMA InitRace == Init => RaceInv
<1> SUFFICES ASSUME Init PROVE RaceInv
  OBVIOUS
<1>1. TokenInv
  BY InitTokenInv
<1>2. \A s \in Senders : call[s].pc = "idle"
  BY DEF Init, NoCall
<1>3. \A s \in Senders : RaceOf(s)
  BY <1>2 DEF RaceOf, Pending, HasStored, HasRead, MayRead, At
<1>4. jwt.text.iat = issuedAt
  BY DEF Init, Signed
<1>5. AtMostOneSlotBehind
  BY <1>1, <1>4, Now DEF AtMostOneSlotBehind
<1> QED BY <1>3, <1>5 DEF RaceInv

LEMMA NextRace == TokenInv /\ RaceInv /\ [Next]_vars => RaceInv'
<1> SUFFICES ASSUME TokenInv, RaceInv, UNCHANGED <<jwt, issuedAt, call>>
             PROVE  RaceInv'
  BY SenderKeepsRace DEF Next, Tick, vars
<1> QED
  BY DEF RaceInv, AtMostOneSlotBehind, RaceOf, Pending, HasStored, HasRead, MayRead, At,
     TokenTime

(* However senders race, the recorded time is at most a slot ahead of the   *)
(* token (client.go:115-148).                                               *)
THEOREM OneSlotBehind == Spec => []AtMostOneSlotBehind
<1>1. RaceInv => AtMostOneSlotBehind
  BY DEF RaceInv
<1> QED
  BY <1>1, InitTokenInv, NextTokenInv, InitRace, NextRace, PTL DEF Spec

(* No request carries a token of less than Lag or more than an hour and a   *)
(* slot ago, whatever overlaps.                                             *)
THEOREM AgeBounded == Spec => []OverlapBoundsAge
<1>1. TokenInv /\ RaceInv => OverlapBoundsAge
  <2> SUFFICES ASSUME TokenInv, RaceInv, NEW s \in Senders, Sending(s),
                      call[s].token.text # NoText
               PROVE  Age(s) \in Lag..(Hour + Slot)
    BY DEF OverlapBoundsAge
  <2>1. PICK v \in Int, since \in Int, now \in Int :
          v = call[s].token.text.iat /\ since = call[s].since /\ now = clock
    BY TimesAre, Now
  <2>2. v + Slot + Refresh >= since
    BY <2>1 DEF RaceInv, RaceOf, HasRead, Sending
  <2>3. now <= since + Patience /\ v <= TokenTime(clock)
    BY <2>1, SharedKept DEF Sending, At
  <2>4. TokenTime(clock) \in Int /\ TokenTime(clock) <= now - Lag
    BY <2>1, TokenTimeBounds
  <2>5. /\ Refresh + Patience <= Hour /\ Lag \in Int /\ Slot \in Int /\ Refresh \in Int
        /\ Patience \in Int /\ Hour \in Int
    BY DurationsAssumption
  <2>6. Lag <= now - v /\ now - v <= Hour + Slot
    BY <2>2, <2>3, <2>4, <2>5
  <2> QED BY <2>1, <2>5, <2>6 DEF Age
<1> QED
  BY <1>1, InitTokenInv, NextTokenInv, InitRace, NextRace, PTL DEF Spec
-----------------------------------------------------------------------------
(* Without a race.                                                          *)

(* While a sender is busy with something else, nobody issues.               *)
LEMMA NobodyIssues ==
  ASSUME Sound, NEW s \in Senders, ~At(s, "idle"), ~Issuing(s)
  PROVE  /\ \A t \in Senders : ~Issuing(t)
         /\ Whole(jwt) /\ IF jwt.text = NoText THEN Stale ELSE jwt.text.iat = issuedAt
<1>1. ASSUME NEW t \in Senders, Issuing(t) PROVE FALSE
  <2>1. Alone(t) /\ t # s
    BY <1>1 DEF Sound, SoundIssue
  <2> QED BY <2>1 DEF Alone
<1> QED BY <1>1 DEF Sound, SoundAtRest

(* A sender that is idle has nothing to keep to.                            *)
LEMMA IdleIsSound ==
  ASSUME NEW s \in Senders, call'[s].pc = "idle"
  PROVE  SoundIssue(s)' /\ SoundRead(s)'
BY DEF SoundIssue, SoundRead, Issuing, Pending, At

(* A step of one sender that leaves the shared fields and the clock alone.  *)
LEMMA SoundOthers ==
  ASSUME Sound, NEW s \in Senders, UNCHANGED <<jwt, issuedAt, clock>>,
         \A t \in Senders \ {s} : call'[t] = call[t],
         Issuing(s) => Issuing(s)' \/ (Whole(jwt) /\ jwt.text = NoText /\ Stale),
         \A t \in Senders \ {s} : Issuing(t) => call'[s].pc = "idle",
         SoundIssue(s)', SoundRead(s)'
  PROVE  Sound'
<1>1. ASSUME NEW t \in Senders \ {s} PROVE SoundIssue(t)' /\ SoundRead(t)'
  <2>1. Alone(t)' <=> \A u \in Senders \ {t} : call'[u].pc = "idle"
    BY DEF Alone, At
  <2>2. Issuing(t) => Alone(t)'
    <3>1. Issuing(t) => Alone(t)
      BY <1>1 DEF Sound, SoundIssue
    <3> QED BY <1>1, <2>1, <3>1 DEF Alone, At
  <2>3. SoundIssue(t) /\ SoundRead(t) /\ call'[t] = call[t]
    BY <1>1 DEF Sound
  <2>4. SoundIssue(t)'
    BY <2>2, <2>3 DEF SoundIssue, Issuing, Pending, At, Stale
  <2>5. SoundRead(t)'
    BY <2>3 DEF SoundRead, At
  <2> QED BY <2>4, <2>5
<1>2. SoundAtRest'
  <2> SUFFICES ASSUME \A t \in Senders : ~(call'[t].pc \in {"issue", "store", "wipe", "stamp"})
               PROVE  Whole(jwt) /\ IF jwt.text = NoText THEN Stale ELSE jwt.text.iat = issuedAt
    BY DEF SoundAtRest, Whole, Stale, Issuing
  <2>1. \A t \in Senders \ {s} : ~Issuing(t)
    BY DEF Issuing
  <2>2. CASE Issuing(s)
    <3>1. ~Issuing(s)'
      BY DEF Issuing
    <3> QED BY <2>2, <3>1
  <2>3. CASE ~Issuing(s)
    BY <2>1, <2>3 DEF Sound, SoundAtRest
  <2> QED BY <2>2, <2>3
<1> QED BY <1>1, <1>2 DEF Sound
(* A sender that issues is alone, so that nothing but its own call counts.  *)
LEMMA SoundAlone ==
  ASSUME Sound, NEW s \in Senders, Issuing(s),
         \A t \in Senders \ {s} : call'[t] = call[t],
         Issuing(s)' \/ SoundAtRest', SoundIssue(s)', SoundRead(s)'
  PROVE  Sound'
<1>1. ASSUME NEW t \in Senders \ {s} PROVE SoundIssue(t)' /\ SoundRead(t)'
  <2>1. call'[t].pc = "idle"
    BY <1>1 DEF Sound, SoundIssue, Alone, At
  <2> QED BY <1>1, <2>1, IdleIsSound
<1>2. SoundAtRest'
  BY DEF SoundAtRest
<1> QED BY <1>1, <1>2 DEF Sound

(* The signed token has a size, so that it is not the empty one.            *)
LEMMA SignedNotEmpty ==
  ASSUME NEW iat, NEW size \in Sizes, NEW token,
         token = Signed([iat |-> iat, size |-> size])
  PROVE  Whole(token) /\ token.text # NoText /\ token.text.iat = iat
<1>1. size # 0
  BY DurationsAssumption
<1> QED BY <1>1 DEF Signed, Whole, NoText

LEMMA CheckTokenSound ==
  ASSUME TokenInv, Sound, NEW s \in Senders, CheckToken(s), ~overlap'
  PROVE  Sound'
<1>1. PICK pc, words : /\ pc = IF Stale THEN "issue" ELSE "read"
                       /\ words = IF Stale THEN {} ELSE Words
  OBVIOUS
<1>2. call' = [call EXCEPT ![s] = CallAt(pc, clock, words, Signed(NoText))]
  BY <1>1, CheckTokenCall
<1>3. /\ call'[s].pc = pc /\ call'[s].since = clock /\ call'[s].words = words
      /\ call'[s].token = Signed(NoText)
      /\ \A t \in Senders \ {s} : call'[t] = call[t]
  BY <1>2, CallTyped DEF CallAt
<1>4. /\ \A t \in Senders \ {s} : ~Issuing(t)
      /\ Stale => \A t \in Senders \ {s} : At(t, "idle")
      /\ UNCHANGED <<clock, jwt, issuedAt>> /\ At(s, "idle")
  BY DEF CheckToken
<1>5. ~Issuing(s)
  BY <1>4 DEF Issuing, At
<1>6. Whole(jwt) /\ IF jwt.text = NoText THEN Stale ELSE jwt.text.iat = issuedAt
  BY <1>4, <1>5 DEF Sound, SoundAtRest
<1>7. CASE Stale
  <2>1. call'[s].pc = "issue" /\ Alone(s)' /\ Stale'
    BY <1>1, <1>3, <1>4, <1>7 DEF Alone, At, Stale
  <2>2. SoundIssue(s)' /\ SoundRead(s)'
    BY <1>3, <2>1 DEF SoundIssue, SoundRead, Pending, Issuing, At
  <2> QED BY <1>3, <1>4, <1>5, <2>2, SoundOthers
<1>8. CASE ~Stale
  <2>1. call'[s].pc = "read" /\ call'[s].words = Words
    BY <1>1, <1>3, <1>8
  <2>2. jwt.text # NoText /\ issuedAt + Refresh >= clock
    BY <1>6, <1>8, Now DEF Stale
  <2>3. SoundIssue(s)' /\ SoundRead(s)'
    BY <1>3, <1>4, <2>1, <2>2 DEF SoundIssue, SoundRead, Pending, Issuing, At, Words
  <2> QED BY <1>3, <1>4, <1>5, <2>3, SoundOthers
<1> QED BY <1>7, <1>8

LEMMA IssueSound ==
  ASSUME TokenInv, Sound, NEW s \in Senders, CreateJWT(s) \/ CreateJWTFails(s)
  PROVE  Sound'
<1>1. /\ call[s].pc = "issue" /\ Stale /\ call[s].token = Signed(NoText) /\ Alone(s)
      /\ Issuing(s) /\ UNCHANGED <<clock, jwt, issuedAt>>
  BY DEF Sound, SoundIssue, Issuing, At, CreateJWT, CreateJWTFails
<1>2. CASE CreateJWT(s)
  <2>1. PICK size \in Sizes :
          call' = [call EXCEPT ![s] =
                     CallAt("store", call[s].since, Words,
                            Signed([iat |-> TokenTime(clock), size |-> size]))]
    BY <1>2, CreateJWTCall
  <2>2. PICK since, token : /\ since = call[s].since
                            /\ token = Signed([iat |-> TokenTime(clock), size |-> size])
    OBVIOUS
  <2>3. call' = [call EXCEPT ![s] = CallAt("store", since, Words, token)]
    BY <2>1, <2>2
  <2>4. /\ call'[s].pc = "store" /\ call'[s].words = Words /\ call'[s].token = token
        /\ \A t \in Senders \ {s} : call'[t] = call[t]
    BY <2>3, CallTyped DEF CallAt
  <2>5. Whole(token) /\ token.text # NoText
    BY <2>1, <2>2, SignedNotEmpty
  <2>6. SoundIssue(s)' /\ SoundRead(s)' /\ Issuing(s)'
    BY <1>1, <2>4, <2>5
    DEF SoundIssue, SoundRead, Pending, Issuing, At, Alone, Words, Whole
  <2> QED BY <1>1, <2>4, <2>6, SoundAlone
<1>3. CASE CreateJWTFails(s)
  <2>1. call' = [call EXCEPT ![s] = CallAt("wipe", call[s].since, Words, call[s].token)]
    BY <1>3, GotoCall DEF CreateJWTFails
  <2>2. /\ call'[s].pc = "wipe" /\ call'[s].words = Words
        /\ call'[s].token = call[s].token
        /\ \A t \in Senders \ {s} : call'[t] = call[t]
    BY <2>1, CallTyped DEF CallAt
  <2>3. Stale'
    BY <1>1 DEF Stale
  <2>4. SoundIssue(s)' /\ SoundRead(s)' /\ Issuing(s)'
    BY <1>1, <2>2, <2>3 DEF SoundIssue, SoundRead, Pending, Issuing, At, Alone, Words
  <2> QED BY <1>1, <2>2, <2>4, SoundAlone
<1> QED BY <1>2, <1>3

LEMMA StoreJwtSound ==
  ASSUME TokenInv, Sound, NEW s \in Senders, NEW word \in Words, StoreJwt(s, word)
  PROVE  Sound'
<1>1. /\ call[s].pc \in {"store", "wipe"} /\ word \in call[s].words
      /\ UNCHANGED <<clock, issuedAt>> /\ Issuing(s) /\ Alone(s)
  BY DEF StoreJwt, Issuing, Sound, SoundIssue
<1>2. /\ jwt' \in Jwt
      /\ jwt'.text = IF word = "text" THEN call[s].token.text ELSE jwt.text
      /\ jwt'.len = IF word = "len" THEN call[s].token.len ELSE jwt.len
  BY StoreJwtCall
<1>3. /\ "text" \notin call[s].words \ {word} => jwt'.text = call[s].token.text
      /\ "len" \notin call[s].words \ {word} => jwt'.len = call[s].token.len
      /\ call[s].pc = "wipe" => Stale /\ call[s].token = Signed(NoText)
      /\ call[s].pc = "store" => Whole(call[s].token) /\ call[s].token.text # NoText
      /\ SoundIssue(s)
  BY <1>1, <1>2 DEF Sound, SoundIssue, At, Pending
<1>4. Stale' <=> Stale
  BY <1>1 DEF Stale
<1>5. CASE call' = [call EXCEPT ![s] = CallAt(call[s].pc, call[s].since,
                                              call[s].words \ {word}, call[s].token)]
  <2>1. /\ call'[s].pc = call[s].pc /\ call'[s].words = call[s].words \ {word}
        /\ call'[s].token = call[s].token
        /\ \A t \in Senders \ {s} : call'[t] = call[t]
    BY <1>5, CallTyped DEF CallAt
  <2>2. Issuing(s)' /\ Alone(s)'
    BY <1>1, <2>1 DEF Issuing, Alone, At
  <2>3. SoundIssue(s)'
    BY <1>1, <1>3, <1>4, <2>1, <2>2 DEF SoundIssue, Pending, At, Whole
  <2>4. SoundRead(s)'
    BY <1>1, <2>1 DEF SoundRead, At
  <2> QED BY <1>1, <2>1, <2>2, <2>3, <2>4, SoundAlone
<1>6. ASSUME call[s].words = {word} PROVE jwt' = call[s].token
  <2>1. jwt'.text = call[s].token.text /\ jwt'.len = call[s].token.len
    BY <1>3, <1>6
  <2>2. call[s].token \in Jwt
    BY CallTyped
  <2> QED BY <1>2, <2>1, <2>2 DEF Jwt
<1>7. CASE /\ call[s].words = {word} /\ At(s, "store")
           /\ call' = [call EXCEPT ![s] = CallAt("stamp", call[s].since, {}, call[s].token)]
  <2>1. /\ call'[s].pc = "stamp" /\ call'[s].token = call[s].token
        /\ \A t \in Senders \ {s} : call'[t] = call[t]
    BY <1>7, CallTyped DEF CallAt
  <2>2. Issuing(s)' /\ Alone(s)'
    BY <1>1, <2>1 DEF Issuing, Alone, At
  <2>3. SoundIssue(s)'
    BY <1>3, <1>6, <1>7, <2>1, <2>2 DEF SoundIssue, Pending, At, Whole
  <2>4. SoundRead(s)'
    BY <2>1 DEF SoundRead, At
  <2> QED BY <1>1, <2>1, <2>2, <2>3, <2>4, SoundAlone
<1>8. CASE /\ call[s].words = {word} /\ At(s, "wipe")
           /\ call' = [call EXCEPT ![s] = NoCall]
  <2>1. call'[s].pc = "idle" /\ \A t \in Senders \ {s} : call'[t] = call[t]
    BY <1>8, CallTyped DEF NoCall
  <2>2. jwt' = Signed(NoText) /\ Stale'
    BY <1>3, <1>4, <1>6, <1>8 DEF At
  <2>3. SoundAtRest'
    BY <2>2, Now DEF SoundAtRest, Whole, Signed
  <2> QED BY <1>1, <2>1, <2>3, IdleIsSound, SoundAlone
<1> QED BY <1>5, <1>7, <1>8, StoreJwtCall

LEMMA StampSound ==
  ASSUME TokenInv, RaceInv, Sound, NEW s \in Senders, Stamp(s)
  PROVE  Sound'
<1>1. /\ call[s].pc = "stamp" /\ Issuing(s) /\ Alone(s) /\ Whole(call[s].token)
      /\ call[s].token.text # NoText /\ jwt = call[s].token
      /\ UNCHANGED <<clock, jwt>> /\ issuedAt' = call[s].token.text.iat
  BY DEF Stamp, StampTime, Issuing, Sound, SoundIssue, Pending, At
<1>2. call' = [call EXCEPT ![s] = CallAt("read", call[s].since, Words, call[s].token)]
  BY GotoCall DEF Stamp
<1>3. /\ call'[s].pc = "read" /\ call'[s].token = call[s].token
      /\ call'[s].since = call[s].since /\ call'[s].words = Words
      /\ \A t \in Senders \ {s} : call'[t] = call[t]
  BY <1>2, CallTyped DEF CallAt
<1>4. issuedAt' + Refresh >= call[s].since
  <2>1. call[s].token.text.iat >= TokenTime(call[s].since)
    BY <1>1 DEF RaceInv, RaceOf, Pending, At
  <2> QED BY <1>1, <2>1, TimesAre, Now
<1>5. SoundAtRest'
  BY <1>1 DEF SoundAtRest, Whole
<1>6. SoundIssue(s)' /\ SoundRead(s)'
  BY <1>1, <1>3, <1>4 DEF SoundIssue, SoundRead, Issuing, Pending, At, Words
<1> QED BY <1>1, <1>3, <1>5, <1>6, SoundAlone

LEMMA ReadJwtSound ==
  ASSUME TokenInv, Sound, NEW s \in Senders, NEW word \in Words, ReadJwt(s, word)
  PROVE  Sound'
<1>1. PICK token \in Jwt :
        /\ token.text = IF word = "text" THEN jwt.text ELSE call[s].token.text
        /\ token.len = IF word = "len" THEN jwt.len ELSE call[s].token.len
        /\ call' = [call EXCEPT ![s] =
                      CallAt(IF call[s].words = {word} THEN "sending" ELSE "read",
                             call[s].since, call[s].words \ {word}, token)]
  BY ReadJwtCall
<1>2. /\ call'[s].pc = IF call[s].words = {word} THEN "sending" ELSE "read"
      /\ call'[s].since = call[s].since /\ call'[s].words = call[s].words \ {word}
      /\ call'[s].token = token
      /\ \A t \in Senders \ {s} : call'[t] = call[t]
  BY <1>1, CallTyped DEF CallAt
<1>3. /\ UNCHANGED <<jwt, issuedAt, clock>> /\ call[s].pc = "read" /\ word \in call[s].words
  BY DEF ReadJwt, At
<1>4. /\ \A t \in Senders : ~Issuing(t)
      /\ Whole(jwt) /\ jwt.text # NoText /\ jwt.text.iat = issuedAt
      /\ issuedAt + Refresh >= call[s].since
      /\ "text" \notin call[s].words => call[s].token.text = jwt.text
      /\ "len" \notin call[s].words => call[s].token.len = jwt.len
  <2>1. ~At(s, "idle") /\ ~Issuing(s) /\ SoundRead(s)
    BY <1>3 DEF At, Issuing, Sound
  <2>2. jwt.text # NoText
    BY <1>3, <2>1 DEF SoundRead, At
  <2> QED BY <1>3, <2>1, <2>2, NobodyIssues DEF SoundRead, At
<1>5. /\ "text" \notin call[s].words \ {word} => token.text = jwt.text
      /\ "len" \notin call[s].words \ {word} => token.len = jwt.len
  BY <1>1, <1>4
<1>6. SoundIssue(s)'
  BY <1>2 DEF SoundIssue, Issuing, Pending, At
<1>7. SoundRead(s)'
  BY <1>2, <1>3, <1>4, <1>5 DEF SoundRead, At, Whole
<1> QED BY <1>2, <1>3, <1>4, <1>6, <1>7, SoundOthers

LEMMA SendReturnsSound ==
  ASSUME TokenInv, Sound, NEW s \in Senders, SendReturns(s)
  PROVE  Sound'
<1>1. /\ UNCHANGED <<jwt, issuedAt, clock>> /\ call[s].pc = "sending"
      /\ call'[s].pc = "idle" /\ \A t \in Senders \ {s} : call'[t] = call[t]
  BY CallTyped DEF SendReturns, NoCall, At
<1>2. ~Issuing(s)
  BY <1>1 DEF Issuing
<1> QED BY <1>1, <1>2, IdleIsSound, SoundOthers

LEMMA TickSound ==
  ASSUME TokenInv, Sound, Tick
  PROVE  Sound'
<1>1. clock' = clock + 1 /\ UNCHANGED <<jwt, issuedAt, call>>
  BY DEF Tick
<1>2. Stale => Stale'
  BY <1>1, Now DEF Stale
<1>3. SoundAtRest'
  BY <1>1, <1>2 DEF Sound, SoundAtRest, Issuing
<1>4. ASSUME NEW s \in Senders PROVE SoundIssue(s)' /\ SoundRead(s)'
  BY <1>1, <1>2, <1>4 DEF Sound, SoundIssue, SoundRead, Issuing, Pending, Alone, At
<1> QED BY <1>3, <1>4 DEF Sound

LEMMA NextNoOverlap == TokenInv /\ RaceInv /\ NoOverlapInv /\ [Next]_vars => NoOverlapInv'
<1> SUFFICES ASSUME TokenInv, RaceInv, NoOverlapInv, [Next]_vars, ~overlap'
             PROVE  Sound'
  BY DEF NoOverlapInv
<1>1. CASE UNCHANGED vars
  BY <1>1 DEF vars, NoOverlapInv, Sound, SoundAtRest, SoundIssue, SoundRead, Issuing,
     Pending, Alone, At, Stale
<1>2. CASE Next
  <2>1. Sound
    BY <1>2 DEF NoOverlapInv, Next, CheckToken, CreateJWT, CreateJWTFails, Stamp, StoreJwt,
       ReadJwt, SendReturns, Tick
  <2> QED
    BY <1>2, <2>1, CheckTokenSound, IssueSound, StoreJwtSound, StampSound, ReadJwtSound,
       SendReturnsSound, TickSound DEF Next
<1> QED BY <1>1, <1>2

LEMMA InitNoOverlap == Init => NoOverlapInv
<1> SUFFICES ASSUME Init PROVE Sound
  BY DEF NoOverlapInv
<1>1. \A s \in Senders : call[s].pc = "idle"
  BY DEF Init, NoCall
<1>2. PICK size \in Sizes : jwt = Signed([iat |-> TokenTime(clock), size |-> size])
  BY DEF Init
<1>3. Whole(jwt) /\ jwt.text # NoText /\ jwt.text.iat = TokenTime(clock)
  BY <1>2, SignedNotEmpty
<1>4. SoundAtRest
  BY <1>3 DEF Init, SoundAtRest
<1>5. \A s \in Senders : SoundIssue(s) /\ SoundRead(s)
  BY <1>1 DEF SoundIssue, SoundRead, Issuing, Pending, At
<1> QED BY <1>4, <1>5 DEF Sound

(* As long as no issue has overlapped another sender's call, every request  *)
(* carries a whole token of a time between Lag and an hour ago, and the     *)
(* recorded time is that of the token: the races are the only way to a bad  *)
(* token (client.go:115-148).                                               *)
THEOREM SoundUnlessRaced == Spec => []SoundWithoutOverlap
<1>1. TokenInv /\ NoOverlapInv => SoundWithoutOverlap
  <2> SUFFICES ASSUME TokenInv, Sound, ~overlap PROVE SoundWithoutOverlap
    BY DEF NoOverlapInv, SoundWithoutOverlap
  <2>1. ASSUME NEW s \in Senders, Sending(s)
        PROVE  Whole(call[s].token) /\ Age(s) \in Lag..Hour
    <3>1. PICK v \in Int, since \in Int, now \in Int :
            v = call[s].token.text.iat /\ since = call[s].since /\ now = clock
      BY <2>1, TimesAre, Now
    <3>2. Whole(call[s].token) /\ v + Refresh >= since
      BY <2>1, <3>1 DEF Sound, SoundRead, Sending
    <3>3. now <= since + Patience /\ v <= TokenTime(clock)
      BY <2>1, <3>1, SharedKept DEF Sending, At
    <3>4. TokenTime(clock) \in Int /\ TokenTime(clock) <= now - Lag
      BY <3>1, TokenTimeBounds
    <3>5. /\ Refresh + Patience <= Hour /\ Lag \in Int /\ Refresh \in Int
          /\ Patience \in Int /\ Hour \in Int
      BY DurationsAssumption
    <3>6. Lag <= now - v /\ now - v <= Hour
      BY <3>2, <3>3, <3>4, <3>5
    <3> QED BY <3>1, <3>2, <3>5, <3>6 DEF Age
  <2>2. ASSUME \A s \in Senders : ~Issuing(s), jwt.text # NoText
        PROVE  jwt.text = [iat |-> issuedAt, size |-> jwt.len]
    <3>1. Whole(jwt) /\ jwt.text.iat = issuedAt
      BY <2>2 DEF Sound, SoundAtRest
    <3>2. jwt.text \in [iat : Times, size : Sizes]
      BY <2>2, SharedKept DEF Jwt, Text
    <3> QED BY <3>1, <3>2 DEF Whole
  <2> QED BY <2>1, <2>2 DEF SoundWithoutOverlap
<1> QED
  BY <1>1, InitTokenInv, NextTokenInv, InitRace, NextRace, InitNoOverlap, NextNoOverlap,
     PTL DEF Spec
=============================================================================
