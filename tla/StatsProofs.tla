----------------------------- MODULE StatsProofs -----------------------------
(***************************************************************************)
(* Proofs about the counters of srvStats, for every instance of the        *)
(* constants: each is bounded by sets of sends and of notifications, which  *)
(* grow by at most one element in a step.                                  *)
(***************************************************************************)
EXTENDS CopiesProofs

(* The notifications that have a request in a place of one of the kinds K.  *)
Holders(K) == {n \in Notifs : \E k \in K : \E r \in Held[k] : r.id = n}

(* All sends but the last of a notification that K holds: the sends whose   *)
(* answer a worker has read, or has done with.                              *)
SendsBut(K) == {x \in SendsMade : x[2] = wire[x[1]].sends => x[1] \notin Holders(K)}
(* The sends that were counted as retries and followed by another send, or  *)
(* will be, if the request is not lost.                                     *)
UnsentKinds == Kinds \ AnsweredKinds
Retried == {x \in SendsMade : x[2] = wire[x[1]].sends => x[1] \in Holders(UnsentKinds)}
With(f) == {n \in Notifs : fate[n] = f}

(* The inductive invariant: what is counted is between two such sets.       *)
Between(S, count, T) == Cardinality(S) <= count /\ count <= Cardinality(T)
StatsInv ==
    /\ IsFiniteSet(SendsMade) /\ IsFiniteSet(With("delivered")) /\ IsFiniteSet(With("rejected"))
    /\ Between(Retried, stats.retry, SendsBut(AnsweredKinds))
    /\ Between(With("delivered"), stats.sent, SendsBut({"respq"}))
    /\ Between(With("rejected"), stats.err, SendsBut({"respq"}))

-----------------------------------------------------------------------------
(* How a step changes a count *)

LEMMA SmallerSet ==
  ASSUME NEW S, NEW T, IsFiniteSet(T), S \subseteq T
  PROVE  /\ IsFiniteSet(S) /\ Cardinality(S) \in Nat /\ Cardinality(T) \in Nat
         /\ Cardinality(S) <= Cardinality(T)
BY FS_Subset, FS_CardinalityType

LEMMA GrowsByOne ==
  ASSUME NEW S, NEW T, NEW x, IsFiniteSet(S), T \subseteq S \cup {x}
  PROVE  /\ IsFiniteSet(T) /\ Cardinality(S) \in Nat /\ Cardinality(T) \in Nat
         /\ Cardinality(T) <= Cardinality(S) + 1
<1>1. /\ IsFiniteSet(S \cup {x}) /\ Cardinality(S) \in Nat /\ Cardinality(S \cup {x}) \in Nat
      /\ Cardinality(S \cup {x}) <= Cardinality(S) + 1
  <2>1. Cardinality(S) \in Nat
    BY FS_CardinalityType
  <2>2. /\ IsFiniteSet(S \cup {x})
        /\ \/ Cardinality(S \cup {x}) = Cardinality(S)
           \/ Cardinality(S \cup {x}) = Cardinality(S) + 1
    BY FS_AddElement
  <2> QED BY <2>1, <2>2
<1>2. /\ IsFiniteSet(T) /\ Cardinality(T) \in Nat
      /\ Cardinality(T) <= Cardinality(S \cup {x})
  BY <1>1, SmallerSet
<1> QED BY <1>1, <1>2

LEMMA HasOneMore ==
  ASSUME NEW S, NEW T, NEW x, IsFiniteSet(T), S \subseteq T, x \in T, x \notin S
  PROVE  /\ Cardinality(S) \in Nat /\ Cardinality(T) \in Nat
         /\ Cardinality(S) + 1 <= Cardinality(T)
<1>1. IsFiniteSet(S) /\ Cardinality(S) \in Nat
  BY SmallerSet
<1>2. IsFiniteSet(S \cup {x}) /\ Cardinality(S \cup {x}) = Cardinality(S) + 1
  BY <1>1, FS_AddElement
<1>3. S \cup {x} \subseteq T
  OBVIOUS
<1> QED BY <1>1, <1>2, <1>3, SmallerSet

(* A count stays between two sets when the lower shrinks and the upper      *)
(* grows ...                                                                *)
LEMMA BetweenKept ==
  ASSUME NEW S, NEW T, NEW S2, NEW T2, NEW c \in Nat, IsFiniteSet(S), IsFiniteSet(T2),
         Between(S, c, T), S2 \subseteq S, T \subseteq T2
  PROVE  IsFiniteSet(S2) /\ Between(S2, c, T2)
<1>1. /\ IsFiniteSet(S2) /\ Cardinality(S2) \in Nat /\ Cardinality(S) \in Nat
      /\ Cardinality(S2) <= Cardinality(S)
  BY SmallerSet
<1>2. /\ Cardinality(T) \in Nat /\ Cardinality(T2) \in Nat
      /\ Cardinality(T) <= Cardinality(T2)
  BY SmallerSet
<1> QED BY <1>1, <1>2 DEF Between

(* ... and when it may grow by one while the upper gets an element more and *)
(* the lower no more than the count does.                                   *)
LEMMA BetweenMayCount ==
  ASSUME NEW S, NEW T, NEW S2, NEW T2, NEW c \in Nat, IsFiniteSet(S), Between(S, c, T),
         Cardinality(T) \in Nat, Cardinality(T2) \in Nat,
         Cardinality(T) + 1 <= Cardinality(T2), S2 \subseteq S
  PROVE  IsFiniteSet(S2) /\ Between(S2, c, T2) /\ Between(S2, c + 1, T2)
<1>1. /\ IsFiniteSet(S2) /\ Cardinality(S2) \in Nat /\ Cardinality(S) \in Nat
      /\ Cardinality(S2) <= Cardinality(S)
  BY SmallerSet
<1> QED BY <1>1 DEF Between

LEMMA BetweenCounts ==
  ASSUME NEW S, NEW T, NEW S2, NEW T2, NEW c \in Nat, NEW x, IsFiniteSet(S),
         Between(S, c, T), Cardinality(T) \in Nat, Cardinality(T2) \in Nat,
         Cardinality(T) + 1 <= Cardinality(T2), S2 \subseteq S \cup {x}
  PROVE  IsFiniteSet(S2) /\ Between(S2, c + 1, T2)
<1>1. /\ IsFiniteSet(S2) /\ Cardinality(S2) \in Nat /\ Cardinality(S) \in Nat
      /\ Cardinality(S2) <= Cardinality(S) + 1
  BY GrowsByOne
<1> QED BY <1>1 DEF Between

(* All sets of sends are finite, in a state and after a step.               *)
LEMMA SendsFinite ==
  /\ \A K : SendsBut(K) \subseteq SendsMade
  /\ \A K : SendsBut(K)' \subseteq SendsMade'
  /\ Retried \subseteq SendsMade /\ Retried' \subseteq SendsMade'
BY DEF SendsBut, Retried

LEMMA WireTypes ==
  ASSUME TypeOK
  PROVE  /\ \A n \in Notifs : wire[n].sends \in Nat
         /\ stats \in [sent : Nat, err : Nat, retry : Nat]
         /\ SendRetryCount \in Nat
         /\ \A x \in SendsMade : x[1] \in Notifs /\ x[2] \in Nat /\ x[2] >= 1
                                 /\ x[2] <= wire[x[1]].sends /\ x = <<x[1], x[2]>>
BY SizesInNat DEF TypeOK, TypeHistory, SendsMade

(* What the invariant says of the counters before a step.                   *)
LEMMA CountersNow ==
  ASSUME TypeOK, StatsInv
  PROVE  /\ stats.retry \in Nat /\ stats.sent \in Nat /\ stats.err \in Nat
         /\ IsFiniteSet(SendsMade) /\ IsFiniteSet(Retried)
         /\ IsFiniteSet(With("delivered")) /\ IsFiniteSet(With("rejected"))
         /\ Between(Retried, stats.retry, SendsBut(AnsweredKinds))
         /\ Between(With("delivered"), stats.sent, SendsBut({"respq"}))
         /\ Between(With("rejected"), stats.err, SendsBut({"respq"}))
<1>1. stats.retry \in Nat /\ stats.sent \in Nat /\ stats.err \in Nat
  BY WireTypes
<1>2. IsFiniteSet(Retried)
  BY SendsFinite, SmallerSet DEF StatsInv
<1> QED BY <1>1, <1>2 DEF StatsInv

-----------------------------------------------------------------------------
(* The four kinds of steps *)

(* Only ns join what the kinds K hold, and only ns settle with fate f.      *)
Joins(K, ns) == Holders(K)' \subseteq Holders(K) \cup ns
Settles(f, ns) == {n \in Notifs : fate'[n] = f} \subseteq With(f) \cup ns
NeverSent == {n \in Notifs : wire[n].sends = 0}

LEMMA SendsButGrows ==
  ASSUME wire' = wire, NEW K, Joins(K, {})
  PROVE  SendsMade' = SendsMade /\ SendsBut(K) \subseteq SendsBut(K)'
<1>1. SendsMade' = SendsMade
  BY DEF SendsMade
<1>2. \A x \in SendsMade : x[1] \in Notifs
  BY DEF SendsMade
<1> QED BY <1>1, <1>2 DEF SendsBut, Joins

LEMMA RetriedShrinks ==
  ASSUME TypeOK, wire' = wire, Joins(UnsentKinds, NeverSent)
  PROVE  Retried' \subseteq Retried
<1>1. SendsMade' = SendsMade
  BY DEF SendsMade
<1> QED BY <1>1, WireTypes DEF Retried, Joins, NeverSent

(* A step that moves requests without counting anything.                    *)
LEMMA Uncounted ==
  ASSUME TypeOK, StatsInv, UNCHANGED <<wire, stats>>,
         Joins({"respq"}, {}), Joins(AnsweredKinds, {}), Joins(UnsentKinds, NeverSent),
         Settles("delivered", {}), Settles("rejected", {})
  PROVE  StatsInv'
<1>1. /\ SendsMade' = SendsMade /\ Retried' \subseteq Retried
      /\ SendsBut({"respq"}) \subseteq SendsBut({"respq"})'
      /\ SendsBut(AnsweredKinds) \subseteq SendsBut(AnsweredKinds)'
  BY SendsButGrows, RetriedShrinks
<1>2. With("delivered")' \subseteq With("delivered") /\ With("rejected")' \subseteq With("rejected")
  BY DEF Settles, With
<1>3. /\ IsFiniteSet(SendsMade') /\ IsFiniteSet(Retried)
      /\ IsFiniteSet(SendsBut({"respq"})') /\ IsFiniteSet(SendsBut(AnsweredKinds)')
  BY <1>1, SendsFinite, SmallerSet DEF StatsInv
<1>4. stats' = stats /\ stats.retry \in Nat /\ stats.sent \in Nat /\ stats.err \in Nat
  BY WireTypes
<1>5. Between(Retried', stats.retry, SendsBut(AnsweredKinds)')
  BY <1>1, <1>3, <1>4, CountersNow, BetweenKept
<1>6. /\ IsFiniteSet(With("delivered")')
      /\ Between(With("delivered")', stats.sent, SendsBut({"respq"})')
  <2>1. /\ IsFiniteSet(With("delivered")) /\ stats.sent \in Nat
        /\ Between(With("delivered"), stats.sent, SendsBut({"respq"}))
    BY CountersNow
  <2>2. /\ IsFiniteSet(SendsBut({"respq"})') /\ SendsBut({"respq"}) \subseteq SendsBut({"respq"})'
        /\ With("delivered")' \subseteq With("delivered")
    BY <1>1, <1>2, <1>3, <1>4
  <2> QED BY <2>1, <2>2, BetweenKept
<1>7. /\ IsFiniteSet(With("rejected")')
      /\ Between(With("rejected")', stats.err, SendsBut({"respq"})')
  <2>1. /\ IsFiniteSet(With("rejected")) /\ stats.err \in Nat
        /\ Between(With("rejected"), stats.err, SendsBut({"respq"}))
    BY CountersNow
  <2>2. /\ IsFiniteSet(SendsBut({"respq"})') /\ SendsBut({"respq"}) \subseteq SendsBut({"respq"})'
        /\ With("rejected")' \subseteq With("rejected")
    BY <1>1, <1>2, <1>3, <1>4
  <2> QED BY <2>1, <2>2, BetweenKept
<1>8. stats'.retry = stats.retry /\ stats'.sent = stats.sent /\ stats'.err = stats.err
  BY <1>4
<1> QED BY <1>3, <1>5, <1>6, <1>7, <1>8 DEF StatsInv

(* retry() counts a retry of m, whose answer is then done with.             *)
LEMMA CountsRetry ==
  ASSUME TypeOK, StatsInv, NEW m \in Notifs, wire' = wire,
         stats' = [stats EXCEPT !.retry = stats.retry + 1],
         m \in Holders(AnsweredKinds), m \notin Holders(AnsweredKinds)',
         wire[m].sends >= 1, wire[m].sends <= SendRetryCount + 1,
         Joins({"respq"}, {}), Joins(AnsweredKinds, {}), Joins(UnsentKinds, {m}),
         Settles("delivered", {}), Settles("rejected", {})
  PROVE  StatsInv'
<1> DEFINE last == <<m, wire[m].sends>>
<1>1. /\ SendsMade' = SendsMade
      /\ SendsBut({"respq"}) \subseteq SendsBut({"respq"})'
      /\ SendsBut(AnsweredKinds) \subseteq SendsBut(AnsweredKinds)'
  BY SendsButGrows
<1>2. With("delivered")' \subseteq With("delivered") /\ With("rejected")' \subseteq With("rejected")
  BY DEF Settles, With
<1>3. /\ IsFiniteSet(SendsMade') /\ IsFiniteSet(Retried)
      /\ IsFiniteSet(SendsBut({"respq"})') /\ IsFiniteSet(SendsBut(AnsweredKinds)')
  BY <1>1, SendsFinite, SmallerSet DEF StatsInv
<1>4. /\ stats.retry \in Nat /\ stats.sent \in Nat /\ stats.err \in Nat
      /\ stats'.retry = stats.retry + 1 /\ stats'.sent = stats.sent /\ stats'.err = stats.err
  BY WireTypes
<1>5. last \in SendsMade /\ last[1] = m /\ last[2] = wire[m].sends
  BY WireTypes DEF SendsMade
<1>6. last \in SendsBut(AnsweredKinds)' /\ last \notin SendsBut(AnsweredKinds)
  BY <1>1, <1>5 DEF SendsBut
<1>7. Retried' \subseteq Retried \cup {last}
  BY <1>1, WireTypes DEF Retried, Joins
<1>8. Between(Retried', stats'.retry, SendsBut(AnsweredKinds)')
  <2>1. /\ IsFiniteSet(Retried) /\ stats.retry \in Nat
        /\ Between(Retried, stats.retry, SendsBut(AnsweredKinds))
    BY CountersNow
  <2>2. /\ Cardinality(SendsBut(AnsweredKinds)) \in Nat /\ Cardinality(SendsBut(AnsweredKinds)') \in Nat
        /\ Cardinality(SendsBut(AnsweredKinds)) + 1 <= Cardinality(SendsBut(AnsweredKinds)')
    BY <1>1, <1>3, <1>6, HasOneMore
  <2>3. PICK x : Retried' \subseteq Retried \cup {x}
    BY <1>7
  <2>4. Between(Retried', stats.retry + 1, SendsBut(AnsweredKinds)')
    BY <2>1, <2>2, <2>3, BetweenCounts
  <2> QED BY <1>4, <2>4
<1>9. /\ IsFiniteSet(With("delivered")')
      /\ Between(With("delivered")', stats.sent, SendsBut({"respq"})')
  <2>1. /\ IsFiniteSet(With("delivered")) /\ stats.sent \in Nat
        /\ Between(With("delivered"), stats.sent, SendsBut({"respq"}))
    BY CountersNow
  <2>2. /\ IsFiniteSet(SendsBut({"respq"})') /\ SendsBut({"respq"}) \subseteq SendsBut({"respq"})'
        /\ With("delivered")' \subseteq With("delivered")
    BY <1>1, <1>2, <1>3, <1>4
  <2> QED BY <2>1, <2>2, BetweenKept
<1>10. /\ IsFiniteSet(With("rejected")')
       /\ Between(With("rejected")', stats.err, SendsBut({"respq"})')
  <2>1. /\ IsFiniteSet(With("rejected")) /\ stats.err \in Nat
        /\ Between(With("rejected"), stats.err, SendsBut({"respq"}))
    BY CountersNow
  <2>2. /\ IsFiniteSet(SendsBut({"respq"})') /\ SendsBut({"respq"}) \subseteq SendsBut({"respq"})'
        /\ With("rejected")' \subseteq With("rejected")
    BY <1>1, <1>2, <1>3, <1>4
  <2> QED BY <2>1, <2>2, BetweenKept
<1> QED BY <1>3, <1>4, <1>8, <1>9, <1>10 DEF StatsInv

(* A worker reads the answer to m.                                          *)
LEMMA CountsAnswer ==
  ASSUME TypeOK, StatsInv, NEW m \in Notifs, wire' = wire,
         NEW sent \in {0, 1}, NEW err \in {0, 1},
         stats' = [stats EXCEPT !.sent = stats.sent + sent, !.err = stats.err + err],
         m \in Holders({"respq"}), m \notin Holders({"respq"})',
         wire[m].sends >= 1, wire[m].sends <= SendRetryCount + 1,
         Joins({"respq"}, {}), Joins(AnsweredKinds, {}), Joins(UnsentKinds, {}),
         Settles("delivered", IF sent = 1 THEN {m} ELSE {}),
         Settles("rejected", IF err = 1 THEN {m} ELSE {})
  PROVE  StatsInv'
<1> DEFINE last == <<m, wire[m].sends>>
<1>1. /\ SendsMade' = SendsMade /\ Retried' \subseteq Retried
      /\ SendsBut({"respq"}) \subseteq SendsBut({"respq"})'
      /\ SendsBut(AnsweredKinds) \subseteq SendsBut(AnsweredKinds)'
  <2>1. Joins(UnsentKinds, NeverSent)
    BY DEF Joins
  <2> QED BY <2>1, SendsButGrows, RetriedShrinks
<1>2. /\ \/ With("delivered")' \subseteq With("delivered")
         \/ sent = 1 /\ With("delivered")' \subseteq With("delivered") \cup {m}
      /\ \/ With("rejected")' \subseteq With("rejected")
         \/ err = 1 /\ With("rejected")' \subseteq With("rejected") \cup {m}
  BY DEF Settles, With
<1>3. /\ IsFiniteSet(SendsMade') /\ IsFiniteSet(Retried)
      /\ IsFiniteSet(SendsBut({"respq"})') /\ IsFiniteSet(SendsBut(AnsweredKinds)')
  BY <1>1, SendsFinite, SmallerSet DEF StatsInv
<1>4. /\ stats.retry \in Nat /\ stats.sent \in Nat /\ stats.err \in Nat
      /\ stats'.retry = stats.retry
      /\ stats'.sent = stats.sent + sent /\ stats'.err = stats.err + err
  BY WireTypes
<1>5. last \in SendsMade /\ last[1] = m /\ last[2] = wire[m].sends
  BY WireTypes DEF SendsMade
<1>6. last \in SendsBut({"respq"})' /\ last \notin SendsBut({"respq"})
  BY <1>1, <1>5 DEF SendsBut
<1>7. Between(Retried', stats.retry, SendsBut(AnsweredKinds)')
  BY <1>1, <1>3, <1>4, CountersNow, BetweenKept
<1>8. /\ stats'.sent = stats.sent \/ stats'.sent = stats.sent + 1
      /\ stats'.err = stats.err \/ stats'.err = stats.err + 1
      /\ \/ With("delivered")' \subseteq With("delivered")
         \/ stats'.sent = stats.sent + 1 /\ With("delivered")' \subseteq With("delivered") \cup {m}
      /\ \/ With("rejected")' \subseteq With("rejected")
         \/ stats'.err = stats.err + 1 /\ With("rejected")' \subseteq With("rejected") \cup {m}
  BY <1>2, <1>4
<1>9.   /\ Cardinality(SendsBut({"respq"})) \in Nat /\ Cardinality(SendsBut({"respq"})') \in Nat
      /\ Cardinality(SendsBut({"respq"})) + 1 <= Cardinality(SendsBut({"respq"})')
  BY <1>1, <1>3, <1>6, HasOneMore
<1>10. /\ IsFiniteSet(With("delivered")')
       /\ Between(With("delivered")', stats'.sent, SendsBut({"respq"})')
  <2>1. /\ IsFiniteSet(With("delivered")) /\ stats.sent \in Nat
        /\ Between(With("delivered"), stats.sent, SendsBut({"respq"}))
    BY CountersNow
  <2>2. CASE With("delivered")' \subseteq With("delivered")
    <3>1. /\ IsFiniteSet(With("delivered")')
          /\ Between(With("delivered")', stats.sent, SendsBut({"respq"})')
          /\ Between(With("delivered")', stats.sent + 1, SendsBut({"respq"})')
      BY <1>9, <2>1, <2>2, BetweenMayCount
    <3> QED BY <1>8, <3>1
  <2>3. CASE stats'.sent = stats.sent + 1 /\ With("delivered")' \subseteq With("delivered") \cup {m}
    <3>1. /\ IsFiniteSet(With("delivered")')
          /\ Between(With("delivered")', stats.sent + 1, SendsBut({"respq"})')
      BY <1>9, <2>1, <2>3, BetweenCounts
    <3> QED BY <2>3, <3>1
  <2> QED BY <1>8, <2>2, <2>3
<1>11. /\ IsFiniteSet(With("rejected")')
       /\ Between(With("rejected")', stats'.err, SendsBut({"respq"})')
  <2>1. /\ IsFiniteSet(With("rejected")) /\ stats.err \in Nat
        /\ Between(With("rejected"), stats.err, SendsBut({"respq"}))
    BY CountersNow
  <2>2. CASE With("rejected")' \subseteq With("rejected")
    <3>1. /\ IsFiniteSet(With("rejected")')
          /\ Between(With("rejected")', stats.err, SendsBut({"respq"})')
          /\ Between(With("rejected")', stats.err + 1, SendsBut({"respq"})')
      BY <1>9, <2>1, <2>2, BetweenMayCount
    <3> QED BY <1>8, <3>1
  <2>3. CASE stats'.err = stats.err + 1 /\ With("rejected")' \subseteq With("rejected") \cup {m}
    <3>1. /\ IsFiniteSet(With("rejected")')
          /\ Between(With("rejected")', stats.err + 1, SendsBut({"respq"})')
      BY <1>9, <2>1, <2>3, BetweenCounts
    <3> QED BY <2>3, <3>1
  <2> QED BY <1>8, <2>2, <2>3
<1> QED BY <1>3, <1>4, <1>7, <1>10, <1>11 DEF StatsInv

(* A sender has sent m once more.                                           *)
LEMMA CountsSend ==
  ASSUME TypeOK, StatsInv, NEW m \in Notifs, stats' = stats,
         wire'[m].sends = wire[m].sends + 1, \A n \in Notifs \ {m} : wire'[n] = wire[n],
         m \in Holders(UnsentKinds), m \notin Holders(UnsentKinds)',
         Joins({"respq"}, {m}), Joins(AnsweredKinds, {m}), Joins(UnsentKinds, {m}),
         Settles("delivered", {}), Settles("rejected", {})
  PROVE  StatsInv'
<1>1. wire[m].sends \in Nat /\ wire[m].sends + 1 \in Nat
  BY WireTypes
<1>2. SendsMade \subseteq SendsMade' /\ SendsMade' \subseteq SendsMade \cup {<<m, wire[m].sends + 1>>}
  <2>1. ASSUME NEW x \in SendsMade PROVE x \in SendsMade'
    BY <1>1, <2>1, WireTypes DEF SendsMade
  <2>2. ASSUME NEW x \in SendsMade', x \notin SendsMade PROVE x = <<m, wire[m].sends + 1>>
    <3>1. /\ x \in Notifs \X (1..(SendRetryCount + 1)) /\ x = <<x[1], x[2]>>
          /\ x[2] <= wire'[x[1]].sends /\ ~(x[2] <= wire[x[1]].sends)
      BY <2>2 DEF SendsMade
    <3>2. x[1] = m
      BY <3>1
    <3>3. x[2] \in Nat
      BY <3>1, WireTypes
    <3>4. x[2] = wire[m].sends + 1
      BY <1>1, <3>1, <3>2, <3>3
    <3> QED BY <3>1, <3>2, <3>4
  <2> QED BY <2>1, <2>2
<1>3. IsFiniteSet(SendsMade')
  BY <1>2, GrowsByOne DEF StatsInv
<1>4. ASSUME NEW K, Joins(K, {m})
      PROVE  SendsBut(K) \subseteq SendsBut(K)'
  <2> SUFFICES ASSUME NEW x \in SendsBut(K) PROVE x \in SendsBut(K)'
    OBVIOUS
  <2>1. x \in SendsMade /\ x \in SendsMade' /\ x[1] \in Notifs
    BY <1>2, WireTypes DEF SendsBut
  <2>2. CASE x[1] = m
    BY <1>1, <2>1, <2>2, WireTypes DEF SendsBut
  <2>3. CASE x[1] # m
    BY <1>4, <2>1, <2>3 DEF SendsBut, Joins
  <2> QED BY <2>2, <2>3
<1>5. /\ SendsBut({"respq"}) \subseteq SendsBut({"respq"})'
      /\ SendsBut(AnsweredKinds) \subseteq SendsBut(AnsweredKinds)'
  BY <1>4
<1>6. Retried' \subseteq Retried
  <2> SUFFICES ASSUME NEW x \in Retried' PROVE x \in Retried
    OBVIOUS
  <2>1. x \in SendsMade' /\ (x[2] = wire'[x[1]].sends => x[1] \in Holders(UnsentKinds)')
    BY DEF Retried
  <2>2. x \in SendsMade
    <3>1. CASE x = <<m, wire[m].sends + 1>>
      BY <2>1, <3>1
    <3> QED BY <1>2, <2>1, <3>1
  <2>3. CASE x[1] = m
    BY <2>2, <2>3 DEF Retried
  <2>4. CASE x[1] # m
    <3>1. x[1] \in Notifs \ {m} /\ wire'[x[1]] = wire[x[1]]
      BY <2>2, <2>4, WireTypes
    <3>2. x[1] \in Holders(UnsentKinds)' => x[1] \in Holders(UnsentKinds)
      BY <3>1 DEF Joins
    <3> QED BY <2>1, <2>2, <3>1, <3>2 DEF Retried
  <2> QED BY <2>3, <2>4
<1>7. With("delivered")' \subseteq With("delivered") /\ With("rejected")' \subseteq With("rejected")
  BY DEF Settles, With
<1>8. /\ IsFiniteSet(Retried)
      /\ IsFiniteSet(SendsBut({"respq"})') /\ IsFiniteSet(SendsBut(AnsweredKinds)')
  BY <1>3, SendsFinite, SmallerSet DEF StatsInv
<1>9. stats.retry \in Nat /\ stats.sent \in Nat /\ stats.err \in Nat
  BY WireTypes
<1>10. Between(Retried', stats.retry, SendsBut(AnsweredKinds)')
  BY <1>5, <1>6, <1>8, <1>9, CountersNow, BetweenKept
<1>11. /\ IsFiniteSet(With("delivered")')
       /\ Between(With("delivered")', stats.sent, SendsBut({"respq"})')
  <2>1. /\ IsFiniteSet(With("delivered")) /\ stats.sent \in Nat
        /\ Between(With("delivered"), stats.sent, SendsBut({"respq"}))
    BY CountersNow
  <2>2. /\ IsFiniteSet(SendsBut({"respq"})') /\ SendsBut({"respq"}) \subseteq SendsBut({"respq"})'
        /\ With("delivered")' \subseteq With("delivered")
    BY <1>5, <1>7, <1>8, <1>9
  <2> QED BY <2>1, <2>2, BetweenKept
<1>12. /\ IsFiniteSet(With("rejected")')
       /\ Between(With("rejected")', stats.err, SendsBut({"respq"})')
  <2>1. /\ IsFiniteSet(With("rejected")) /\ stats.err \in Nat
        /\ Between(With("rejected"), stats.err, SendsBut({"respq"}))
    BY CountersNow
  <2>2. /\ IsFiniteSet(SendsBut({"respq"})') /\ SendsBut({"respq"}) \subseteq SendsBut({"respq"})'
        /\ With("rejected")' \subseteq With("rejected")
    BY <1>5, <1>7, <1>8, <1>9
  <2> QED BY <2>1, <2>2, BetweenKept
<1> QED BY <1>3, <1>9, <1>10, <1>11, <1>12 DEF StatsInv

-----------------------------------------------------------------------------
(* What the moves of requests do to the holders of a set of kinds *)

LEMMA MoveJoins ==
  ASSUME NEW a, NEW b, NEW X, NEW Y, Moves(a, b, X, Y), NEW K \in SUBSET Kinds, NEW ns,
         b \in K => \A r \in Y : (a \in K /\ \E s \in X : s.id = r.id) \/ r.id \in ns
  PROVE  Joins(K, ns)
<1> SUFFICES ASSUME NEW n \in Holders(K)' PROVE n \in Holders(K) \cup ns
  BY DEF Joins
<1>1. PICK k \in K : \E r \in Held'[k] : r.id = n
  BY DEF Holders
<1>2. PICK r \in Held'[k] : r.id = n
  BY <1>1
<1>3. n \in Notifs
  BY DEF Holders
<1>4. CASE r \in Held[k]
  BY <1>2, <1>3, <1>4 DEF Holders
<1>5. CASE r \notin Held[k]
  <2>1. k = b /\ r \in Y
    BY <1>2, <1>5 DEF Moves
  <2>2. CASE r.id \in ns
    BY <1>2, <2>2
  <2>3. CASE a \in K /\ \E s \in X : s.id = r.id
    BY <1>2, <1>3, <2>3 DEF Holders, Moves
  <2> QED BY <2>1, <2>2, <2>3
<1> QED BY <1>4, <1>5

LEMMA CarryJoins ==
  ASSUME NEW a, NEW b, NEW r, NEW s, Carried(a, b, r, s), NEW K \in SUBSET Kinds
  PROVE  /\ (b \in K => a \in K) => Joins(K, {})
         /\ Joins(K, {r.id})
<1>1. Moves(a, b, {r}, {s}) /\ s.id = r.id
  BY DEF Carried
<1>2. Joins(K, {r.id})
  BY <1>1, MoveJoins
<1>3. ASSUME b \in K => a \in K PROVE Joins(K, {})
  <2>1. b \in K => \A x \in {s} : (a \in K /\ \E y \in {r} : y.id = x.id) \/ x.id \in {}
    BY <1>1, <1>3
  <2> QED BY <1>1, <2>1, MoveJoins
<1> QED BY <1>2, <1>3

LEMMA DropJoins ==
  ASSUME NEW a, NEW r, Dropped(a, r), NEW K \in SUBSET Kinds, NEW ns
  PROVE  Joins(K, ns)
<1>1. PICK b \in Kinds : Moves(a, b, {r}, {})
  BY DEF Dropped
<1> QED BY <1>1, MoveJoins

LEMMA StayJoins ==
  ASSUME Stays, NEW K \in SUBSET Kinds, NEW ns
  PROVE  Joins(K, ns)
BY DEF Joins, Holders, Stays

(* A request that leaves K leaves no other one of its notification there.   *)
LEMMA LastLeaves ==
  ASSUME CopyInv, NEW K \in SUBSET Kinds, NEW a \in K, NEW r, r.id \in Notifs,
         Dropped(a, r) \/ \E b \in Kinds \ K : \E s : Carried(a, b, r, s)
  PROVE  r.id \in Holders(K) /\ r.id \notin Holders(K)'
<1>1. /\ r \in Held[a]
      /\ \A k \in K : \A x \in Held'[k] : x \in Held[k] /\ (k = a => x # r)
  <2>1. CASE Dropped(a, r)
    BY <2>1 DEF Dropped, Moves
  <2>2. CASE \E b \in Kinds \ K : \E s : Carried(a, b, r, s)
    BY <2>2 DEF Carried, Moves
  <2> QED BY <2>1, <2>2
<1>2. r.id \in Holders(K)
  BY <1>1 DEF Holders
<1>3. ASSUME NEW k \in K, NEW x \in Held'[k], x.id = r.id PROVE FALSE
  <2>1. x \in Held[k] /\ (k = a => x # r)
    BY <1>1
  <2>2. k = a /\ x = r
    BY <1>1, <1>3, <2>1 DEF CopyInv, PlacesInv, OneKind
  <2> QED BY <2>1, <2>2
<1>4. r.id \notin Holders(K)'
  BY <1>3 DEF Holders
<1> QED BY <1>2, <1>4

LEMMA KindSets ==
  /\ {"respq"} \in SUBSET Kinds /\ AnsweredKinds \in SUBSET Kinds
  /\ UnsentKinds \in SUBSET Kinds
  /\ UnsentKinds = {"queue", "batch", "wq", "sending", "retryq", "backoff"}
BY DEF Kinds, AnsweredKinds, UnsentKinds

LEMMA SameFates ==
  ASSUME fate' = fate, NEW f, NEW ns
  PROVE  Settles(f, ns)
BY DEF Settles, With

LEMMA OtherFate ==
  ASSUME NEW ms, NEW g, fate' = Settle(ms, g), NEW f, f # g, NEW ns
  PROVE  Settles(f, ns)
BY DEF Settles, With, Settle

(* A notification that is lost, given up or cut off by a crash is neither   *)
(* delivered nor rejected by it.                                            *)
LostFate(r) == fate' = fate \/ \E g \in {"dropped", "exhausted"} : fate' = Settle({r.id}, g)

LEMMA LostSettlesNone ==
  ASSUME NEW r, LostFate(r)
  PROVE  Settles("delivered", {}) /\ Settles("rejected", {})
BY SameFates, OtherFate DEF LostFate

-----------------------------------------------------------------------------
(* The steps *)

LEMMA StayCounters ==
  ASSUME TypeOK, StatsInv, Stays, UNCHANGED <<wire, stats, fate>>
  PROVE  StatsInv'
<1>1. /\ Joins({"respq"}, {}) /\ Joins(AnsweredKinds, {}) /\ Joins(UnsentKinds, NeverSent)
  BY KindSets, StayJoins
<1> QED BY <1>1, SameFates, Uncounted

LEMMA DropCounters ==
  ASSUME TypeOK, StatsInv, NEW a, NEW r, Dropped(a, r), LostFate(r), UNCHANGED <<wire, stats>>
  PROVE  StatsInv'
<1>1. /\ Joins({"respq"}, {}) /\ Joins(AnsweredKinds, {}) /\ Joins(UnsentKinds, NeverSent)
  BY KindSets, DropJoins
<1> QED BY <1>1, LostSettlesNone, Uncounted

(* Requests go on towards a sender.                                         *)
LEMMA ForwardCounters ==
  ASSUME TypeOK, StatsInv, NEW a \in UnsentKinds, NEW b \in UnsentKinds, NEW X, NEW Y,
         Moves(a, b, X, Y), \A r \in Y : \E s \in X : s.id = r.id,
         UNCHANGED <<wire, stats, fate>>
  PROVE  StatsInv'
<1>1. /\ b \notin {"respq"} /\ b \notin AnsweredKinds
  BY DEF UnsentKinds, AnsweredKinds
<1>2. Joins({"respq"}, {})
  BY <1>1, KindSets, MoveJoins
<1>3. Joins(AnsweredKinds, {})
  BY <1>1, KindSets, MoveJoins
<1>4. Joins(UnsentKinds, NeverSent)
  BY KindSets, MoveJoins
<1> QED BY <1>2, <1>3, <1>4, SameFates, Uncounted

LEMMA CarryCounters ==
  ASSUME TypeOK, StatsInv, NEW a \in UnsentKinds, NEW b \in UnsentKinds, NEW r, NEW s,
         Carried(a, b, r, s), UNCHANGED <<wire, stats, fate>>
  PROVE  StatsInv'
<1>1. Moves(a, b, {r}, {s}) /\ \A y \in {s} : \E x \in {r} : x.id = y.id
  BY DEF Carried
<1> QED BY <1>1, ForwardCounters

LEMMA EnqueueCounters ==
  ASSUME TypeOK, CopyInv, StatsInv, NEW p \in Posts, Enqueue(p)
  PROVE  StatsInv'
<1>1. UNCHANGED <<wire, stats>>
  BY DEF Enqueue
<1>2. CASE Stays /\ fate' = fate
  BY <1>1, <1>2, StayCounters
<1>3. CASE /\ \E a \in Kinds : Moves(a, "queue", {}, Elems(NewRequests(p)))
           /\ fate' = Settle(Elems(Batch[p]), "pending")
  <2>1. PICK a \in Kinds : Moves(a, "queue", {}, Elems(NewRequests(p)))
    BY <1>3
  <2>2. \A r \in Elems(NewRequests(p)) : r.id \in NeverSent
    <3>1. \A r \in Elems(NewRequests(p)) : r.id \in Elems(Batch[p])
      BY NewRequestsAre
    <3>2. \A n \in Elems(Batch[p]) : n \in Notifs /\ fate[n] = "new"
      BY EnqueuePlaces
    <3>3. \A n \in Notifs : fate[n] = "new" => wire[n].sends = 0
      BY DEF CopyInv, HistoryInv, TriesAgree
    <3> QED BY <3>1, <3>2, <3>3 DEF NeverSent
  <2>3. "queue" \notin {"respq"} /\ "queue" \notin AnsweredKinds
    BY DEF AnsweredKinds
  <2>4. Joins({"respq"}, {})
    BY <2>1, <2>3, KindSets, MoveJoins
  <2>5. Joins(AnsweredKinds, {})
    BY <2>1, <2>3, KindSets, MoveJoins
  <2>6. Joins(UnsentKinds, NeverSent)
    BY <2>1, <2>2, KindSets, MoveJoins
  <2>7. Settles("delivered", {}) /\ Settles("rejected", {})
    BY <1>3, OtherFate
  <2> QED BY <1>1, <2>4, <2>5, <2>6, <2>7, Uncounted
<1> QED BY <1>2, <1>3, EnqueuePlaces

LEMMA RetryCounters ==
  ASSUME TypeOK, CopyInv, StatsInv, NEW a \in {"retry", "quota"}, NEW r \in Held[a],
         r \in Request, Retry(r), Resent(a, r), wire' = wire
  PROVE  StatsInv'
<1>k. /\ a \in Kinds /\ a # "backoff" /\ a \in AnsweredKinds /\ a \notin {"respq"}
      /\ "retryq" \in Kinds \ AnsweredKinds /\ "retryq" \notin {"respq"}
  BY DEF Kinds, AnsweredKinds
<1>1. r.id \in Notifs
  BY <1>k, HeldAreReal DEF CopyInv, PlacesInv
<1>2. \/ Carried(a, "retryq", r, NextTry(r)) /\ r.tries < SendRetryCount /\ fate' = fate
      \/ Dropped(a, r) /\ LostFate(r)
  BY DEF Resent, Settled, Crashed, LostFate
<1>3. CASE r.tries < SendRetryCount
  <2>1. stats' = [stats EXCEPT !.retry = stats.retry + 1]
    BY <1>3 DEF Retry
  <2>2. wire[r.id].sends >= 1 /\ wire[r.id].sends <= SendRetryCount + 1
    <3>1. wire[r.id].sends = r.tries + 1
      BY <1>1, <1>k DEF CopyInv, HistoryInv, TriesAgree
    <3>2. r.tries \in Nat
      BY SizesInNat DEF Request
    <3> QED BY <1>3, <3>1, <3>2, SizesInNat
  <2>3. r.id \in Holders(AnsweredKinds) /\ r.id \notin Holders(AnsweredKinds)'
    BY <1>1, <1>2, <1>k, KindSets, LastLeaves
  <2>4. Joins({"respq"}, {})
    BY <1>2, <1>k, KindSets, CarryJoins, DropJoins
  <2>5. Joins(AnsweredKinds, {})
    BY <1>2, <1>k, KindSets, CarryJoins, DropJoins
  <2>6. Joins(UnsentKinds, {r.id})
    BY <1>2, KindSets, CarryJoins, DropJoins
  <2>7. Settles("delivered", {}) /\ Settles("rejected", {})
    BY <1>2, LostSettlesNone DEF LostFate
  <2> QED BY <1>1, <2>1, <2>2, <2>3, <2>4, <2>5, <2>6, <2>7, CountsRetry
<1>4. CASE ~(r.tries < SendRetryCount)
  <2>1. stats' = stats
    BY <1>4 DEF Retry
  <2> QED BY <1>2, <1>4, <2>1, DropCounters
<1> QED BY <1>3, <1>4

LEMMA RecvResponseCounters ==
  ASSUME TypeOK, CopyInv, StatsInv, NEW w \in Workers, RecvResponse(w)
  PROVE  StatsInv'
<1> DEFINE x == Answering(w)
           q == x.req
<1>1. /\ RetriedNow(x.ans) => Carried("respq", "retry", q, q)
      /\ RetriedLater(x.ans) => Carried("respq", "quota", q, q)
      /\ ~RetriedNow(x.ans) /\ ~RetriedLater(x.ans) => Dropped("respq", q)
  BY RecvResponsePlaces DEF CopyInv
<1>2. /\ wire' = wire /\ fate' = [fate EXCEPT ![q.id] = FateAfter(q.id, x.ans)]
      /\ fate \in [Notifs -> {"new", "pending"} \cup Final]
      /\ stats' = [stats EXCEPT !.sent = stats.sent + SentCounted(Provider[q.id], x.ans),
                               !.err = stats.err + ErrCounted(Provider[q.id], x.ans)]
  BY DEF RecvResponse, Answering, TypeOK, TypeHistory
<1>3. x.ans \in Answers /\ q \in Request
  <2>1. respq[w] \in Seq(Response) /\ respq[w] # << >>
    BY PlaceTypes DEF RecvResponse
  <2>2. x \in Response
    BY <2>1, HeadTailType DEF Answering
  <2> QED BY <2>2 DEF Response
<1>k. /\ "respq" \in Kinds /\ "respq" # "backoff" /\ "respq" \in AnsweredKinds
      /\ "retry" \in Kinds \ {"respq"} /\ "quota" \in Kinds \ {"respq"}
      /\ "retry" \notin UnsentKinds /\ "quota" \notin UnsentKinds
  BY DEF Kinds, AnsweredKinds, UnsentKinds
<1> HIDE DEF x, q
<1>4. q \in Held["respq"]
  BY <1>1 DEF Carried, Dropped, Moves
<1>5. q.id \in Notifs
  BY <1>k, <1>4, HeldAreReal DEF CopyInv, PlacesInv
<1>6. Dropped("respq", q) \/ \E b \in {"retry", "quota"} : Carried("respq", b, q, q)
  BY <1>1
<1>7. q.id \in Holders({"respq"}) /\ q.id \notin Holders({"respq"})'
  BY <1>5, <1>6, <1>k, KindSets, LastLeaves
<1>8. Joins({"respq"}, {})
  BY <1>6, <1>k, KindSets, CarryJoins, DropJoins
<1>9. Joins(AnsweredKinds, {})
  BY <1>6, <1>k, KindSets, CarryJoins, DropJoins
<1>10. Joins(UnsentKinds, {})
  BY <1>6, <1>k, KindSets, CarryJoins, DropJoins
<1>11. wire[q.id].sends >= 1 /\ wire[q.id].sends <= SendRetryCount + 1
  <2>1. wire[q.id].sends = q.tries + 1 /\ wire[q.id].sends <= SendRetryCount + 1
    BY <1>4, <1>5, <1>k DEF CopyInv, HistoryInv, TriesAgree
  <2>2. q.tries \in Nat
    BY <1>3, SizesInNat DEF Request
  <2> QED BY <2>1, <2>2
<1> DEFINE sent == SentCounted(Provider[q.id], x.ans)
           err == ErrCounted(Provider[q.id], x.ans)
<1>12. sent \in {0, 1} /\ err \in {0, 1}
  BY DEF SentCounted, ErrCounted
<1>13. fate[q.id] \notin {"delivered", "rejected"}
  BY <1>4, <1>5, <1>k DEF CopyInv, HistoryInv, HeldArePending
<1>14. /\ FateAfter(q.id, x.ans) = "delivered" => sent = 1
       /\ FateAfter(q.id, x.ans) = "rejected" => err = 1
  BY <1>3, <1>13 DEF FateAfter, SentCounted, ErrCounted, RetriedNow, RetriedLater, Answers
<1> HIDE DEF sent, err
<1>15. \A f : \A n \in Notifs :
         fate'[n] = f => fate[n] = f \/ (n = q.id /\ FateAfter(q.id, x.ans) = f)
  BY <1>2, <1>5
<1>16. Settles("delivered", IF sent = 1 THEN {q.id} ELSE {})
  BY <1>14, <1>15 DEF Settles, With
<1>17. Settles("rejected", IF err = 1 THEN {q.id} ELSE {})
  BY <1>14, <1>15 DEF Settles, With
<1>18. stats' = [stats EXCEPT !.sent = stats.sent + sent, !.err = stats.err + err]
  BY <1>2 DEF sent, err
<1> QED BY <1>2, <1>5, <1>7, <1>8, <1>9, <1>10, <1>11, <1>12, <1>16, <1>17, <1>18, CountsAnswer

LEMMA SenderAnswerCounters ==
  ASSUME TypeOK, CopyInv, StatsInv, NEW w \in Workers, NEW s \in Senders,
         NEW a \in Answers, NEW taken \in BOOLEAN, SenderAnswer(w, s, a, taken)
  PROVE  StatsInv'
<1>1. PICK r : r = sender[w][s].req
  OBVIOUS
<1>2. /\ r \in Held["sending"]
      /\ \/ Carried("sending", "respq", r, r) /\ fate' = fate
         \/ Dropped("sending", r) /\ LostFate(r)
  BY <1>1, SenderAnswerPlaces DEF CopyInv, Settled, Crashed, LostFate
<1>k. /\ "sending" \in Kinds /\ "sending" # "backoff" /\ "sending" \in UnsentKinds
      /\ "respq" \in Kinds \ UnsentKinds
  BY DEF Kinds, AnsweredKinds, UnsentKinds
<1>3. r.id \in Notifs
  BY <1>2, <1>k, HeldAreReal DEF CopyInv, PlacesInv
<1>4. stats' = stats /\ wire' = [wire EXCEPT ![r.id] = Sent(wire[r.id], a, taken)]
  BY <1>1 DEF SenderAnswer
<1>5. /\ wire'[r.id].sends = wire[r.id].sends + 1
      /\ \A n \in Notifs \ {r.id} : wire'[n] = wire[n]
  BY <1>3, <1>4 DEF TypeOK, TypeHistory, Sent
<1>6. r.id \in Holders(UnsentKinds) /\ r.id \notin Holders(UnsentKinds)'
  BY <1>2, <1>3, <1>k, KindSets, LastLeaves
<1>7. \A K \in SUBSET Kinds : Joins(K, {r.id})
  BY <1>2, CarryJoins, DropJoins
<1>8. Joins({"respq"}, {r.id}) /\ Joins(AnsweredKinds, {r.id}) /\ Joins(UnsentKinds, {r.id})
  BY <1>7, KindSets
<1>9. Settles("delivered", {}) /\ Settles("rejected", {})
  BY <1>2, LostSettlesNone DEF LostFate
<1> QED BY <1>3, <1>4, <1>5, <1>6, <1>8, <1>9, CountsSend

LEMMA NextCounters ==
  ASSUME TypeOK, ClosingInv, CopyInv, StatsInv, [Next]_vars
  PROVE  StatsInv'
<1>1. ASSUME Elsewhere, stats' = stats PROVE StatsInv'
  BY <1>1, ElsewherePlaces, StayCounters DEF CopyInv
<1>k. {"queue", "batch", "wq", "sending", "retryq", "backoff"} \subseteq UnsentKinds
  BY KindSets
<1>2. ASSUME NEW w \in Workers, WorkerStep(w) PROVE StatsInv'
  <2>1. CASE RecvRequests(w)
    <3>1. /\ Moves("queue", "batch", Elems(Head(queue)), Elems(Head(queue)))
          /\ UNCHANGED <<wire, stats, fate>>
      BY <2>1, RecvRequestsPlaces DEF CopyInv, RecvRequests, history
    <3> QED BY <1>k, <3>1, ForwardCounters
  <2>2. CASE Distribute(w)
    <3>1. PICK r : Carried("batch", "wq", r, r)
      BY <2>2, DistributePlaces DEF CopyInv
    <3>2. UNCHANGED <<wire, stats, fate>>
      BY <2>2 DEF Distribute, history
    <3> QED BY <1>k, <3>1, <3>2, CarryCounters
  <2>3. CASE RecvResponse(w)
    BY <2>3, RecvResponseCounters
  <2>4. CASE WorkerRetry(w)
    <3>1. /\ worker[w].resp.req \in Held["retry"]
          /\ Resent("retry", worker[w].resp.req)
      BY <2>4, WorkerRetryPlaces DEF CopyInv
    <3>2. worker[w].resp.req \in Request
      BY PlaceTypes DEF Response
    <3>3. Retry(worker[w].resp.req) /\ wire' = wire
      BY <2>4 DEF WorkerRetry
    <3> QED BY <3>1, <3>2, <3>3, RetryCounters
  <2>5. CASE WorkerHook(w) \/ WorkerExit(w) \/ WorkerJoin(w)
    BY <1>1, <2>5 DEF Elsewhere, WorkerHook, WorkerExit, WorkerJoin
  <2> QED BY <1>2, <2>1, <2>2, <2>3, <2>4, <2>5 DEF WorkerStep
<1>3. ASSUME NEW w \in Workers, NEW s \in Senders, SenderStep(w, s) PROVE StatsInv'
  <2>1. CASE SenderTake(w, s)
    <3>1. PICK r \in Held["wq"] : Carried("wq", "sending", r, r)
      BY <2>1, SenderTakePlaces DEF CopyInv
    <3>2. UNCHANGED <<wire, stats, fate>>
      BY <2>1 DEF SenderTake, history
    <3> QED BY <1>k, <3>1, <3>2, CarryCounters
  <2>2. CASE SenderGone(w, s)
    BY <1>1, <2>2 DEF Elsewhere, SenderGone
  <2> QED BY <1>3, <2>1, <2>2, SenderAnswerCounters DEF SenderStep
<1>4. CASE TickerStep
  <2>1. CASE TickerSweep
    <3>1. UNCHANGED <<wire, stats, fate>>
      BY <2>1 DEF TickerSweep, history
    <3>2. CASE Stays
      BY <3>1, <3>2, StayCounters
    <3>3. CASE \E r \in Held["retryq"] : Carried("retryq", "backoff", r, r)
      BY <1>k, <3>1, <3>3, CarryCounters
    <3>4. CASE /\ Held'["backoff"] = Held["backoff"] \cup {NoReq}
               /\ \A k \in Kinds \ {"backoff"} : Held'[k] = Held[k]
      <4>1. NoReq.id \notin Notifs
        BY NotifsAssumption DEF NoReq
      <4>2. \A k \in Kinds : \A r \in Held'[k] : r \in Held[k] \/ r.id \notin Notifs
        BY <3>4, <4>1
      <4>3. ASSUME NEW K \in SUBSET Kinds, NEW ns PROVE Joins(K, ns)
        BY <4>2 DEF Joins, Holders
      <4>4. Joins({"respq"}, {}) /\ Joins(AnsweredKinds, {}) /\ Joins(UnsentKinds, NeverSent)
        BY <4>3, KindSets
      <4> QED BY <3>1, <4>4, SameFates, Uncounted
    <3> QED BY <2>1, <3>2, <3>3, <3>4, TickerSweepPlaces DEF CopyInv
  <2>2. CASE TickerTick \/ TickerStop
    BY <1>1, <2>2 DEF Elsewhere, TickerTick, TickerStop
  <2> QED BY <1>4, <2>1, <2>2 DEF TickerStep
<1>5. ASSUME NEW r \in backoff, BackoffFire(r) PROVE StatsInv'
  <2>1. UNCHANGED <<wire, stats>>
    BY <1>5 DEF BackoffFire
  <2>2. CASE Carried("backoff", "queue", r, r) /\ fate' = fate
    BY <1>k, <2>1, <2>2, CarryCounters
  <2>3. CASE Dropped("backoff", r) /\ LostFate(r)
    BY <2>1, <2>3, DropCounters
  <2> QED BY <1>5, <2>2, <2>3, BackoffFirePlaces DEF CopyInv, Settled, Crashed, LostFate
<1>6. ASSUME NEW r \in quota, QuotaFire(r) PROVE StatsInv'
  <2>1. r \in Held["quota"] /\ Resent("quota", r)
    BY <1>6, QuotaFirePlaces DEF CopyInv
  <2>2. r \in Request /\ Retry(r) /\ wire' = wire
    BY <1>6, PlaceTypes DEF QuotaFire
  <2> QED BY <2>1, <2>2, RetryCounters
<1>7. ASSUME NEW w \in Workers, HookStep(w) PROVE StatsInv'
  <2>1. stats' = stats
    BY <1>7 DEF HookStep, HookStart, HookEnd, HookStop
  <2> QED BY <1>1, <1>7, <2>1 DEF Elsewhere
<1>8. CASE ShutdownBegin \/ ShutdownStep
  <2>1. stats' = stats
    BY <1>8 DEF ShutdownBegin, ShutdownStep, ShutdownPoll, CloseExit, CloseCmdq, CloseQueue,
                CloseRetryq, CloseAt, ProcessExit
  <2> QED BY <1>1, <1>8, <2>1 DEF Elsewhere
<1>9. CASE UNCHANGED vars
  <2>1. stats' = stats
    BY <1>9 DEF vars
  <2> QED BY <1>1, <1>9, <2>1 DEF Elsewhere
<1> QED
  BY <1>2, <1>3, <1>4, <1>5, <1>6, <1>7, <1>8, <1>9, EnqueueCounters
     DEF Next, TimerStep, Terminated

LEMMA InitCounters == Init => StatsInv
<1> SUFFICES ASSUME Init PROVE StatsInv
  OBVIOUS
<1>1. /\ \A n \in Notifs : wire[n].sends = 0 /\ fate[n] = "new"
      /\ stats.retry = 0 /\ stats.sent = 0 /\ stats.err = 0
  BY DEF Init
<1>2. SendsMade = {}
  <2>1. \A x \in SendsMade : x[1] \in Notifs /\ x[2] \in 1..(SendRetryCount + 1)
                             /\ x[2] <= wire[x[1]].sends
    BY DEF SendsMade
  <2>2. \A x \in SendsMade : FALSE
    BY <1>1, <2>1, SizesInNat
  <2> QED BY <2>2
<1>3. /\ Retried = {} /\ SendsBut(AnsweredKinds) = {} /\ SendsBut({"respq"}) = {}
  BY <1>2 DEF Retried, SendsBut
<1>4. With("delivered") = {} /\ With("rejected") = {}
  BY <1>1 DEF With
<1>5. IsFiniteSet({}) /\ Cardinality({}) = 0
  BY FS_EmptySet
<1> QED BY <1>1, <1>2, <1>3, <1>4, <1>5 DEF StatsInv, Between

LEMMA CountersBounded ==
  ASSUME TypeOK, StatsInv
  PROVE  StatsAccount
<1>1. /\ Resends \subseteq Retried /\ Retried \subseteq SendsMade
      /\ SendsBut(AnsweredKinds) \subseteq SendsMade
      /\ SendsBut({"respq"}) \subseteq SendsMade
  <2>1. Resends \subseteq Retried
    BY WireTypes DEF Resends, Retried
  <2> QED BY <2>1, SendsFinite
<1>2. IsFiniteSet(SendsMade) /\ Cardinality(SendsMade) \in Nat
  BY FS_CardinalityType DEF StatsInv
<1>3. /\ Between(Resends, stats.retry, SendsMade) /\ stats.retry \in Nat
      /\ Cardinality(Resends) \in Nat
  <2>1. IsFiniteSet(Retried) /\ Between(Retried, stats.retry, SendsBut(AnsweredKinds))
        /\ stats.retry \in Nat
    BY CountersNow
  <2>2. Between(Resends, stats.retry, SendsMade)
    BY <1>1, <1>2, <2>1, BetweenKept
  <2>3. Cardinality(Resends) \in Nat
    BY <1>1, <2>1, SmallerSet
  <2> QED BY <2>1, <2>2, <2>3
<1>4. /\ Between(With("delivered"), stats.sent, SendsMade) /\ stats.sent \in Nat
      /\ Cardinality(With("delivered")) \in Nat
  <2>1. /\ IsFiniteSet(With("delivered")) /\ stats.sent \in Nat
        /\ Between(With("delivered"), stats.sent, SendsBut({"respq"}))
    BY CountersNow
  <2>2. Between(With("delivered"), stats.sent, SendsMade)
    BY <1>1, <1>2, <2>1, BetweenKept
  <2> QED BY <2>1, <2>2, FS_CardinalityType
<1>5. /\ Between(With("rejected"), stats.err, SendsMade) /\ stats.err \in Nat
      /\ Cardinality(With("rejected")) \in Nat
  <2>1. /\ IsFiniteSet(With("rejected")) /\ stats.err \in Nat
        /\ Between(With("rejected"), stats.err, SendsBut({"respq"}))
    BY CountersNow
  <2>2. Between(With("rejected"), stats.err, SendsMade)
    BY <1>1, <1>2, <2>1, BetweenKept
  <2> QED BY <2>1, <2>2, FS_CardinalityType
<1> QED BY <1>2, <1>3, <1>4, <1>5 DEF StatsAccount, Between, With

(* The counters of srvStats agree with what the provider saw, through every *)
(* interleaving of workers, senders and timers.                             *)
THEOREM CountersAgree == Spec => []StatsAccount
<1>1. TypeOK /\ ClosingInv /\ CopyInv /\ StatsInv /\ [Next]_vars => StatsInv'
  BY NextCounters
<1>2. TypeOK /\ StatsInv => StatsAccount
  BY CountersBounded
<1> QED BY <1>1, <1>2, InitCounters, TypeCorrect, ClosesInOrder, OneCopyEach, PTL DEF Spec
=============================================================================
