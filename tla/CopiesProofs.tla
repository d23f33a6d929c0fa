---------------------------- MODULE CopiesProofs ----------------------------
(***************************************************************************)
(* Proofs about the requests of the pipeline, for every instance of its     *)
(* constants: a pending notification has one request, in one place, which   *)
(* agrees with what the provider saw of it.                                 *)
(***************************************************************************)
EXTENDS SupervisorProofs, SequenceTheorems, FiniteSetTheorems

-----------------------------------------------------------------------------
(* Families of sequences of requests *)

IsMember(r, D, f) == \E x \in D : \E i \in DOMAIN f[x] : f[x][i] = r

LEMMA FamilyMember ==
  ASSUME NEW f, f \in [DOMAIN f -> Seq(Request)]
  PROVE  \A r : r \in FamilyReqs(f) <=> IsMember(r, DOMAIN f, f)
<1>1. \A x \in DOMAIN f : DOMAIN f[x] = 1..Len(f[x])
  OBVIOUS
<1> QED BY <1>1 DEF FamilyReqs, Elems, IsMember

LEMMA ElemsMember ==
  ASSUME NEW S, NEW q \in Seq(S)
  PROVE  \A r : r \in Elems(q) <=> \E i \in DOMAIN q : q[i] = r
BY DEF Elems

LEMMA AppendEntries ==
  ASSUME NEW S, NEW q \in Seq(S), NEW r \in S
  PROVE  /\ Append(q, r) \in Seq(S)
         /\ DOMAIN Append(q, r) = DOMAIN q \cup {Len(q) + 1}
         /\ Len(q) + 1 \notin DOMAIN q
         /\ Append(q, r)[Len(q) + 1] = r
         /\ \A i \in DOMAIN q : Append(q, r)[i] = q[i]
OBVIOUS

LEMMA TailEntries ==
  ASSUME NEW S, NEW q \in Seq(S), q # << >>
  PROVE  /\ Tail(q) \in Seq(S) /\ Head(q) = q[1] /\ 1 \in DOMAIN q
         /\ \A i \in DOMAIN Tail(q) : i \in Nat /\ i + 1 \in DOMAIN q /\ i + 1 # 1
                                      /\ Tail(q)[i] = q[i + 1]
         /\ \A i \in DOMAIN q : i # 1 => i - 1 \in DOMAIN Tail(q) /\ Tail(q)[i - 1] = q[i]
OBVIOUS

(* Appending a fresh request to one member of a family. *)
LEMMA FamilyAppend ==
  ASSUME NEW f, f \in [DOMAIN f -> Seq(Request)], NEW x \in DOMAIN f, NEW r \in Request
  PROVE  /\ FamilyReqs([f EXCEPT ![x] = Append(f[x], r)]) = FamilyReqs(f) \cup {r}
         /\ FamilyDistinct(f) /\ (\A s \in FamilyReqs(f) : s.id # r.id)
              => FamilyDistinct([f EXCEPT ![x] = Append(f[x], r)])
<1> DEFINE g == [f EXCEPT ![x] = Append(f[x], r)]
<1>1. g \in [DOMAIN f -> Seq(Request)] /\ DOMAIN g = DOMAIN f /\ g[x] = Append(f[x], r)
      /\ \A y \in DOMAIN f \ {x} : g[y] = f[y]
  BY AppendEntries
<1> HIDE DEF g
<1>2. /\ DOMAIN g[x] = DOMAIN f[x] \cup {Len(f[x]) + 1}
      /\ Len(f[x]) + 1 \notin DOMAIN f[x]
      /\ g[x][Len(f[x]) + 1] = r
      /\ \A i \in DOMAIN f[x] : g[x][i] = f[x][i]
  BY <1>1, AppendEntries
<1>a. g \in [DOMAIN g -> Seq(Request)]
  BY <1>1
<1>m. /\ \A s : s \in FamilyReqs(f) <=> IsMember(s, DOMAIN f, f)
      /\ \A s : s \in FamilyReqs(g) <=> IsMember(s, DOMAIN f, g)
  BY <1>1, <1>a, FamilyMember
<1>3. FamilyReqs(g) = FamilyReqs(f) \cup {r}
  <2>1. ASSUME NEW s \in FamilyReqs(g) PROVE s \in FamilyReqs(f) \cup {r}
    <3>0. PICK y \in DOMAIN f : \E i \in DOMAIN g[y] : g[y][i] = s
      BY <2>1, <1>m DEF IsMember
    <3>1. PICK i \in DOMAIN g[y] : g[y][i] = s
      BY <3>0
    <3>2. s = r \/ (i \in DOMAIN f[y] /\ f[y][i] = s)
      BY <1>1, <1>2, <3>1
    <3> QED BY <3>2, <1>m DEF IsMember
  <2>2. ASSUME NEW s \in FamilyReqs(f) PROVE s \in FamilyReqs(g)
    <3>0. PICK y \in DOMAIN f : \E i \in DOMAIN f[y] : f[y][i] = s
      BY <2>2, <1>m DEF IsMember
    <3>1. PICK i \in DOMAIN f[y] : f[y][i] = s
      BY <3>0
    <3>2. i \in DOMAIN g[y] /\ g[y][i] = s
      BY <1>1, <1>2, <3>1
    <3> QED BY <3>2, <1>m DEF IsMember
  <2>3. r \in FamilyReqs(g)
    <3>1. Len(f[x]) + 1 \in DOMAIN g[x] /\ g[x][Len(f[x]) + 1] = r
      BY <1>2
    <3> QED BY <3>1, <1>m DEF IsMember
  <2> QED BY <2>1, <2>2, <2>3
<1>4. ASSUME FamilyDistinct(f), \A s \in FamilyReqs(f) : s.id # r.id
      PROVE  FamilyDistinct(g)
  <2>1. \A y \in DOMAIN f : \A i \in DOMAIN f[y] : f[y][i].id # r.id
    BY <1>4, <1>m DEF IsMember
  <2> SUFFICES ASSUME NEW y \in DOMAIN f, NEW z \in DOMAIN f, NEW i \in DOMAIN g[y],
                      NEW j \in DOMAIN g[z], g[y][i].id = g[z][j].id
               PROVE  y = z /\ i = j
    BY <1>1 DEF FamilyDistinct
  <2>2. CASE y = x /\ z = x
    BY <1>2, <1>4, <2>1, <2>2 DEF FamilyDistinct
  <2>3. CASE y = x /\ z # x
    <3>1. CASE g[x][i] = r
      BY <1>1, <2>1, <2>3, <3>1
    <3>2. CASE i \in DOMAIN f[x] /\ g[x][i] = f[x][i]
      BY <1>1, <1>4, <2>3, <3>2 DEF FamilyDistinct
    <3> QED BY <1>2, <2>3, <3>1, <3>2
  <2>4. CASE y # x /\ z = x
    <3>1. CASE g[x][j] = r
      BY <1>1, <2>1, <2>4, <3>1
    <3>2. CASE j \in DOMAIN f[x] /\ g[x][j] = f[x][j]
      BY <1>1, <1>4, <2>4, <3>2 DEF FamilyDistinct
    <3> QED BY <1>2, <2>4, <3>1, <3>2
  <2>5. CASE y # x /\ z # x
    BY <1>1, <1>4, <2>5 DEF FamilyDistinct
  <2> QED BY <2>2, <2>3, <2>4, <2>5
<1> QED BY <1>3, <1>4 DEF g

(* Taking the head of one member of a family. *)
LEMMA FamilyTail ==
  ASSUME NEW f, f \in [DOMAIN f -> Seq(Request)], NEW x \in DOMAIN f, f[x] # << >>,
         FamilyDistinct(f)
  PROVE  /\ FamilyReqs([f EXCEPT ![x] = Tail(f[x])]) = FamilyReqs(f) \ {Head(f[x])}
         /\ Head(f[x]) \in FamilyReqs(f)
         /\ FamilyDistinct([f EXCEPT ![x] = Tail(f[x])])
<1> DEFINE g == [f EXCEPT ![x] = Tail(f[x])]
<1>1. g \in [DOMAIN f -> Seq(Request)] /\ DOMAIN g = DOMAIN f /\ g[x] = Tail(f[x])
      /\ \A y \in DOMAIN f \ {x} : g[y] = f[y]
  BY TailEntries
<1> HIDE DEF g
<1>2. /\ Head(f[x]) = f[x][1] /\ 1 \in DOMAIN f[x]
      /\ \A i \in DOMAIN g[x] : i \in Nat /\ i + 1 \in DOMAIN f[x] /\ i + 1 # 1
                                /\ g[x][i] = f[x][i + 1]
      /\ \A i \in DOMAIN f[x] : i # 1 => i - 1 \in DOMAIN g[x] /\ g[x][i - 1] = f[x][i]
  BY <1>1, TailEntries
<1>a. g \in [DOMAIN g -> Seq(Request)]
  BY <1>1
<1>m. /\ \A s : s \in FamilyReqs(f) <=> IsMember(s, DOMAIN f, f)
      /\ \A s : s \in FamilyReqs(g) <=> IsMember(s, DOMAIN f, g)
  BY <1>1, <1>a, FamilyMember
<1>3. Head(f[x]) \in FamilyReqs(f)
  BY <1>2, <1>m DEF IsMember
<1>4. FamilyReqs(g) = FamilyReqs(f) \ {Head(f[x])}
  <2>1. ASSUME NEW s \in FamilyReqs(g) PROVE s \in FamilyReqs(f) /\ s # Head(f[x])
    <3>1. PICK y \in DOMAIN f : \E i \in DOMAIN g[y] : g[y][i] = s
      BY <1>1, <2>1, <1>m DEF IsMember
    <3>2. CASE y = x
      <4>1. PICK i \in DOMAIN g[x] : g[x][i] = s
        BY <3>1, <3>2
      <4>2. i + 1 \in DOMAIN f[x] /\ f[x][i + 1] = s /\ i + 1 # 1
        BY <1>2, <4>1
      <4>3. s \in FamilyReqs(f)
        BY <4>2, <1>m DEF IsMember
      <4>4. s # f[x][1]
        <5>1. PICK k \in DOMAIN f[x] : k = i + 1 /\ f[x][k] = s /\ k # 1
          BY <4>2
        <5>2. f[x][k].id = f[x][1].id => k = 1
          BY <1>2, <5>1 DEF FamilyDistinct
        <5> QED BY <5>1, <5>2
      <4> QED BY <1>2, <4>3, <4>4
    <3>3. CASE y # x
      <4>1. PICK i \in DOMAIN f[y] : f[y][i] = s
        BY <1>1, <3>1, <3>3
      <4>2. s \in FamilyReqs(f)
        BY <4>1, <1>m DEF IsMember
      <4>3. s # f[x][1]
        BY <1>2, <3>3, <4>1 DEF FamilyDistinct
      <4> QED BY <1>2, <4>2, <4>3
    <3> QED BY <3>2, <3>3
  <2>2. ASSUME NEW s \in FamilyReqs(f), s # Head(f[x]) PROVE s \in FamilyReqs(g)
    <3>0. PICK y \in DOMAIN f : \E i \in DOMAIN f[y] : f[y][i] = s
      BY <2>2, <1>m DEF IsMember
    <3>1. PICK i \in DOMAIN f[y] : f[y][i] = s
      BY <3>0
    <3>2. PICK j \in DOMAIN g[y] : g[y][j] = s
      <4>1. CASE y = x
        <5>1. i # 1
          BY <1>2, <2>2, <3>1, <4>1
        <5>2. i - 1 \in DOMAIN g[x] /\ g[x][i - 1] = s
          BY <1>2, <3>1, <4>1, <5>1
        <5> QED BY <4>1, <5>2
      <4>2. CASE y # x
        BY <1>1, <3>1, <4>2
      <4> QED BY <4>1, <4>2
    <3> QED BY <3>2, <1>m DEF IsMember
  <2> QED BY <2>1, <2>2
<1>5. FamilyDistinct(g)
  <2> SUFFICES ASSUME NEW y \in DOMAIN f, NEW z \in DOMAIN f, NEW i \in DOMAIN g[y],
                      NEW j \in DOMAIN g[z], g[y][i].id = g[z][j].id
               PROVE  y = z /\ i = j
    BY <1>1 DEF FamilyDistinct
  <2>1. CASE y = x /\ z = x
    <3>1. i + 1 = j + 1 /\ i \in Nat /\ j \in Nat
      BY <1>2, <2>1 DEF FamilyDistinct
    <3> QED BY <2>1, <3>1
  <2>2. CASE y = x /\ z # x
    BY <1>1, <1>2, <2>2 DEF FamilyDistinct
  <2>3. CASE y # x /\ z = x
    BY <1>1, <1>2, <2>3 DEF FamilyDistinct
  <2>4. CASE y # x /\ z # x
    BY <1>1, <2>4 DEF FamilyDistinct
  <2> QED BY <2>1, <2>2, <2>3, <2>4
<1> QED BY <1>3, <1>4, <1>5 DEF g

(* Filling an empty member of a family.                                     *)
LEMMA FamilyFill ==
  ASSUME NEW f, f \in [DOMAIN f -> Seq(Request)], NEW x \in DOMAIN f, f[x] = << >>,
         NEW b \in Seq(Request)
  PROVE  /\ FamilyReqs([f EXCEPT ![x] = b]) = FamilyReqs(f) \cup Elems(b)
         /\ FamilyDistinct(f) /\ FamilyDistinct(<<b>>)
            /\ (\A r \in Elems(b), s \in FamilyReqs(f) : s.id # r.id)
              => FamilyDistinct([f EXCEPT ![x] = b])
<1> DEFINE g == [f EXCEPT ![x] = b]
<1>1. /\ g \in [DOMAIN f -> Seq(Request)] /\ DOMAIN g = DOMAIN f
      /\ g[x] = b /\ \A y \in DOMAIN f \ {x} : g[y] = f[y]
  OBVIOUS
<1> HIDE DEF g
<1>2. DOMAIN f[x] = {} /\ \A r : r \in Elems(b) <=> \E i \in DOMAIN b : b[i] = r
  BY ElemsMember
<1>a. g \in [DOMAIN g -> Seq(Request)]
  BY <1>1
<1>m. /\ \A s : s \in FamilyReqs(f) <=> IsMember(s, DOMAIN f, f)
      /\ \A s : s \in FamilyReqs(g) <=> IsMember(s, DOMAIN f, g)
  BY <1>1, <1>a, FamilyMember
<1>3. FamilyReqs(g) = FamilyReqs(f) \cup Elems(b)
  <2>1. ASSUME NEW s \in FamilyReqs(g) PROVE s \in FamilyReqs(f) \cup Elems(b)
    <3>1. PICK y \in DOMAIN f : \E i \in DOMAIN g[y] : g[y][i] = s
      BY <2>1, <1>m DEF IsMember
    <3>2. CASE y = x
      BY <1>1, <1>2, <3>1, <3>2
    <3>3. CASE y # x
      BY <1>1, <3>1, <3>3, <1>m DEF IsMember
    <3> QED BY <3>2, <3>3
  <2>2. ASSUME NEW s \in FamilyReqs(f) PROVE s \in FamilyReqs(g)
    <3>1. PICK y \in DOMAIN f : \E i \in DOMAIN f[y] : f[y][i] = s
      BY <2>2, <1>m DEF IsMember
    <3>2. y # x /\ g[y] = f[y]
      BY <1>1, <1>2, <3>1
    <3> QED BY <3>1, <3>2, <1>m DEF IsMember
  <2>3. ASSUME NEW s \in Elems(b) PROVE s \in FamilyReqs(g)
    <3>1. \E i \in DOMAIN g[x] : g[x][i] = s
      BY <1>1, <1>2, <2>3
    <3> QED BY <3>1, <1>m DEF IsMember
  <2> QED BY <2>1, <2>2, <2>3
<1>4. ASSUME FamilyDistinct(f), FamilyDistinct(<<b>>),
             \A r \in Elems(b), s \in FamilyReqs(f) : s.id # r.id
      PROVE  FamilyDistinct(g)
  <2>1. \A i, j \in DOMAIN b : b[i].id = b[j].id => i = j
    BY <1>4 DEF FamilyDistinct
  <2>2. \A y \in DOMAIN f \ {x} : \A j \in DOMAIN f[y] : \A i \in DOMAIN b : f[y][j].id # b[i].id
    <3> SUFFICES ASSUME NEW y \in DOMAIN f, NEW j \in DOMAIN f[y], NEW i \in DOMAIN b
                 PROVE  f[y][j].id # b[i].id
      OBVIOUS
    <3>1. f[y][j] \in FamilyReqs(f)
      BY <1>m DEF IsMember
    <3>2. b[i] \in Elems(b)
      BY <1>2
    <3> QED BY <1>4, <3>1, <3>2
  <2> SUFFICES ASSUME NEW y \in DOMAIN f, NEW z \in DOMAIN f, NEW i \in DOMAIN g[y],
                      NEW j \in DOMAIN g[z], g[y][i].id = g[z][j].id
               PROVE  y = z /\ i = j
    BY <1>1 DEF FamilyDistinct
  <2>3. CASE y = x /\ z = x
    BY <1>1, <2>1, <2>3
  <2>4. CASE y = x /\ z # x
    BY <1>1, <2>2, <2>4
  <2>5. CASE y # x /\ z = x
    BY <1>1, <2>2, <2>5
  <2>6. CASE y # x /\ z # x
    BY <1>1, <1>4, <2>6 DEF FamilyDistinct
  <2> QED BY <2>3, <2>4, <2>5, <2>6
<1> QED BY <1>3, <1>4 DEF g

(* The queue of batches is a family, too.                                   *)
LEMMA QueueMember ==
  ASSUME NEW q \in Seq(Seq(Request))
  PROVE  /\ q \in [1..Len(q) -> Seq(Request)] /\ DOMAIN q = 1..Len(q)
         /\ \A r : r \in FamilyReqs(q) <=> IsMember(r, DOMAIN q, q)
<1>1. q \in [1..Len(q) -> Seq(Request)] /\ DOMAIN q = 1..Len(q)
  OBVIOUS
<1> QED BY <1>1, FamilyMember

(* A batch behind the others: its requests join those of the queue.         *)
LEMMA QueuePush ==
  ASSUME NEW q \in Seq(Seq(Request)), NEW b \in Seq(Request)
  PROVE  /\ FamilyReqs(Append(q, b)) = FamilyReqs(q) \cup Elems(b)
         /\ FamilyDistinct(q) /\ FamilyDistinct(<<b>>)
            /\ (\A r \in Elems(b), s \in FamilyReqs(q) : s.id # r.id)
              => FamilyDistinct(Append(q, b))
<1> DEFINE g == Append(q, b)
           last == Len(q) + 1
<1>1. /\ g \in Seq(Seq(Request)) /\ DOMAIN g = DOMAIN q \cup {last}
      /\ last \notin DOMAIN q /\ g[last] = b
      /\ \A i \in DOMAIN q : g[i] = q[i]
  BY AppendEntries
<1> HIDE DEF g, last
<1>2. \A r : r \in Elems(b) <=> \E i \in DOMAIN b : b[i] = r
  BY DEF Elems
<1>m. /\ \A s : s \in FamilyReqs(q) <=> IsMember(s, DOMAIN q, q)
      /\ \A s : s \in FamilyReqs(g) <=> IsMember(s, DOMAIN g, g)
  BY <1>1, QueueMember
<1>3. FamilyReqs(g) = FamilyReqs(q) \cup Elems(b)
  <2>1. ASSUME NEW s \in FamilyReqs(g) PROVE s \in FamilyReqs(q) \cup Elems(b)
    <3>1. PICK y \in DOMAIN g : \E i \in DOMAIN g[y] : g[y][i] = s
      BY <2>1, <1>m DEF IsMember
    <3> QED BY <1>1, <1>2, <3>1, <1>m DEF IsMember
  <2>2. ASSUME NEW s \in FamilyReqs(q) PROVE s \in FamilyReqs(g)
    <3>1. PICK y \in DOMAIN q : \E i \in DOMAIN q[y] : q[y][i] = s
      BY <2>2, <1>m DEF IsMember
    <3> QED BY <1>1, <3>1, <1>m DEF IsMember
  <2>3. ASSUME NEW s \in Elems(b) PROVE s \in FamilyReqs(g)
    BY <1>1, <1>2, <2>3, <1>m DEF IsMember
  <2> QED BY <2>1, <2>2, <2>3
<1>4. ASSUME FamilyDistinct(q), FamilyDistinct(<<b>>),
             \A r \in Elems(b), s \in FamilyReqs(q) : s.id # r.id
      PROVE  FamilyDistinct(g)
  <2>1. \A i, j \in DOMAIN b : b[i].id = b[j].id => i = j
    BY <1>4 DEF FamilyDistinct
  <2>2. \A y \in DOMAIN q : \A j \in DOMAIN q[y] : \A i \in DOMAIN b : q[y][j].id # b[i].id
    BY <1>2, <1>4, <1>m DEF IsMember
  <2> QED BY <1>1, <1>4, <2>1, <2>2 DEF FamilyDistinct
<1> QED BY <1>3, <1>4 DEF g

(* The oldest batch leaves the queue with all its requests.                 *)
LEMMA QueuePop ==
  ASSUME NEW q \in Seq(Seq(Request)), q # << >>, FamilyDistinct(q)
  PROVE  /\ FamilyReqs(Tail(q)) = FamilyReqs(q) \ Elems(Head(q))
         /\ Elems(Head(q)) \subseteq FamilyReqs(q)
         /\ FamilyDistinct(Tail(q)) /\ FamilyDistinct(<<Head(q)>>)
<1> DEFINE g == Tail(q)
           b == Head(q)
<1>1. /\ g \in Seq(Seq(Request)) /\ b = q[1] /\ 1 \in DOMAIN q
      /\ \A i \in DOMAIN g : i \in Nat /\ i + 1 \in DOMAIN q /\ i + 1 # 1
                             /\ g[i] = q[i + 1]
      /\ \A i \in DOMAIN q : i # 1 => i - 1 \in DOMAIN g /\ g[i - 1] = q[i]
  BY TailEntries
<1>0. b \in Seq(Request)
  BY <1>1
<1> HIDE DEF g, b
<1>2. \A r : r \in Elems(b) <=> \E i \in DOMAIN b : b[i] = r
  BY <1>0, ElemsMember
<1>m. /\ \A s : s \in FamilyReqs(q) <=> IsMember(s, DOMAIN q, q)
      /\ \A s : s \in FamilyReqs(g) <=> IsMember(s, DOMAIN g, g)
  BY <1>1, QueueMember
<1>3. Elems(b) \subseteq FamilyReqs(q)
  BY <1>1, <1>2, <1>m DEF IsMember
<1>4. FamilyReqs(g) = FamilyReqs(q) \ Elems(b)
  <2>1. ASSUME NEW s \in FamilyReqs(g) PROVE s \in FamilyReqs(q) /\ s \notin Elems(b)
    <3>1. PICK y \in DOMAIN g : \E i \in DOMAIN g[y] : g[y][i] = s
      BY <2>1, <1>m DEF IsMember
    <3>2. PICK i \in DOMAIN q[y + 1] : q[y + 1][i] = s
      BY <1>1, <3>1
    <3>3. s \in FamilyReqs(q)
      BY <1>1, <3>2, <1>m DEF IsMember
    <3>4. \A j \in DOMAIN b : b[j] # s
      BY <1>1, <3>2 DEF FamilyDistinct
    <3> QED BY <1>2, <3>3, <3>4
  <2>2. ASSUME NEW s \in FamilyReqs(q), s \notin Elems(b) PROVE s \in FamilyReqs(g)
    <3>1. PICK y \in DOMAIN q : \E i \in DOMAIN q[y] : q[y][i] = s
      BY <2>2, <1>m DEF IsMember
    <3>2. y # 1
      BY <1>1, <1>2, <2>2, <3>1
    <3>3. y - 1 \in DOMAIN g /\ g[y - 1] = q[y]
      BY <1>1, <3>2
    <3> QED BY <3>1, <3>3, <1>m DEF IsMember
  <2> QED BY <2>1, <2>2
<1>5. FamilyDistinct(g)
  <2> SUFFICES ASSUME NEW y \in DOMAIN g, NEW z \in DOMAIN g, NEW i \in DOMAIN g[y],
                      NEW j \in DOMAIN g[z], g[y][i].id = g[z][j].id
               PROVE  y = z /\ i = j
    BY DEF FamilyDistinct
  <2>1. y + 1 \in DOMAIN q /\ z + 1 \in DOMAIN q /\ g[y] = q[y + 1] /\ g[z] = q[z + 1]
        /\ y \in Nat /\ z \in Nat
    BY <1>1
  <2>2. y + 1 = z + 1 /\ i = j
    BY <2>1 DEF FamilyDistinct
  <2> QED BY <2>1, <2>2
<1>6. FamilyDistinct(<<b>>)
  <2>1. \A i, j \in DOMAIN b : b[i].id = b[j].id => i = j
    BY <1>1 DEF FamilyDistinct
  <2> QED BY <2>1 DEF FamilyDistinct
<1> QED BY <1>3, <1>4, <1>5, <1>6 DEF g, b

(* The same for the families of the workers.                                *)
LEMMA WorkersAppend ==
  ASSUME NEW f \in [Workers -> Seq(Request)], NEW x \in Workers, NEW r \in Request
  PROVE  /\ FamilyReqs([f EXCEPT ![x] = Append(f[x], r)]) = FamilyReqs(f) \cup {r}
         /\ FamilyDistinct(f) /\ (\A s \in FamilyReqs(f) : s.id # r.id)
              => FamilyDistinct([f EXCEPT ![x] = Append(f[x], r)])
BY FamilyAppend

LEMMA WorkersTail ==
  ASSUME NEW f \in [Workers -> Seq(Request)], NEW x \in Workers, f[x] # << >>,
         FamilyDistinct(f)
  PROVE  /\ FamilyReqs([f EXCEPT ![x] = Tail(f[x])]) = FamilyReqs(f) \ {Head(f[x])}
         /\ Head(f[x]) \in FamilyReqs(f)
         /\ FamilyDistinct([f EXCEPT ![x] = Tail(f[x])])
BY FamilyTail

LEMMA WorkersFill ==
  ASSUME NEW f \in [Workers -> Seq(Request)], NEW x \in Workers, f[x] = << >>,
         NEW b \in Seq(Request)
  PROVE  /\ FamilyReqs([f EXCEPT ![x] = b]) = FamilyReqs(f) \cup Elems(b)
         /\ FamilyDistinct(f) /\ FamilyDistinct(<<b>>)
            /\ (\A r \in Elems(b), s \in FamilyReqs(f) : s.id # r.id)
              => FamilyDistinct([f EXCEPT ![x] = b])
BY FamilyFill

(* A single queue as a family of one.                                       *)
LEMMA SingleFamily ==
  ASSUME NEW q \in Seq(Request)
  PROVE  /\ <<q>> \in [{1} -> Seq(Request)] /\ <<q>>[1] = q
         /\ FamilyReqs(<<q>>) = Elems(q)
         /\ FamilyDistinct(<<q>>) <=>
              \A i, j \in DOMAIN q : q[i].id = q[j].id => i = j
<1>1. <<q>> \in [{1} -> Seq(Request)] /\ DOMAIN <<q>> = {1} /\ <<q>>[1] = q
  OBVIOUS
<1>2. FamilyReqs(<<q>>) = Elems(q)
  BY <1>1 DEF FamilyReqs
<1>3. FamilyDistinct(<<q>>) <=> \A i, j \in DOMAIN q : q[i].id = q[j].id => i = j
  BY <1>1 DEF FamilyDistinct
<1> QED BY <1>1, <1>2, <1>3

(* The retry queue as a family of one.                                      *)
LEMMA SinglePush ==
  ASSUME NEW q \in Seq(Request), NEW r \in Request
  PROVE  /\ FamilyReqs(<<Append(q, r)>>) = FamilyReqs(<<q>>) \cup {r}
         /\ FamilyDistinct(<<q>>) /\ (\A s \in FamilyReqs(<<q>>) : s.id # r.id)
              => FamilyDistinct(<<Append(q, r)>>)
<1> DEFINE f == <<q>>
<1>1. /\ f \in [{1} -> Seq(Request)] /\ DOMAIN f = {1} /\ f[1] = q
      /\ [f EXCEPT ![1] = Append(f[1], r)] = <<Append(q, r)>>
  BY SingleFamily
<1> HIDE DEF f
<1>2. /\ FamilyReqs([f EXCEPT ![1] = Append(f[1], r)]) = FamilyReqs(f) \cup {r}
      /\ FamilyDistinct(f) /\ (\A s \in FamilyReqs(f) : s.id # r.id)
           => FamilyDistinct([f EXCEPT ![1] = Append(f[1], r)])
  BY <1>1, FamilyAppend
<1> QED BY <1>1, <1>2 DEF f

LEMMA SinglePop ==
  ASSUME NEW q \in Seq(Request), q # << >>, FamilyDistinct(<<q>>)
  PROVE  /\ FamilyReqs(<<Tail(q)>>) = FamilyReqs(<<q>>) \ {Head(q)}
         /\ Head(q) \in FamilyReqs(<<q>>)
         /\ FamilyDistinct(<<Tail(q)>>)
<1> DEFINE f == <<q>>
<1>1. /\ f \in [{1} -> Seq(Request)] /\ DOMAIN f = {1} /\ f[1] = q
      /\ [f EXCEPT ![1] = Tail(f[1])] = <<Tail(q)>> /\ FamilyDistinct(f)
  BY SingleFamily
<1> HIDE DEF f
<1>2. /\ FamilyReqs([f EXCEPT ![1] = Tail(f[1])]) = FamilyReqs(f) \ {Head(f[1])}
      /\ Head(f[1]) \in FamilyReqs(f)
      /\ FamilyDistinct([f EXCEPT ![1] = Tail(f[1])])
  BY <1>1, FamilyTail
<1> QED BY <1>1, <1>2 DEF f

(* A batch of one, which is what a backoff timer puts on the queue.         *)
LEMMA BatchOfOne ==
  ASSUME NEW r \in Request
  PROVE  <<r>> \in Seq(Request) /\ Elems(<<r>>) = {r} /\ FamilyDistinct(<<<<r>>>>)
<1>1. <<r>> \in Seq(Request) /\ DOMAIN <<r>> = {1} /\ <<r>>[1] = r
  OBVIOUS
<1>2. Elems(<<r>>) = {r}
  BY DEF Elems
<1>3. FamilyDistinct(<<<<r>>>>)
  BY <1>1, SingleFamily
<1> QED BY <1>1, <1>2, <1>3

-----------------------------------------------------------------------------
(* The requests of each kind of place *)

LEMMA HeldIs ==
  /\ Held["queue"] = FamilyReqs(queue) /\ Held["batch"] = FamilyReqs(BatchOf)
  /\ Held["wq"] = FamilyReqs(wq) /\ Held["respq"] = FamilyReqs(RespondedTo)
  /\ Held["sending"] = {sender[x[1]][x[2]].req : x \in SendingPairs}
  /\ Held["retry"] = {worker[w].resp.req : w \in RetryingWorkers}
  /\ Held["retryq"] = FamilyReqs(<<retryq>>)
  /\ Held["backoff"] = backoff /\ Held["quota"] = quota
BY DEF Held, Kinds

LEMMA HeldIsNext ==
  /\ Held'["queue"] = FamilyReqs(queue') /\ Held'["batch"] = FamilyReqs(BatchOf')
  /\ Held'["wq"] = FamilyReqs(wq') /\ Held'["respq"] = FamilyReqs(RespondedTo')
  /\ Held'["sending"] = {sender'[x[1]][x[2]].req : x \in SendingPairs'}
  /\ Held'["retry"] = {worker'[w].resp.req : w \in RetryingWorkers'}
  /\ Held'["retryq"] = FamilyReqs(<<retryq'>>)
  /\ Held'["backoff"] = backoff' /\ Held'["quota"] = quota'
BY DEF Held, Kinds

LEMMA ReqsOfType ==
  ASSUME NEW q \in Seq(Response)
  PROVE  /\ ReqsOf(q) \in Seq(Request) /\ DOMAIN ReqsOf(q) = DOMAIN q
         /\ \A i \in DOMAIN q : ReqsOf(q)[i] = q[i].req
         /\ q # << >> => ReqsOf(Tail(q)) = Tail(ReqsOf(q)) /\ ReqsOf(q) # << >>
                         /\ Head(ReqsOf(q)) = Head(q).req
         /\ \A r \in Response : ReqsOf(Append(q, r)) = Append(ReqsOf(q), r.req)
<1>1. \A i \in 1..Len(q) : q[i].req \in Request
  <2>1. \A i \in 1..Len(q) : q[i] \in Response
    OBVIOUS
  <2> QED BY <2>1 DEF Response
<1>2. ReqsOf(q) \in Seq(Request) /\ Len(ReqsOf(q)) = Len(q) /\ DOMAIN ReqsOf(q) = DOMAIN q
  <2>1. Len(q) \in Nat /\ DOMAIN q = 1..Len(q)
    OBVIOUS
  <2>2. ReqsOf(q) \in [1..Len(q) -> Request]
    BY <1>1 DEF ReqsOf
  <2> QED BY <2>1, <2>2, FunctionIsSeq
<1>3. \A i \in DOMAIN q : ReqsOf(q)[i] = q[i].req
  BY DEF ReqsOf
<1>4. ASSUME q # << >>
      PROVE  ReqsOf(Tail(q)) = Tail(ReqsOf(q)) /\ ReqsOf(q) # << >>
             /\ Head(ReqsOf(q)) = Head(q).req
  <2>1. /\ Len(q) \in Nat /\ Len(q) > 0 /\ Tail(q) \in Seq(Response)
        /\ Len(Tail(q)) = Len(q) - 1 /\ DOMAIN Tail(q) = 1..(Len(q) - 1)
        /\ \A i \in 1..(Len(q) - 1) : Tail(q)[i] = q[i + 1] /\ i + 1 \in 1..Len(q)
    BY <1>4
  <2>2. /\ ReqsOf(q) # << >> /\ Tail(ReqsOf(q)) \in Seq(Request)
        /\ Len(Tail(ReqsOf(q))) = Len(q) - 1
        /\ \A i \in 1..(Len(q) - 1) : Tail(ReqsOf(q))[i] = ReqsOf(q)[i + 1]
    BY <1>2, <2>1
  <2>3. /\ Len(ReqsOf(Tail(q))) = Len(q) - 1
        /\ \A i \in 1..(Len(q) - 1) : ReqsOf(Tail(q))[i] = q[i + 1].req
    BY <2>1 DEF ReqsOf
  <2>4. ReqsOf(Tail(q)) \in Seq(Request)
    <3>1. \A i \in 1..(Len(q) - 1) : q[i + 1].req \in Request
      BY <1>1, <2>1
    <3>2. ReqsOf(Tail(q)) \in [1..(Len(q) - 1) -> Request] /\ Len(q) - 1 \in Nat
      BY <2>1, <3>1 DEF ReqsOf
    <3> QED BY <3>2, FunctionIsSeq
  <2>5. ReqsOf(Tail(q)) = Tail(ReqsOf(q))
    <3>1. \A i \in 1..Len(ReqsOf(Tail(q))) : ReqsOf(Tail(q))[i] = Tail(ReqsOf(q))[i]
      BY <2>1, <2>2, <2>3 DEF ReqsOf
    <3> QED BY <2>2, <2>3, <2>4, <3>1, SeqEqual
  <2>6. ReqsOf(q) # << >> /\ Head(ReqsOf(q)) = Head(q).req
    BY <1>2, <2>1 DEF ReqsOf
  <2> QED BY <2>5, <2>6
<1>5. ASSUME NEW r \in Response
      PROVE  ReqsOf(Append(q, r)) = Append(ReqsOf(q), r.req)
  BY <1>2, <1>3 DEF ReqsOf, Response
<1> QED BY <1>2, <1>3, <1>4, <1>5

LEMMA PlaceTypes ==
  ASSUME TypeOK
  PROVE  /\ queue \in Seq(Seq(Request)) /\ retryq \in Seq(Request)
         /\ wq \in [Workers -> Seq(Request)] /\ BatchOf \in [Workers -> Seq(Request)]
         /\ RespondedTo \in [Workers -> Seq(Request)]
         /\ respq \in [Workers -> Seq(Response)]
         /\ backoff \subseteq Request /\ quota \subseteq Request
         /\ \A w \in Workers : worker[w].resp \in Response
<1>1. RespondedTo \in [Workers -> Seq(Request)]
  BY ReqsOfType DEF TypeOK, TypeQueues, RespondedTo
<1> QED BY <1>1 DEF TypeOK, TypeQueues, TypeGoroutines, BatchOf

(* Requests leave the places of kind a and join those of kind b.            *)
Moves(a, b, X, Y) ==
    /\ a \in Kinds /\ b \in Kinds /\ a # b
    /\ X \subseteq Held[a]
    /\ Held'[a] = Held[a] \ X /\ Held'[b] = Held[b] \cup Y
    /\ \A k \in Kinds \ {a, b} : Held'[k] = Held[k]

(* One request goes on, perhaps with another count of tries, or it is gone. *)
Carried(a, b, r, s) == Moves(a, b, {r}, {s}) /\ s.id = r.id
Dropped(a, r) == \E b \in Kinds : Moves(a, b, {r}, {})

(* Wherever requests go, they stay real and apart, if those that arrive     *)
(* have the notifications of those that leave, or new ones.                 *)
LEMMA MoveKeepsApart ==
  ASSUME OnlyRealRequests, OneKind,
         NEW a, NEW b, NEW X, NEW Y, Moves(a, b, X, Y),
         \A r \in Y : \/ \E s \in X : s.id = r.id
                      \/ \A k \in Kinds : \A s \in Held[k] : s.id # r.id,
         \A r, s \in Y : r.id = s.id => r = s,
         \A r \in Y : r.id \in Notifs,
         closed \subseteq closed'
  PROVE  OnlyRealRequests' /\ OneKind'
<1>1. OneKind'
  BY DEF Moves, OneKind
<1>2. OnlyRealRequests'
  BY DEF Moves, OnlyRealRequests
<1> QED BY <1>1, <1>2

LEMMA CarryKeepsApart ==
  ASSUME OnlyRealRequests, OneKind, NEW a, NEW b, NEW r, NEW s, Carried(a, b, r, s),
         r.id \in Notifs, closed \subseteq closed'
  PROVE  OnlyRealRequests' /\ OneKind'
BY MoveKeepsApart DEF Carried

LEMMA DropKeepsApart ==
  ASSUME OnlyRealRequests, OneKind, NEW a, NEW r, Dropped(a, r), closed \subseteq closed'
  PROVE  OnlyRealRequests' /\ OneKind'
BY MoveKeepsApart DEF Dropped

(* Every held request but the ticker's zero one is of a notification.       *)
LEMMA HeldAreReal ==
  ASSUME OnlyRealRequests, NEW k \in Kinds, k # "backoff", NEW r \in Held[k]
  PROVE  r.id \in Notifs
BY DEF OnlyRealRequests

LEMMA SendingMember ==
  /\ \A r : r \in Held["sending"] <=>
       \E w \in Workers : \E s \in Senders : sender[w][s].pc = "sending" /\ sender[w][s].req = r
  /\ \A r : r \in Held'["sending"] <=>
       \E w \in Workers : \E s \in Senders : sender'[w][s].pc = "sending" /\ sender'[w][s].req = r
<1>1. \A x \in SendingPairs : x[1] \in Workers /\ x[2] \in Senders /\ sender[x[1]][x[2]].pc = "sending"
  BY DEF SendingPairs, Pairs
<1>2. \A x \in SendingPairs' : x[1] \in Workers /\ x[2] \in Senders /\ sender'[x[1]][x[2]].pc = "sending"
  BY DEF SendingPairs, Pairs
<1>3. \A w \in Workers, s \in Senders : <<w, s>> \in SendingPairs <=> sender[w][s].pc = "sending"
  BY DEF SendingPairs, Pairs
<1>4. \A w \in Workers, s \in Senders : <<w, s>> \in SendingPairs' <=> sender'[w][s].pc = "sending"
  BY DEF SendingPairs, Pairs
<1>5. ASSUME NEW r \in Held["sending"]
      PROVE  \E w \in Workers : \E s \in Senders : sender[w][s].pc = "sending" /\ sender[w][s].req = r
  <2>1. PICK x \in SendingPairs : r = sender[x[1]][x[2]].req
    BY HeldIs
  <2> QED BY <1>1, <2>1
<1>6. ASSUME NEW w \in Workers, NEW s \in Senders, sender[w][s].pc = "sending"
      PROVE  sender[w][s].req \in Held["sending"]
  <2>1. <<w, s>> \in SendingPairs /\ sender[<<w, s>>[1]][<<w, s>>[2]].req = sender[w][s].req
    BY <1>3, <1>6
  <2>2. \A x \in SendingPairs : sender[x[1]][x[2]].req \in Held["sending"]
    BY HeldIs
  <2> QED BY <2>1, <2>2
<1>7. ASSUME NEW r \in Held'["sending"]
      PROVE  \E w \in Workers : \E s \in Senders : sender'[w][s].pc = "sending" /\ sender'[w][s].req = r
  <2>1. PICK x \in SendingPairs' : r = sender'[x[1]][x[2]].req
    BY HeldIsNext
  <2> QED BY <1>2, <2>1
<1>8. ASSUME NEW w \in Workers, NEW s \in Senders, sender'[w][s].pc = "sending"
      PROVE  sender'[w][s].req \in Held'["sending"]
  <2>1. <<w, s>> \in SendingPairs' /\ sender'[<<w, s>>[1]][<<w, s>>[2]].req = sender'[w][s].req
    BY <1>4, <1>8
  <2>2. \A x \in SendingPairs' : sender'[x[1]][x[2]].req \in Held'["sending"]
    BY HeldIsNext
  <2> QED BY <2>1, <2>2
<1> QED BY <1>5, <1>6, <1>7, <1>8

(* What an action that leaves a variable alone keeps.                       *)
LEMMA SameWorker ==
  ASSUME UNCHANGED worker
  PROVE  /\ BatchOf' = BatchOf /\ Held'["batch"] = Held["batch"]
         /\ Held'["retry"] = Held["retry"] /\ (OneRetrier => OneRetrier')
<1>1. BatchOf' = BatchOf /\ RetryingWorkers' = RetryingWorkers
  BY DEF BatchOf, RetryingWorkers
<1> QED BY <1>1, HeldIs, HeldIsNext DEF OneRetrier

LEMMA SameSender ==
  ASSUME UNCHANGED sender
  PROVE  Held'["sending"] = Held["sending"] /\ (OneSender => OneSender')
<1>1. SendingPairs' = SendingPairs
  BY DEF SendingPairs
<1> QED BY <1>1, HeldIs, HeldIsNext DEF OneSender

LEMMA SameRespq ==
  ASSUME UNCHANGED respq
  PROVE  RespondedTo' = RespondedTo /\ Held'["respq"] = Held["respq"]
<1>1. RespondedTo' = RespondedTo
  BY DEF RespondedTo
<1> QED BY <1>1, HeldIs, HeldIsNext

(* A worker that goes from one state to another with the same batch; what   *)
(* it retries is the difference.                                            *)
LEMMA WorkerMoves ==
  ASSUME TypeOK, NEW w \in Workers, NEW st \in WorkerState,
         worker' = [worker EXCEPT ![w] = st], st.batch = worker[w].batch
  PROVE  /\ BatchOf' = BatchOf /\ Held'["batch"] = Held["batch"]
         /\ worker[w].pc # "retry" /\ st.pc # "retry" =>
              Held'["retry"] = Held["retry"] /\ (OneRetrier => OneRetrier')
         /\ worker[w].pc # "retry" /\ st.pc = "retry" =>
              /\ Held'["retry"] = Held["retry"] \cup {st.resp.req}
              /\ OneRetrier /\ (\A r \in Held["retry"] : r.id # st.resp.req.id)
                   => OneRetrier'
         /\ worker[w].pc = "retry" /\ st.pc # "retry" /\ OneRetrier =>
              /\ worker[w].resp.req \in Held["retry"]
              /\ Held'["retry"] = Held["retry"] \ {worker[w].resp.req}
              /\ OneRetrier'
<1>1. /\ worker \in [Workers -> WorkerState]
      /\ worker'[w] = st /\ \A v \in Workers \ {w} : worker'[v] = worker[v]
  BY DEF TypeOK, TypeGoroutines, WorkerState
<1>2. BatchOf' = BatchOf
  BY <1>1 DEF BatchOf
<1>3. Held'["batch"] = Held["batch"]
  BY <1>2, HeldIs, HeldIsNext
<1>4. /\ \A v : v \in RetryingWorkers <=> v \in Workers /\ worker[v].pc = "retry"
      /\ \A v : v \in RetryingWorkers' <=> v \in Workers /\ worker'[v].pc = "retry"
      /\ \A r : r \in Held["retry"] <=> \E v \in RetryingWorkers : worker[v].resp.req = r
      /\ \A r : r \in Held'["retry"] <=> \E v \in RetryingWorkers' : worker'[v].resp.req = r
  BY HeldIs, HeldIsNext DEF RetryingWorkers
<1>5. ASSUME worker[w].pc # "retry", st.pc # "retry"
      PROVE  Held'["retry"] = Held["retry"] /\ (OneRetrier => OneRetrier')
  <2>1. w \notin RetryingWorkers /\ \A v \in RetryingWorkers : worker'[v] = worker[v]
    BY <1>1, <1>4, <1>5
  <2>2. \A v : v \in RetryingWorkers' <=> v \in RetryingWorkers
    BY <1>1, <1>4, <1>5
  <2>3. RetryingWorkers' = RetryingWorkers
    BY <2>2
  <2>4. \A r : r \in Held'["retry"] <=> r \in Held["retry"]
    BY <1>4, <2>1, <2>2
  <2>5. Held'["retry"] = Held["retry"]
    BY <2>4
  <2> QED BY <2>1, <2>3, <2>5 DEF OneRetrier
<1>6. ASSUME worker[w].pc # "retry", st.pc = "retry"
      PROVE  /\ Held'["retry"] = Held["retry"] \cup {st.resp.req}
             /\ OneRetrier /\ (\A r \in Held["retry"] : r.id # st.resp.req.id)
                  => OneRetrier'
  <2>1. RetryingWorkers' = RetryingWorkers \cup {w} /\ w \notin RetryingWorkers
    BY <1>1, <1>4, <1>6
  <2>2. \A v \in RetryingWorkers : worker'[v] = worker[v]
    BY <1>1, <1>4, <2>1
  <2>3. Held'["retry"] = Held["retry"] \cup {st.resp.req}
    BY <1>1, <1>4, <2>1, <2>2
  <2>4. ASSUME OneRetrier, \A r \in Held["retry"] : r.id # st.resp.req.id
        PROVE  OneRetrier'
    <3>1. \A v \in RetryingWorkers : worker[v].resp.req.id # st.resp.req.id
      BY <1>4, <2>4
    <3> QED BY <1>1, <2>1, <2>2, <2>4, <3>1 DEF OneRetrier
  <2> QED BY <2>3, <2>4
<1>7. ASSUME worker[w].pc = "retry", st.pc # "retry", OneRetrier
      PROVE  /\ worker[w].resp.req \in Held["retry"]
             /\ Held'["retry"] = Held["retry"] \ {worker[w].resp.req}
             /\ OneRetrier'
  <2>1. RetryingWorkers' = RetryingWorkers \ {w} /\ w \in RetryingWorkers
    BY <1>1, <1>4, <1>7
  <2>2. \A v \in RetryingWorkers' : worker'[v] = worker[v]
    BY <1>1, <1>4, <2>1
  <2>3. \A v \in RetryingWorkers' : worker[v].resp.req # worker[w].resp.req
    BY <1>7, <2>1 DEF OneRetrier
  <2>4. Held'["retry"] = Held["retry"] \ {worker[w].resp.req}
    BY <1>4, <2>1, <2>2, <2>3
  <2>5. OneRetrier'
    BY <1>7, <2>1, <2>2 DEF OneRetrier
  <2> QED BY <1>4, <2>1, <2>4, <2>5
<1> QED BY <1>2, <1>3, <1>5, <1>6, <1>7

(* The same for a sender.                                                   *)
LEMMA SenderMoves ==
  ASSUME TypeOK, OneSender, NEW w \in Workers, NEW s \in Senders, NEW st \in SenderState,
         sender' = [sender EXCEPT ![w] = [sender[w] EXCEPT ![s] = st]]
  PROVE  /\ sender[w][s].pc # "sending" /\ st.pc # "sending" =>
              Held'["sending"] = Held["sending"] /\ OneSender'
         /\ sender[w][s].pc # "sending" /\ st.pc = "sending" =>
              /\ Held'["sending"] = Held["sending"] \cup {st.req}
              /\ (\A r \in Held["sending"] : r.id # st.req.id) => OneSender'
         /\ sender[w][s].pc = "sending" /\ st.pc # "sending" =>
              /\ sender[w][s].req \in Held["sending"]
              /\ Held'["sending"] = Held["sending"] \ {sender[w][s].req}
              /\ OneSender'
<1>1. /\ sender'[w][s] = st
      /\ \A v \in Workers, t \in Senders :
           v # w \/ t # s => sender'[v][t] = sender[v][t]
  BY DEF TypeOK, TypeGoroutines
<1>2. ASSUME sender[w][s].pc # "sending", st.pc # "sending"
      PROVE  Held'["sending"] = Held["sending"] /\ OneSender'
  <2>1. \A v \in Workers, t \in Senders :
          /\ sender'[v][t].pc = "sending" <=> sender[v][t].pc = "sending"
          /\ sender[v][t].pc = "sending" => sender'[v][t] = sender[v][t]
    BY <1>1, <1>2
  <2>2. \A r : r \in Held'["sending"] <=> r \in Held["sending"]
    BY <2>1, SendingMember
  <2>3. Held'["sending"] = Held["sending"]
    BY <2>2
  <2> QED BY <2>1, <2>3 DEF OneSender
<1>3. ASSUME sender[w][s].pc # "sending", st.pc = "sending"
      PROVE  /\ Held'["sending"] = Held["sending"] \cup {st.req}
             /\ (\A r \in Held["sending"] : r.id # st.req.id) => OneSender'
  <2>1. Held'["sending"] = Held["sending"] \cup {st.req}
    <3>1. ASSUME NEW r \in Held'["sending"] PROVE r \in Held["sending"] \cup {st.req}
      BY <1>1, <3>1, SendingMember
    <3>2. ASSUME NEW r \in Held["sending"] PROVE r \in Held'["sending"]
      BY <1>1, <1>3, <3>2, SendingMember
    <3>3. st.req \in Held'["sending"]
      BY <1>1, <1>3, SendingMember
    <3> QED BY <3>1, <3>2, <3>3
  <2>2. ASSUME \A r \in Held["sending"] : r.id # st.req.id PROVE OneSender'
    <3>1. \A v \in Workers, t \in Senders :
            sender[v][t].pc = "sending" => sender[v][t].req.id # st.req.id
      BY <2>2, SendingMember
    <3> QED BY <1>1, <3>1 DEF OneSender
  <2> QED BY <2>1, <2>2
<1>4. ASSUME sender[w][s].pc = "sending", st.pc # "sending"
      PROVE  /\ sender[w][s].req \in Held["sending"]
             /\ Held'["sending"] = Held["sending"] \ {sender[w][s].req}
             /\ OneSender'
  <2>1. \A v \in Workers, t \in Senders :
          (v # w \/ t # s) /\ sender[v][t].pc = "sending"
            => sender[v][t].req # sender[w][s].req
    BY <1>4 DEF OneSender
  <2>2. sender[w][s].req \in Held["sending"]
    BY <1>4, SendingMember
  <2>3. Held'["sending"] = Held["sending"] \ {sender[w][s].req}
    <3>1. ASSUME NEW r \in Held'["sending"]
          PROVE  r \in Held["sending"] /\ r # sender[w][s].req
      BY <1>1, <1>4, <2>1, <3>1, SendingMember
    <3>2. ASSUME NEW r \in Held["sending"], r # sender[w][s].req
          PROVE  r \in Held'["sending"]
      BY <1>1, <3>2, SendingMember
    <3> QED BY <3>1, <3>2
  <2>4. OneSender'
    BY <1>1, <1>4 DEF OneSender
  <2> QED BY <2>2, <2>3, <2>4
<1> QED BY <1>2, <1>3, <1>4

-----------------------------------------------------------------------------
(* Where each step moves requests *)

(* What the worker does with its batch or its response changes none of its  *)
(* other places.                                                            *)
LEMMA RecvRequestsPlaces ==
  ASSUME TypeOK, PlacesInv, NEW w \in Workers, RecvRequests(w)
  PROVE  /\ Moves("queue", "batch", Elems(Head(queue)), Elems(Head(queue)))
         /\ OnePlace'
<1>1. /\ queue \in Seq(Seq(Request)) /\ queue # << >> /\ queue' = Tail(queue)
      /\ BatchOf \in [Workers -> Seq(Request)] /\ BatchOf[w] = << >>
      /\ Head(queue) \in Seq(Request)
      /\ worker \in [Workers -> WorkerState] /\ worker[w].pc = "select"
      /\ worker' = [worker EXCEPT ![w] = Distributing(Head(queue))]
      /\ UNCHANGED <<retryq, backoff, quota, wq, respq, sender>>
  BY PlaceTypes, HeadTailType DEF RecvRequests, TypeOK, TypeGoroutines, BatchOf, WorkerState
<1>2. BatchOf' = [BatchOf EXCEPT ![w] = Head(queue)]
  BY <1>1 DEF BatchOf, Distributing, Selecting
<1>3. RetryingWorkers' = RetryingWorkers /\ w \notin RetryingWorkers
  BY <1>1 DEF RetryingWorkers, Distributing, Selecting
<1>4. \A v \in RetryingWorkers : worker'[v] = worker[v]
  BY <1>1, <1>3
<1>5. /\ FamilyReqs(queue') = FamilyReqs(queue) \ Elems(Head(queue))
      /\ Elems(Head(queue)) \subseteq FamilyReqs(queue)
      /\ FamilyDistinct(queue') /\ FamilyDistinct(<<Head(queue)>>)
  BY <1>1, QueuePop DEF PlacesInv, OnePlace
<1>6. FamilyReqs(BatchOf') = FamilyReqs(BatchOf) \cup Elems(Head(queue))
  BY <1>1, <1>2, WorkersFill
<1>7. \A r \in Elems(Head(queue)), s \in FamilyReqs(BatchOf) : s.id # r.id
  BY <1>5, HeldIs DEF PlacesInv, OneKind, Kinds
<1>8. FamilyDistinct(BatchOf')
  BY <1>1, <1>2, <1>5, <1>7, WorkersFill DEF PlacesInv, OnePlace
<1>9. RespondedTo' = RespondedTo /\ SendingPairs' = SendingPairs
  BY <1>1 DEF RespondedTo, SendingPairs
<1>10. Held'["retry"] = Held["retry"] /\ OneRetrier'
  BY <1>3, <1>4, HeldIs, HeldIsNext DEF OneRetrier, PlacesInv, OnePlace
<1>11. OneSender'
  BY <1>1, <1>9 DEF OneSender, PlacesInv, OnePlace
<1>12. OnePlace'
  BY <1>1, <1>5, <1>8, <1>9, <1>10, <1>11 DEF PlacesInv, OnePlace
<1>13. Held'["sending"] = Held["sending"]
  BY <1>1, <1>9, HeldIs, HeldIsNext
<1>14. Moves("queue", "batch", Elems(Head(queue)), Elems(Head(queue)))
  BY <1>1, <1>5, <1>6, <1>9, <1>10, <1>13, HeldIs, HeldIsNext DEF Moves, Kinds
<1> QED BY <1>12, <1>14

LEMMA DistributePlaces ==
  ASSUME TypeOK, PlacesInv, NEW w \in Workers, Distribute(w)
  PROVE  (\E r : Carried("batch", "wq", r, r)) /\ OnePlace'
<1> DEFINE r == Head(BatchOf[w])
<1>1. /\ BatchOf \in [Workers -> Seq(Request)] /\ BatchOf[w] = worker[w].batch
      /\ BatchOf[w] # << >> /\ wq \in [Workers -> Seq(Request)] /\ r \in Request
      /\ worker \in [Workers -> WorkerState] /\ worker[w].pc = "distribute"
      /\ worker' = [worker EXCEPT ![w] = Distributing(Tail(worker[w].batch))]
      /\ wq' = [wq EXCEPT ![w] = Append(wq[w], r)]
      /\ UNCHANGED <<queue, retryq, backoff, quota, respq, sender>>
  BY PlaceTypes, HeadTailType
     DEF Distribute, TypeOK, TypeGoroutines, BatchOf, WorkerState, pipeline
<1> HIDE DEF r
<1>2. BatchOf' = [BatchOf EXCEPT ![w] = Tail(BatchOf[w])]
  BY <1>1 DEF BatchOf, Distributing, Selecting
<1>3. RetryingWorkers' = RetryingWorkers /\ w \notin RetryingWorkers
  BY <1>1 DEF RetryingWorkers, Distributing, Selecting
<1>4. \A v \in RetryingWorkers : worker'[v] = worker[v]
  BY <1>1, <1>3
<1>5. /\ FamilyReqs(BatchOf') = FamilyReqs(BatchOf) \ {r} /\ r \in FamilyReqs(BatchOf)
      /\ FamilyDistinct(BatchOf')
  BY <1>1, <1>2, WorkersTail DEF PlacesInv, OnePlace, r
<1>6. \A s \in FamilyReqs(wq) : s.id # r.id
  BY <1>5, HeldIs DEF PlacesInv, OneKind, Kinds
<1>7. FamilyReqs(wq') = FamilyReqs(wq) \cup {r} /\ FamilyDistinct(wq')
  BY <1>1, <1>6, WorkersAppend DEF PlacesInv, OnePlace
<1>9. RespondedTo' = RespondedTo /\ SendingPairs' = SendingPairs
  BY <1>1 DEF RespondedTo, SendingPairs
<1>10. Held'["retry"] = Held["retry"] /\ OneRetrier'
  BY <1>3, <1>4, HeldIs, HeldIsNext DEF OneRetrier, PlacesInv, OnePlace
<1>11. OneSender'
  BY <1>1, <1>9 DEF OneSender, PlacesInv, OnePlace
<1>12. OnePlace'
  BY <1>1, <1>5, <1>7, <1>9, <1>10, <1>11 DEF PlacesInv, OnePlace
<1>13. Held'["sending"] = Held["sending"]
  BY <1>1, <1>9, HeldIs, HeldIsNext
<1>14. Moves("batch", "wq", {r}, {r})
  BY <1>1, <1>5, <1>7, <1>9, <1>10, <1>13, HeldIs, HeldIsNext DEF Moves, Kinds
<1> QED BY <1>12, <1>14 DEF Carried

(* A worker takes the next answer: the request is resent now, later, or no  *)
(* more.                                                                    *)
Answering(w) == Head(respq[w])

LEMMA RecvResponsePlaces ==
  ASSUME TypeOK, PlacesInv, NEW w \in Workers, RecvResponse(w)
  PROVE  /\ RetriedNow(Answering(w).ans)
              => Carried("respq", "retry", Answering(w).req, Answering(w).req)
         /\ RetriedLater(Answering(w).ans)
              => Carried("respq", "quota", Answering(w).req, Answering(w).req)
         /\ ~RetriedNow(Answering(w).ans) /\ ~RetriedLater(Answering(w).ans)
              => Dropped("respq", Answering(w).req)
         /\ OnePlace'
<1> DEFINE r == Answering(w)
           q == r.req
           st == CASE RetriedNow(r.ans) -> Handling("retry", r)
                   [] Hooked(r.ans) /\ ~RetriedNow(r.ans) -> Handling("hook", r)
                   [] OTHER -> Selecting
<1>1. /\ respq \in [Workers -> Seq(Response)] /\ respq[w] # << >>
      /\ r \in Response /\ q \in Request
      /\ respq' = [respq EXCEPT ![w] = Tail(respq[w])]
      /\ UNCHANGED <<queue, retryq, backoff, wq, sender>>
  <2>1. respq \in [Workers -> Seq(Response)] /\ respq[w] # << >>
        /\ respq' = [respq EXCEPT ![w] = Tail(respq[w])]
        /\ UNCHANGED <<queue, retryq, backoff, wq, sender>>
    BY PlaceTypes DEF RecvResponse
  <2>2. r \in Response
    BY <2>1, HeadTailType DEF Answering
  <2> QED BY <2>1, <2>2 DEF Response
<1>2. /\ worker[w].pc = "select" /\ worker[w].batch = << >>
      /\ worker' = [worker EXCEPT ![w] = st]
      /\ quota' = IF RetriedLater(r.ans) THEN quota \cup {q} ELSE quota
  BY DEF RecvResponse, Answering, TypeOK, TypeGoroutines
<1>3. /\ st \in WorkerState /\ st.batch = << >>
      /\ RetriedNow(r.ans) => st.pc = "retry" /\ st.resp.req = q
      /\ ~RetriedNow(r.ans) => st.pc # "retry"
  BY <1>1, SelectingType, HandlingType DEF Handling, Selecting
<1> HIDE DEF r, q, st
<1>4. /\ RespondedTo \in [Workers -> Seq(Request)]
      /\ RespondedTo' = [RespondedTo EXCEPT ![w] = Tail(RespondedTo[w])]
      /\ RespondedTo[w] # << >> /\ Head(RespondedTo[w]) = q
  BY <1>1, PlaceTypes, ReqsOfType DEF RespondedTo, r, q, Answering
<1>5. /\ Held'["respq"] = Held["respq"] \ {q} /\ q \in Held["respq"]
      /\ FamilyDistinct(RespondedTo')
  BY <1>4, WorkersTail, HeldIs, HeldIsNext DEF PlacesInv, OnePlace
<1>6. \A s \in Held["retry"] : s.id # q.id
  BY <1>5 DEF PlacesInv, OneKind, Kinds
<1>7. /\ BatchOf' = BatchOf /\ Held'["batch"] = Held["batch"]
      /\ RetriedNow(r.ans) => Held'["retry"] = Held["retry"] \cup {q}
      /\ ~RetriedNow(r.ans) => Held'["retry"] = Held["retry"]
      /\ OneRetrier'
  <2>1. worker[w].pc # "retry" /\ st.batch = worker[w].batch /\ OneRetrier
    BY <1>2, <1>3 DEF PlacesInv, OnePlace
  <2>2. CASE RetriedNow(r.ans)
    <3>1. st.pc = "retry" /\ st.resp.req = q
      BY <1>3, <2>2
    <3>2. \A s \in Held["retry"] : s.id # st.resp.req.id
      BY <1>6, <3>1
    <3>3. /\ BatchOf' = BatchOf /\ Held'["batch"] = Held["batch"]
          /\ Held'["retry"] = Held["retry"] \cup {st.resp.req}
      BY <1>2, <1>3, <2>1, <3>1, WorkerMoves
    <3>4. OneRetrier'
      BY <1>2, <1>3, <2>1, <3>1, <3>2, WorkerMoves
    <3> QED BY <2>2, <3>1, <3>3, <3>4
  <2>3. CASE ~RetriedNow(r.ans)
    BY <1>2, <1>3, <2>1, <2>3, WorkerMoves
  <2> QED BY <2>2, <2>3
<1>8. Held'["sending"] = Held["sending"] /\ OneSender'
  BY <1>1, SameSender DEF PlacesInv, OnePlace
<1>9. OnePlace'
  BY <1>1, <1>5, <1>7, <1>8 DEF PlacesInv, OnePlace
<1>10. /\ Held'["queue"] = Held["queue"] /\ Held'["wq"] = Held["wq"]
       /\ Held'["retryq"] = Held["retryq"] /\ Held'["backoff"] = Held["backoff"]
       /\ RetriedLater(r.ans) => Held'["quota"] = Held["quota"] \cup {q}
       /\ ~RetriedLater(r.ans) => Held'["quota"] = Held["quota"]
  BY <1>1, <1>2, HeldIs, HeldIsNext
<1>11. ~(RetriedNow(r.ans) /\ RetriedLater(r.ans))
  BY DEF RetriedNow, RetriedLater
<1>12. ASSUME RetriedNow(r.ans) PROVE Moves("respq", "retry", {q}, {q})
  BY <1>5, <1>7, <1>8, <1>10, <1>11, <1>12 DEF Moves, Kinds
<1>13. ASSUME RetriedLater(r.ans) PROVE Moves("respq", "quota", {q}, {q})
  BY <1>5, <1>7, <1>8, <1>10, <1>11, <1>13 DEF Moves, Kinds
<1>14. ASSUME ~RetriedNow(r.ans), ~RetriedLater(r.ans)
       PROVE  Moves("respq", "quota", {q}, {})
  BY <1>5, <1>7, <1>8, <1>10, <1>14 DEF Moves, Kinds
<1>15. "quota" \in Kinds
  BY DEF Kinds
<1> QED BY <1>9, <1>12, <1>13, <1>14, <1>15 DEF Carried, Dropped, r, q

(* retry() puts a request with one more try on the retry queue, or it is    *)
(* gone: given up, dropped, or lost with the process.                       *)
Settled(a, r, f) == Dropped(a, r) /\ fate' = Settle({r.id}, f) /\ panic' = panic
Crashed(a, r) == Dropped(a, r) /\ fate' = fate /\ panic' # "none"
Resent(a, r) ==
    \/ /\ Carried(a, "retryq", r, NextTry(r)) /\ r.tries < SendRetryCount
       /\ fate' = fate /\ panic' = panic
    \/ \E f \in {"dropped", "exhausted"} : Settled(a, r, f)
    \/ Crashed(a, r)

LEMMA NextTryType ==
  ASSUME NEW r \in Request, r.tries < SendRetryCount
  PROVE  /\ NextTry(r) \in Request /\ NextTry(r).id = r.id
         /\ NextTry(r).tries = r.tries + 1
BY SizesInNat DEF Request, NextTry

LEMMA RetryPlaces ==
  ASSUME TypeOK, PlacesInv, NEW a \in {"retry", "quota"}, NEW r \in Held[a],
         r \in Request, Retry(r), Held'[a] = Held[a] \ {r},
         \A k \in Kinds \ {a, "retryq"} : Held'[k] = Held[k]
  PROVE  Resent(a, r) /\ FamilyDistinct(<<retryq>>)'
<1> DEFINE result == TrySend(retryq, "retryq" \in closed, RetryqSize)
<1>1. /\ result \in {"sent", "full", "panic"} /\ retryq \in Seq(Request)
      /\ a \in Kinds /\ "retryq" \in Kinds /\ a # "retryq"
      /\ FamilyDistinct(<<retryq>>)
  BY PlaceTypes DEF TrySend, Kinds, PlacesInv, OnePlace
<1>2. CASE r.tries < SendRetryCount /\ result = "sent"
  <2>1. /\ retryq' = Append(retryq, NextTry(r)) /\ fate' = fate /\ panic' = panic
    BY <1>2 DEF Retry
  <2>2. \A s \in FamilyReqs(<<retryq>>) : s.id # NextTry(r).id
    BY <1>1, <1>2, NextTryType, HeldIs DEF PlacesInv, OneKind
  <2>3. /\ FamilyReqs(<<retryq'>>) = FamilyReqs(<<retryq>>) \cup {NextTry(r)}
        /\ FamilyDistinct(<<retryq'>>)
    BY <1>1, <1>2, <2>1, <2>2, NextTryType, SinglePush
  <2>4. Moves(a, "retryq", {r}, {NextTry(r)})
    BY <1>1, <2>3, HeldIs, HeldIsNext DEF Moves
  <2> QED BY <1>2, <2>1, <2>3, <2>4, NextTryType DEF Resent, Carried
<1>3. ASSUME retryq' = retryq PROVE Dropped(a, r) /\ FamilyDistinct(<<retryq>>)'
  <2>1. Moves(a, "retryq", {r}, {})
    BY <1>1, <1>3, HeldIs, HeldIsNext DEF Moves
  <2> QED BY <1>1, <1>3, <2>1 DEF Dropped
<1>4. CASE r.tries < SendRetryCount /\ result = "full"
  <2>1. retryq' = retryq /\ fate' = Settle({r.id}, "dropped") /\ panic' = panic
    BY <1>4 DEF Retry
  <2> QED BY <1>3, <2>1 DEF Resent, Settled
<1>5. CASE r.tries < SendRetryCount /\ result = "panic"
  <2>1. retryq' = retryq /\ fate' = fate /\ panic' = "retryq"
    BY <1>5 DEF Retry
  <2> QED BY <1>3, <2>1 DEF Resent, Crashed
<1>6. CASE ~(r.tries < SendRetryCount)
  <2>1. retryq' = retryq /\ fate' = Settle({r.id}, "exhausted") /\ panic' = panic
    BY <1>6 DEF Retry
  <2> QED BY <1>3, <2>1 DEF Resent, Settled
<1> QED BY <1>1, <1>2, <1>4, <1>5, <1>6

LEMMA WorkerRetryPlaces ==
  ASSUME TypeOK, PlacesInv, NEW w \in Workers, WorkerRetry(w)
  PROVE  /\ worker[w].resp.req \in Held["retry"]
         /\ Resent("retry", worker[w].resp.req) /\ OnePlace'
<1> DEFINE q == worker[w].resp.req
           st == IF Hooked(worker[w].resp.ans) THEN [worker[w] EXCEPT !.pc = "hook"]
                                               ELSE Selecting
<1>1. /\ worker[w].pc = "retry" /\ worker[w].batch = << >> /\ Retry(q)
      /\ worker[w] \in WorkerState /\ worker' = [worker EXCEPT ![w] = st]
      /\ UNCHANGED <<queue, backoff, quota, wq, respq, sender>>
  BY DEF WorkerRetry, TypeOK, TypeGoroutines, WorkerState
<1>2. q \in Request
  BY PlaceTypes DEF Response
<1>3. st \in WorkerState /\ st.batch = << >> /\ st.pc # "retry"
  BY <1>1, SelectingType DEF WorkerState, Selecting
<1> HIDE DEF q, st
<1>4. /\ BatchOf' = BatchOf /\ Held'["batch"] = Held["batch"] /\ OneRetrier'
      /\ q \in Held["retry"] /\ Held'["retry"] = Held["retry"] \ {q}
  BY <1>1, <1>3, WorkerMoves DEF PlacesInv, OnePlace, q
<1>5. /\ Held'["sending"] = Held["sending"] /\ OneSender'
      /\ RespondedTo' = RespondedTo /\ Held'["respq"] = Held["respq"]
  BY <1>1, SameSender, SameRespq DEF PlacesInv, OnePlace
<1>6. \A k \in Kinds \ {"retry", "retryq"} : Held'[k] = Held[k]
  BY <1>1, <1>4, <1>5, HeldIs, HeldIsNext DEF Kinds
<1>7. Resent("retry", q) /\ FamilyDistinct(<<retryq>>)'
  BY <1>1, <1>2, <1>4, <1>6, RetryPlaces
<1>8. OnePlace'
  BY <1>1, <1>4, <1>5, <1>7 DEF PlacesInv, OnePlace
<1> QED BY <1>4, <1>7, <1>8 DEF q

LEMMA QuotaFirePlaces ==
  ASSUME TypeOK, PlacesInv, NEW r \in quota, QuotaFire(r)
  PROVE  r \in Held["quota"] /\ Resent("quota", r) /\ OnePlace'
<1>1. /\ quota' = quota \ {r} /\ Retry(r)
      /\ UNCHANGED <<queue, backoff, wq, respq, worker, sender>>
  BY DEF QuotaFire, workerVars
<1>2. r \in Held["quota"] /\ r \in Request /\ Held'["quota"] = Held["quota"] \ {r}
  BY <1>1, PlaceTypes, HeldIs, HeldIsNext
<1>3. /\ Held'["sending"] = Held["sending"] /\ OneSender'
      /\ RespondedTo' = RespondedTo /\ Held'["respq"] = Held["respq"]
      /\ BatchOf' = BatchOf /\ Held'["batch"] = Held["batch"]
      /\ Held'["retry"] = Held["retry"] /\ OneRetrier'
  BY <1>1, SameSender, SameRespq, SameWorker DEF PlacesInv, OnePlace
<1>4. \A k \in Kinds \ {"quota", "retryq"} : Held'[k] = Held[k]
  BY <1>1, <1>3, HeldIs, HeldIsNext DEF Kinds
<1>5. Resent("quota", r) /\ FamilyDistinct(<<retryq>>)'
  BY <1>1, <1>2, <1>4, RetryPlaces
<1>6. OnePlace'
  BY <1>1, <1>3, <1>5 DEF PlacesInv, OnePlace
<1> QED BY <1>2, <1>5, <1>6

(* A sender takes a request to send it, and its answer goes to the worker.  *)
LEMMA SenderTakePlaces ==
  ASSUME TypeOK, PlacesInv, NEW w \in Workers, NEW s \in Senders, SenderTake(w, s)
  PROVE  (\E r \in Held["wq"] : Carried("wq", "sending", r, r)) /\ OnePlace'
<1> DEFINE r == Head(wq[w])
           st == [pc |-> "sending", req |-> r]
<1>1. /\ wq \in [Workers -> Seq(Request)] /\ wq[w] # << >> /\ r \in Request
      /\ wq' = [wq EXCEPT ![w] = Tail(wq[w])]
      /\ UNCHANGED <<queue, retryq, backoff, quota, worker, respq>>
  BY PlaceTypes, HeadTailType DEF SenderTake, pipeline
<1>2. /\ sender[w][s].pc = "idle"
      /\ sender' = [sender EXCEPT ![w] = [sender[w] EXCEPT ![s] = st]]
  BY DEF SenderTake, TypeOK, TypeGoroutines
<1>3. st \in SenderState /\ st.pc = "sending" /\ st.req = r
  BY <1>1 DEF SenderState
<1> HIDE DEF r, st
<1>4. /\ Held'["wq"] = Held["wq"] \ {r} /\ r \in Held["wq"] /\ FamilyDistinct(wq')
  BY <1>1, WorkersTail, HeldIs, HeldIsNext DEF PlacesInv, OnePlace, r
<1>5. \A x \in Held["sending"] : x.id # st.req.id
  BY <1>3, <1>4 DEF PlacesInv, OneKind, Kinds
<1>6. Held'["sending"] = Held["sending"] \cup {r}
  BY <1>2, <1>3, SenderMoves DEF PlacesInv, OnePlace
<1>7. OneSender'
  BY <1>2, <1>3, <1>5, SenderMoves DEF PlacesInv, OnePlace
<1>8. /\ BatchOf' = BatchOf /\ Held'["batch"] = Held["batch"]
      /\ Held'["retry"] = Held["retry"] /\ OneRetrier'
      /\ RespondedTo' = RespondedTo /\ Held'["respq"] = Held["respq"]
  BY <1>1, SameWorker, SameRespq DEF PlacesInv, OnePlace
<1>9. OnePlace'
  BY <1>1, <1>4, <1>7, <1>8 DEF PlacesInv, OnePlace
<1>10. Moves("wq", "sending", {r}, {r})
  BY <1>1, <1>4, <1>6, <1>8, HeldIs, HeldIsNext DEF Moves, Kinds
<1> QED BY <1>4, <1>9, <1>10 DEF Carried

LEMMA SenderAnswerPlaces ==
  ASSUME TypeOK, PlacesInv, NEW w \in Workers, NEW s \in Senders,
         NEW a \in Answers, NEW taken \in BOOLEAN, SenderAnswer(w, s, a, taken),
         NEW r, r = sender[w][s].req
  PROVE  /\ r \in Held["sending"] /\ OnePlace'
         /\ \/ /\ Carried("sending", "respq", r, r) /\ fate' = fate /\ panic' = panic
               /\ respq' = [respq EXCEPT ![w] = Append(respq[w], [req |-> r, ans |-> a])]
            \/ Settled("sending", r, "dropped") /\ respq' = respq
            \/ Crashed("sending", r) /\ respq' = respq
<1> DEFINE result == TrySend(respq[w], RespqClosed(w), RespqSize)
           st == [pc |-> "idle", req |-> NoReq]
           x == [req |-> r, ans |-> a]
<1>1. /\ respq \in [Workers -> Seq(Response)] /\ sender[w][s].pc = "sending"
      /\ sender' = [sender EXCEPT ![w] = [sender[w] EXCEPT ![s] = st]]
      /\ UNCHANGED <<queue, retryq, backoff, quota, worker, wq>>
  BY PlaceTypes DEF SenderAnswer, TypeOK, TypeGoroutines, pipeline
<1>2. r \in Request /\ x \in Response /\ x.req = r
  BY DEF TypeOK, TypeGoroutines, Response
<1>3. st \in SenderState /\ st.pc # "sending"
  BY NoReqType DEF SenderState
<1>4. /\ result = "sent" => /\ respq' = [respq EXCEPT ![w] = Append(respq[w], x)]
                            /\ fate' = fate /\ panic' = panic
      /\ result = "full" => respq' = respq /\ fate' = Settle({r.id}, "dropped")
                            /\ panic' = panic
      /\ result = "panic" => respq' = respq /\ fate' = fate /\ panic' # "none"
      /\ result \in {"sent", "full", "panic"}
  BY DEF SenderAnswer, TrySend
<1> HIDE DEF result, st, x
<1>5. /\ r \in Held["sending"] /\ Held'["sending"] = Held["sending"] \ {r} /\ OneSender'
  BY <1>1, <1>3, SenderMoves DEF PlacesInv, OnePlace
<1>6. /\ BatchOf' = BatchOf /\ Held'["batch"] = Held["batch"]
      /\ Held'["retry"] = Held["retry"] /\ OneRetrier'
  BY <1>1, SameWorker DEF PlacesInv, OnePlace
<1>7. \A k \in Kinds \ {"sending", "respq"} : Held'[k] = Held[k]
  BY <1>1, <1>6, HeldIs, HeldIsNext DEF Kinds
<1>8. CASE result = "sent"
  <2>1. /\ RespondedTo \in [Workers -> Seq(Request)]
        /\ RespondedTo' = [RespondedTo EXCEPT ![w] = Append(RespondedTo[w], r)]
    <3>1. respq' = [respq EXCEPT ![w] = Append(respq[w], x)] /\ respq[w] \in Seq(Response)
      BY <1>1, <1>4, <1>8
    <3>2. ReqsOf(Append(respq[w], x)) = Append(ReqsOf(respq[w]), r)
      BY <1>2, <3>1, ReqsOfType
    <3>3. RespondedTo' = [RespondedTo EXCEPT ![w] = ReqsOf(Append(respq[w], x))]
      BY <1>1, <3>1 DEF RespondedTo
    <3> QED BY <3>2, <3>3, PlaceTypes DEF RespondedTo
  <2>2. \A y \in FamilyReqs(RespondedTo) : y.id # r.id
    BY <1>5, HeldIs DEF PlacesInv, OneKind, Kinds
  <2>3. Held'["respq"] = Held["respq"] \cup {r} /\ FamilyDistinct(RespondedTo')
    <3>1. FamilyReqs(RespondedTo') = FamilyReqs(RespondedTo) \cup {r}
      BY <1>2, <2>1, WorkersAppend
    <3>2. FamilyDistinct(RespondedTo')
      BY <1>2, <2>1, <2>2, WorkersAppend DEF PlacesInv, OnePlace
    <3> QED BY <3>1, <3>2, HeldIs, HeldIsNext
  <2>4. OnePlace'
    BY <1>1, <1>5, <1>6, <2>3 DEF PlacesInv, OnePlace
  <2>5. Moves("sending", "respq", {r}, {r})
    BY <1>5, <1>7, <2>3 DEF Moves, Kinds
  <2> QED BY <1>4, <1>5, <1>8, <2>4, <2>5 DEF Carried, x
<1>9. ASSUME respq' = respq PROVE Dropped("sending", r) /\ OnePlace'
  <2>1. RespondedTo' = RespondedTo /\ Held'["respq"] = Held["respq"]
    BY <1>9, SameRespq
  <2>2. OnePlace'
    BY <1>1, <1>5, <1>6, <2>1 DEF PlacesInv, OnePlace
  <2>3. Moves("sending", "respq", {r}, {}) /\ "respq" \in Kinds
    BY <1>5, <1>7, <2>1 DEF Moves, Kinds
  <2> QED BY <2>2, <2>3 DEF Dropped
<1> QED BY <1>4, <1>5, <1>8, <1>9 DEF Settled, Crashed

(* The steps that move no request at all.                                   *)
Stays == \A k \in Kinds : Held'[k] = Held[k]

LEMMA StayFrame ==
  ASSUME PlacesInv, UNCHANGED <<pipeline, wq, respq>>,
         Held'["batch"] = Held["batch"], Held'["retry"] = Held["retry"],
         Held'["sending"] = Held["sending"], BatchOf' = BatchOf, OneRetrier', OneSender'
  PROVE  Stays /\ OnePlace'
<1>1. RespondedTo' = RespondedTo /\ Held'["respq"] = Held["respq"]
  BY SameRespq
<1>2. OnePlace'
  BY <1>1 DEF PlacesInv, OnePlace, pipeline
<1>3. Stays
  BY <1>1, HeldIs, HeldIsNext DEF Stays, Kinds, pipeline
<1> QED BY <1>2, <1>3

LEMMA SameStays ==
  ASSUME PlacesInv, UNCHANGED <<pipeline, worker, wq, respq, sender>>
  PROVE  Stays /\ OnePlace'
BY SameWorker, SameSender, StayFrame DEF PlacesInv, OnePlace

(* The ticker starts a timer for the oldest request of the retry queue, or  *)
(* for the zero Request when that queue is closed and empty.                *)
LEMMA TickerSweepPlaces ==
  ASSUME TypeOK, PlacesInv, TickerSweep
  PROVE  /\ \/ Stays
            \/ \E r \in Held["retryq"] : Carried("retryq", "backoff", r, r)
            \/ /\ "retryq" \in closed /\ Held'["backoff"] = Held["backoff"] \cup {NoReq}
               /\ \A k \in Kinds \ {"backoff"} : Held'[k] = Held[k]
         /\ OnePlace'
<1>1. UNCHANGED <<queue, quota, worker, wq, respq, sender>>
  BY DEF TickerSweep, workerVars
<1>2. /\ BatchOf' = BatchOf /\ Held'["batch"] = Held["batch"]
      /\ Held'["retry"] = Held["retry"] /\ OneRetrier'
      /\ RespondedTo' = RespondedTo /\ Held'["respq"] = Held["respq"]
      /\ Held'["sending"] = Held["sending"] /\ OneSender'
  BY <1>1, SameWorker, SameRespq, SameSender DEF PlacesInv, OnePlace
<1>3. \A k \in Kinds \ {"retryq", "backoff"} : Held'[k] = Held[k]
  BY <1>1, <1>2, HeldIs, HeldIsNext DEF Kinds
<1>4. CASE retryq # << >>
  <2>1. /\ retryq \in Seq(Request) /\ retryq' = Tail(retryq)
        /\ backoff' = backoff \cup {Head(retryq)}
    BY <1>4, PlaceTypes DEF TickerSweep
  <2>2. /\ Held'["retryq"] = Held["retryq"] \ {Head(retryq)}
        /\ Head(retryq) \in Held["retryq"] /\ FamilyDistinct(<<retryq'>>)
        /\ Held'["backoff"] = Held["backoff"] \cup {Head(retryq)}
    BY <1>4, <2>1, SinglePop, HeldIs, HeldIsNext DEF PlacesInv, OnePlace
  <2>3. Moves("retryq", "backoff", {Head(retryq)}, {Head(retryq)})
    BY <1>3, <2>2 DEF Moves, Kinds
  <2>4. OnePlace'
    BY <1>1, <1>2, <2>2 DEF PlacesInv, OnePlace
  <2> QED BY <2>2, <2>3, <2>4 DEF Carried
<1>5. CASE retryq = << >>
  <2>1. /\ retryq' = retryq
        /\ backoff' = IF "retryq" \in closed THEN backoff \cup {NoReq} ELSE backoff
    BY <1>5 DEF TickerSweep
  <2>2. OnePlace'
    BY <1>1, <1>2, <2>1 DEF PlacesInv, OnePlace
  <2>3. \A k \in Kinds \ {"backoff"} : Held'[k] = Held[k]
    BY <1>3, <2>1, HeldIs, HeldIsNext DEF Kinds
  <2>4. CASE "retryq" \in closed
    BY <2>1, <2>2, <2>3, <2>4, HeldIs, HeldIsNext
  <2>5. CASE "retryq" \notin closed
    BY <2>1, <2>2, <2>3, <2>5, HeldIs, HeldIsNext DEF Stays
  <2> QED BY <2>4, <2>5
<1> QED BY <1>4, <1>5

(* A backoff timer puts its request back on the queue; the zero Request is  *)
(* never sent: the queue is closed by then.                                 *)
LEMMA BackoffFirePlaces ==
  ASSUME TypeOK, ClosingInv, PlacesInv, NEW r \in backoff, BackoffFire(r)
  PROVE  /\ r \in Held["backoff"] /\ OnePlace'
         /\ \/ /\ Carried("backoff", "queue", r, r) /\ r.id \in Notifs
               /\ fate' = fate /\ panic' = panic
            \/ Settled("backoff", r, "dropped") /\ r.id \in Notifs
            \/ Crashed("backoff", r)
<1> DEFINE result == TrySend(queue, "queue" \in closed, QueueSize)
<1>1. /\ backoff' = backoff \ {r}
      /\ UNCHANGED <<retryq, quota, worker, wq, respq, sender>>
  BY DEF BackoffFire, workerVars
<1>2. /\ r \in Held["backoff"] /\ r \in Request
      /\ Held'["backoff"] = Held["backoff"] \ {r}
  BY <1>1, PlaceTypes, HeldIs, HeldIsNext
<1>3. /\ BatchOf' = BatchOf /\ Held'["batch"] = Held["batch"]
      /\ Held'["retry"] = Held["retry"] /\ OneRetrier'
      /\ RespondedTo' = RespondedTo /\ Held'["respq"] = Held["respq"]
      /\ Held'["sending"] = Held["sending"] /\ OneSender'
  BY <1>1, SameWorker, SameRespq, SameSender DEF PlacesInv, OnePlace
<1>4. \A k \in Kinds \ {"backoff", "queue"} : Held'[k] = Held[k]
  BY <1>1, <1>3, HeldIs, HeldIsNext DEF Kinds
<1>5. r.id \in Notifs \/ "queue" \in closed
  <2>1. r.id \in Notifs \/ "retryq" \in closed
    BY <1>2 DEF PlacesInv, OnlyRealRequests, Kinds
  <2>2. "retryq" \in closed => "queue" \in closed
    BY DEF ClosingInv, ClosingOrder, ClosedAt
  <2> QED BY <2>1, <2>2
<1>6. /\ result = "sent" => /\ queue' = Append(queue, <<r>>)
                            /\ fate' = fate /\ panic' = panic
      /\ result = "full" => queue' = queue /\ fate' = Settle({r.id}, "dropped")
                            /\ panic' = panic
      /\ result = "panic" => queue' = queue /\ fate' = fate /\ panic' # "none"
      /\ result \in {"sent", "full", "panic"}
      /\ "queue" \in closed => result = "panic"
  BY DEF BackoffFire, TrySend
<1> HIDE DEF result
<1>7. CASE result = "sent"
  <2>1. /\ queue \in Seq(Seq(Request)) /\ <<r>> \in Seq(Request)
        /\ Elems(<<r>>) = {r} /\ FamilyDistinct(<<<<r>>>>)
    BY <1>2, PlaceTypes, BatchOfOne
  <2>2. \A x \in FamilyReqs(queue) : x.id # r.id
    BY <1>2, HeldIs DEF PlacesInv, OneKind, Kinds
  <2>3. Held'["queue"] = Held["queue"] \cup {r} /\ FamilyDistinct(queue')
    BY <1>6, <1>7, <2>1, <2>2, QueuePush, HeldIs, HeldIsNext DEF PlacesInv, OnePlace
  <2>4. OnePlace'
    BY <1>1, <1>3, <2>3 DEF PlacesInv, OnePlace
  <2>5. Moves("backoff", "queue", {r}, {r})
    BY <1>2, <1>4, <2>3 DEF Moves, Kinds
  <2> QED BY <1>2, <1>5, <1>6, <1>7, <2>4, <2>5 DEF Carried
<1>8. ASSUME queue' = queue PROVE Dropped("backoff", r) /\ OnePlace'
  <2>1. Moves("backoff", "queue", {r}, {}) /\ "queue" \in Kinds
    BY <1>2, <1>4, <1>8, HeldIs, HeldIsNext DEF Moves, Kinds
  <2>2. OnePlace'
    BY <1>1, <1>3, <1>8 DEF PlacesInv, OnePlace
  <2> QED BY <2>1, <2>2 DEF Dropped
<1> QED BY <1>2, <1>5, <1>6, <1>7, <1>8 DEF Settled, Crashed

(* A POST adds requests for notifications the pipeline does not know yet.   *)
NewRequests(p) == [i \in 1..Len(Batch[p]) |-> [id |-> Batch[p][i], tries |-> 0]]

LEMMA NewRequestsAre ==
  ASSUME NEW p \in Posts
  PROVE  /\ NewRequests(p) \in Seq(Request) /\ FamilyDistinct(<<NewRequests(p)>>)
         /\ \A r \in Elems(NewRequests(p)) : r.id \in Elems(Batch[p]) /\ r.id \in Notifs
                                             /\ r.tries = 0
         /\ \A n \in Elems(Batch[p]) : \E r \in Elems(NewRequests(p)) : r.id = n
<1>1. /\ Batch[p] \in Seq(Notifs) /\ Len(Batch[p]) \in Nat
      /\ DOMAIN Batch[p] = 1..Len(Batch[p])
      /\ \A i \in 1..Len(Batch[p]) : Batch[p][i] \in Notifs
  BY NotifsAssumption
<1>2. \A n \in Notifs : [id |-> n, tries |-> 0] \in Request
  BY SizesInNat DEF Request
<1>3. NewRequests(p) \in [1..Len(Batch[p]) -> Request]
  BY <1>1, <1>2 DEF NewRequests
<1>4. NewRequests(p) \in Seq(Request)
  BY <1>1, <1>3, FunctionIsSeq
<1>5. /\ DOMAIN NewRequests(p) = 1..Len(Batch[p])
      /\ \A i \in 1..Len(Batch[p]) : NewRequests(p)[i].id = Batch[p][i]
                                     /\ NewRequests(p)[i].tries = 0
  BY DEF NewRequests
<1>6. \A r : r \in Elems(NewRequests(p)) <=>
        \E i \in 1..Len(Batch[p]) : NewRequests(p)[i] = r
  BY <1>4, <1>5, ElemsMember
<1>7. \A n : n \in Elems(Batch[p]) <=> \E i \in 1..Len(Batch[p]) : Batch[p][i] = n
  BY <1>1, ElemsMember
<1>8. FamilyDistinct(<<NewRequests(p)>>)
  <2>1. \A i, j \in 1..Len(Batch[p]) : Batch[p][i] = Batch[p][j] => i = j
    BY <1>1, BatchAssumption
  <2> QED BY <1>4, <1>5, <2>1, SingleFamily
<1> QED BY <1>1, <1>4, <1>5, <1>6, <1>7, <1>8

LEMMA BatchIsReal == \A p \in Posts : \A n \in Elems(Batch[p]) : n \in Notifs
<1> SUFFICES ASSUME NEW p \in Posts, NEW n \in Elems(Batch[p])
             PROVE  n \in Notifs
  OBVIOUS
<1>1. PICK r \in Elems(NewRequests(p)) : r.id = n
  BY NewRequestsAre
<1> QED BY <1>1, NewRequestsAre

LEMMA EnqueuePlaces ==
  ASSUME TypeOK, CopyInv, NEW p \in Posts, Enqueue(p)
  PROVE  /\ OnePlace' /\ panic' = panic
         /\ \A n \in Elems(Batch[p]) : n \in Notifs /\ fate[n] = "new"
         /\ \/ /\ \E a \in Kinds : Moves(a, "queue", {}, Elems(NewRequests(p)))
               /\ fate' = Settle(Elems(Batch[p]), "pending")
               /\ answer' = [answer EXCEPT ![p] = "accepted"]
            \/ /\ Stays /\ fate' = fate /\ answer' = [answer EXCEPT ![p] = "refused"]
<1> DEFINE result == TrySend(queue, FALSE, QueueSize)
<1>1. /\ answer[p] = "none"
      /\ UNCHANGED <<retryq, backoff, quota, worker, wq, respq, sender, panic>>
  BY DEF Enqueue, workerVars, control
<1>2. /\ result = "sent" => /\ queue' = Append(queue, NewRequests(p))
                            /\ fate' = Settle(Elems(Batch[p]), "pending")
                            /\ answer' = [answer EXCEPT ![p] = "accepted"]
      /\ result # "sent" => /\ queue' = queue /\ fate' = fate
                            /\ answer' = [answer EXCEPT ![p] = "refused"]
  BY DEF Enqueue, TrySend, AnswerTo, NewRequests
<1> HIDE DEF result
<1>3. \A n \in Elems(Batch[p]) : n \in Notifs /\ fate[n] = "new"
  <2>1. \A n \in Elems(Batch[p]) : n \in Notifs
    BY NewRequestsAre
  <2> QED BY <1>1, <2>1 DEF CopyInv, HistoryInv, AnswersAgree
<1>4. \A r \in Elems(NewRequests(p)) : \A k \in Kinds : \A s \in Held[k] : s.id # r.id
  BY <1>3, NewRequestsAre DEF CopyInv, HistoryInv, HeldArePending
<1>5. /\ BatchOf' = BatchOf /\ Held'["batch"] = Held["batch"]
      /\ Held'["retry"] = Held["retry"] /\ OneRetrier'
      /\ RespondedTo' = RespondedTo /\ Held'["respq"] = Held["respq"]
      /\ Held'["sending"] = Held["sending"] /\ OneSender'
  BY <1>1, SameWorker, SameRespq, SameSender DEF CopyInv, PlacesInv, OnePlace
<1>6. \A k \in Kinds \ {"queue"} : Held'[k] = Held[k]
  BY <1>1, <1>5, HeldIs, HeldIsNext DEF Kinds
<1>7. CASE result = "sent"
  <2>1. \A r \in Elems(NewRequests(p)), s \in FamilyReqs(queue) : s.id # r.id
    BY <1>4, HeldIs DEF Kinds
  <2>2. /\ Held'["queue"] = Held["queue"] \cup Elems(NewRequests(p))
        /\ FamilyDistinct(queue')
    <3>1. /\ queue \in Seq(Seq(Request)) /\ NewRequests(p) \in Seq(Request)
          /\ queue' = Append(queue, NewRequests(p)) /\ FamilyDistinct(queue)
          /\ FamilyDistinct(<<NewRequests(p)>>)
      BY <1>2, <1>7, PlaceTypes, NewRequestsAre DEF CopyInv, PlacesInv, OnePlace
    <3>2. FamilyReqs(queue') = FamilyReqs(queue) \cup Elems(NewRequests(p))
      BY <3>1, QueuePush
    <3>3. FamilyDistinct(queue')
      BY <2>1, <3>1, QueuePush
    <3> QED BY <3>2, <3>3, HeldIs, HeldIsNext
  <2>3. Moves("batch", "queue", {}, Elems(NewRequests(p))) /\ "batch" \in Kinds
    BY <1>6, <2>2 DEF Moves, Kinds
  <2>4. OnePlace'
    BY <1>1, <1>5, <2>2 DEF CopyInv, PlacesInv, OnePlace
  <2> QED BY <1>1, <1>2, <1>3, <1>7, <2>3, <2>4
<1>8. CASE result # "sent"
  <2>1. Stays
    BY <1>2, <1>6, <1>8, HeldIs, HeldIsNext DEF Stays
  <2>2. OnePlace'
    BY <1>1, <1>2, <1>5, <1>8 DEF CopyInv, PlacesInv, OnePlace
  <2> QED BY <1>1, <1>2, <1>3, <1>8, <2>1, <2>2
<1> QED BY <1>7, <1>8

(* Every other step leaves the requests where they are.                     *)
Elsewhere ==
    \/ \E w \in Workers : WorkerHook(w) \/ WorkerExit(w) \/ WorkerJoin(w) \/ HookStep(w)
    \/ \E w \in Workers, s \in Senders : SenderGone(w, s)
    \/ TickerTick \/ TickerStop \/ ShutdownBegin \/ ShutdownStep
    \/ UNCHANGED vars

LEMMA ElsewherePlaces ==
  ASSUME TypeOK, PlacesInv, Elsewhere
  PROVE  /\ Stays /\ OnePlace' /\ closed \subseteq closed'
         /\ UNCHANGED <<fate, wire, answer, respq>> /\ (panic' = panic \/ panic' # "none")
<1>1. ASSUME NEW w \in Workers, WorkerHook(w) \/ WorkerExit(w) \/ WorkerJoin(w)
      PROVE  Stays /\ OnePlace'
  <2> DEFINE st == worker'[w]
  <2>1. /\ worker' = [worker EXCEPT ![w] = st] /\ st \in WorkerState
        /\ st.batch = worker[w].batch /\ worker[w].pc # "retry" /\ st.pc # "retry"
        /\ UNCHANGED <<pipeline, wq, respq, sender>>
    <3>1. worker \in [Workers -> WorkerState] /\ worker[w] \in WorkerState
      BY DEF TypeOK, TypeGoroutines, WorkerState
    <3>2. CASE WorkerHook(w)
      <4>1. worker[w].batch = << >> /\ worker[w].pc = "hook"
        BY <3>2 DEF TypeOK, TypeGoroutines, WorkerHook
      <4> QED BY <3>1, <3>2, <4>1, SelectingType DEF WorkerHook, Selecting
    <3>3. CASE WorkerExit(w)
      BY <3>1, <3>3 DEF WorkerExit, WorkerState
    <3>4. CASE WorkerJoin(w)
      BY <3>1, <3>4 DEF WorkerJoin, WorkerState
    <3> QED BY <1>1, <3>2, <3>3, <3>4
  <2> HIDE DEF st
  <2>2. /\ BatchOf' = BatchOf /\ Held'["batch"] = Held["batch"]
        /\ Held'["retry"] = Held["retry"] /\ OneRetrier'
    BY <2>1, WorkerMoves DEF PlacesInv, OnePlace
  <2>3. Held'["sending"] = Held["sending"] /\ OneSender'
    BY <2>1, SameSender DEF PlacesInv, OnePlace
  <2> QED BY <2>1, <2>2, <2>3, StayFrame
<1>2. ASSUME NEW w \in Workers, NEW s \in Senders, SenderGone(w, s)
      PROVE  Stays /\ OnePlace'
  <2> DEFINE st == [sender[w][s] EXCEPT !.pc = "gone"]
  <2>1. /\ sender' = [sender EXCEPT ![w] = [sender[w] EXCEPT ![s] = st]]
        /\ st \in SenderState /\ sender[w][s].pc # "sending" /\ st.pc # "sending"
        /\ UNCHANGED <<pipeline, worker, wq, respq>>
    BY <1>2 DEF SenderGone, TypeOK, TypeGoroutines, SenderState
  <2> HIDE DEF st
  <2>2. Held'["sending"] = Held["sending"] /\ OneSender'
    BY <2>1, SenderMoves DEF PlacesInv, OnePlace
  <2>3. /\ BatchOf' = BatchOf /\ Held'["batch"] = Held["batch"]
        /\ Held'["retry"] = Held["retry"] /\ OneRetrier'
    BY <2>1, SameWorker DEF PlacesInv, OnePlace
  <2> QED BY <2>1, <2>2, <2>3, StayFrame
<1>3. ASSUME \/ \E w \in Workers : HookStep(w)
             \/ TickerTick \/ TickerStop \/ ShutdownBegin \/ ShutdownStep
             \/ UNCHANGED vars
      PROVE  Stays /\ OnePlace'
  <2>1. UNCHANGED <<pipeline, worker, wq, respq, sender>>
    BY <1>3 DEF HookStep, HookStart, HookEnd, HookStop, TickerTick, TickerStop,
       ShutdownBegin, ShutdownStep, ShutdownPoll, CloseExit, CloseCmdq, CloseQueue,
       CloseRetryq, CloseAt, ProcessExit, workerVars, vars
  <2> QED BY <2>1, SameStays
<1>4. Stays /\ OnePlace'
  BY <1>1, <1>2, <1>3 DEF Elsewhere
<1>5. closed \subseteq closed' /\ UNCHANGED <<fate, wire, answer, respq>>
      /\ (panic' = panic \/ panic' # "none")
  BY DEF Elsewhere, WorkerHook, WorkerExit, WorkerJoin, SenderGone, HookStep, HookStart,
     HookEnd, HookStop, TickerTick, TickerStop, ShutdownBegin, ShutdownStep, ShutdownPoll,
     CloseExit, CloseCmdq, CloseQueue, CloseRetryq, CloseAt, ProcessExit, workerVars,
     vars, control, history, TrySend
<1> QED BY <1>4, <1>5

-----------------------------------------------------------------------------
(* What each step does to the history of the notifications *)

TriesFit(k, r) ==
    wire[r.id].sends = IF k \in AnsweredKinds THEN r.tries + 1 ELSE r.tries

(* Requests that go on take their notifications with them.                  *)
LEMMA MoveHistory ==
  ASSUME CopyInv, NEW a \in Kinds \ {"respq"}, NEW b \in Kinds \ {"respq"}, NEW X, NEW Y,
         Moves(a, b, X, Y),
         \A y \in Y : (\E x \in X : x.id = y.id) /\ TriesFit(b, y),
         \A x \in X : \E y \in Y : y.id = x.id,
         UNCHANGED <<fate, wire, answer, respq, panic>>
  PROVE  HistoryInv'
<1>1. /\ \A k \in Kinds : \A r \in Held'[k] : r \in Held[k] \/ (k = b /\ r \in Y)
      /\ \A k \in Kinds : \A r \in Held[k] : r \in Held'[k] \/ (k = a /\ r \in X)
      /\ X \subseteq Held[a] /\ Y \subseteq Held'[b]
  BY DEF Moves
<1>2. HeldArePending'
  <2>1. \A k \in Kinds : \A r \in Held'[k] : r.id \in Notifs => fate[r.id] = "pending"
    BY <1>1 DEF CopyInv, HistoryInv, HeldArePending
  <2>2. ASSUME panic = "none", NEW n \in Notifs, fate[n] = "pending"
        PROVE  \E k \in Kinds : \E r \in Held'[k] : r.id = n
    <3>1. PICK k \in Kinds : \E r \in Held[k] : r.id = n
      BY <2>2 DEF CopyInv, HistoryInv, HeldArePending
    <3>2. PICK r \in Held[k] : r.id = n
      BY <3>1
    <3>3. CASE r \in Held'[k]
      BY <3>2, <3>3
    <3>4. CASE r \in X
      BY <1>1, <3>2, <3>4
    <3> QED BY <1>1, <3>3, <3>4
  <2> QED BY <2>1, <2>2 DEF HeldArePending
<1>3. TriesAgree'
  <2>1. \A k \in Kinds : \A r \in Held'[k] : r.id \in Notifs =>
          wire[r.id].sends = IF k \in AnsweredKinds THEN r.tries + 1 ELSE r.tries
    BY <1>1 DEF CopyInv, HistoryInv, TriesAgree, TriesFit
  <2> QED BY <2>1 DEF CopyInv, HistoryInv, TriesAgree
<1>4. HeardAgrees'
  <2>1. \A k \in Kinds \ {"respq"} : \A r \in Held'[k] : r.id \in Notifs => Heard(r.id) = 0
    BY <1>1 DEF CopyInv, HistoryInv, HeardAgrees
  <2> QED BY <2>1 DEF CopyInv, HistoryInv, HeardAgrees, Heard
<1>5. AnswersAgree'
  BY DEF CopyInv, HistoryInv, AnswersAgree
<1> QED BY <1>2, <1>3, <1>4, <1>5 DEF HistoryInv

LEMMA CarryHistory ==
  ASSUME CopyInv, NEW a \in Kinds \ {"respq"}, NEW b \in Kinds \ {"respq"}, NEW r, NEW s,
         Carried(a, b, r, s), TriesFit(b, s), UNCHANGED <<fate, wire, answer, respq, panic>>
  PROVE  HistoryInv'
<1>1. Moves(a, b, {r}, {s}) /\ s.id = r.id
  BY DEF Carried
<1> QED BY <1>1, MoveHistory

(* A request that goes to a kind of place of the same side keeps its count. *)
LEMMA SameTriesFit ==
  ASSUME CopyInv, NEW a \in Kinds, NEW b \in Kinds, NEW r \in Held[a], r.id \in Notifs,
         a \in AnsweredKinds <=> b \in AnsweredKinds
  PROVE  TriesFit(b, r)
BY DEF CopyInv, HistoryInv, TriesAgree, TriesFit

(* A request that is gone settles its notification.                         *)
LEMMA SettleHistory ==
  ASSUME TypeOK, CopyInv, NEW a \in Kinds \ {"respq"}, NEW r \in Held[a], r.id \in Notifs,
         NEW f \in {"dropped", "exhausted"}, Settled(a, r, f),
         UNCHANGED <<wire, answer, respq>>
  PROVE  HistoryInv'
<1>1. /\ \A k \in Kinds : \A x \in Held'[k] : x \in Held[k] /\ x.id # r.id
      /\ \A k \in Kinds : \A x \in Held[k] : x \in Held'[k] \/ x = r
  <2>1. PICK b \in Kinds : Moves(a, b, {r}, {})
    BY DEF Settled, Dropped
  <2> QED BY <2>1 DEF Moves, CopyInv, PlacesInv, OneKind
<1>2. /\ fate' = [n \in Notifs |-> IF n = r.id THEN f ELSE fate[n]] /\ panic' = panic
      /\ fate[r.id] = "pending"
  BY DEF Settled, Settle, CopyInv, HistoryInv, HeldArePending
<1>3. HeldArePending'
  <2>1. \A k \in Kinds : \A x \in Held'[k] : x.id \in Notifs => fate'[x.id] = "pending"
    BY <1>1, <1>2 DEF CopyInv, HistoryInv, HeldArePending
  <2>2. ASSUME panic = "none", NEW n \in Notifs, fate'[n] = "pending"
        PROVE  \E k \in Kinds : \E x \in Held'[k] : x.id = n
    <3>1. fate[n] = "pending" /\ n # r.id
      BY <1>2, <2>2
    <3>2. PICK k \in Kinds : \E x \in Held[k] : x.id = n
      BY <2>2, <3>1 DEF CopyInv, HistoryInv, HeldArePending
    <3>3. PICK x \in Held[k] : x.id = n
      BY <3>2
    <3>4. x \in Held'[k]
      BY <1>1, <3>1, <3>3
    <3> QED BY <3>3, <3>4
  <2> QED BY <1>2, <2>1, <2>2 DEF HeldArePending
<1>4. TriesAgree'
  <2>1. \A k \in Kinds : \A x \in Held'[k] : x.id \in Notifs =>
          wire[x.id].sends = IF k \in AnsweredKinds THEN x.tries + 1 ELSE x.tries
    BY <1>1 DEF CopyInv, HistoryInv, TriesAgree
  <2> QED BY <1>2, <2>1 DEF CopyInv, HistoryInv, TriesAgree
<1>5. HeardAgrees'
  <2>1. \A k \in Kinds \ {"respq"} : \A x \in Held'[k] : x.id \in Notifs => Heard(x.id) = 0
    BY <1>1 DEF CopyInv, HistoryInv, HeardAgrees
  <2>2. Heard(r.id) = 0
    BY DEF CopyInv, HistoryInv, HeardAgrees
  <2> QED BY <1>2, <2>1, <2>2 DEF CopyInv, HistoryInv, HeardAgrees, Heard
<1>6. AnswersAgree'
  <2>1. \A p \in Posts : \A n \in Elems(Batch[p]) : n \in Notifs
    BY BatchIsReal
  <2> QED BY <1>2, <2>1 DEF CopyInv, HistoryInv, AnswersAgree
<1> QED BY <1>3, <1>4, <1>5, <1>6 DEF HistoryInv

(* A panic takes the process down with what it held.                        *)
LEMMA CrashHistory ==
  ASSUME CopyInv, NEW a \in Kinds, NEW r, Crashed(a, r), UNCHANGED <<wire, answer, respq>>
  PROVE  HistoryInv'
<1>1. \A k \in Kinds : \A x \in Held'[k] : x \in Held[k]
  BY DEF Crashed, Dropped, Moves
<1>2. fate' = fate /\ panic' # "none"
  BY DEF Crashed
<1>3. HeldArePending'
  BY <1>1, <1>2 DEF CopyInv, HistoryInv, HeldArePending
<1>4. TriesAgree'
  BY <1>1, <1>2 DEF CopyInv, HistoryInv, TriesAgree
<1>5. HeardAgrees'
  BY <1>1, <1>2 DEF CopyInv, HistoryInv, HeardAgrees, Heard
<1>6. AnswersAgree'
  BY <1>2 DEF CopyInv, HistoryInv, AnswersAgree
<1> QED BY <1>3, <1>4, <1>5, <1>6 DEF HistoryInv

(* Nothing moves, or a timer is started for no notification at all.         *)
LEMMA StayHistory ==
  ASSUME CopyInv,
         \A k \in Kinds : \A r \in Held'[k] : r \in Held[k] \/ r.id \notin Notifs,
         \A k \in Kinds : Held[k] \subseteq Held'[k],
         UNCHANGED <<fate, wire, answer, respq>>, panic' = panic \/ panic' # "none"
  PROVE  HistoryInv'
<1>1. HeldArePending'
  BY DEF CopyInv, HistoryInv, HeldArePending
<1>2. TriesAgree'
  BY DEF CopyInv, HistoryInv, TriesAgree
<1>3. HeardAgrees'
  BY DEF CopyInv, HistoryInv, HeardAgrees, Heard
<1>4. AnswersAgree'
  BY DEF CopyInv, HistoryInv, AnswersAgree
<1> QED BY <1>1, <1>2, <1>3, <1>4 DEF HistoryInv

-----------------------------------------------------------------------------
(* Every step keeps the requests and their history in agreement *)

LEMMA SettleStep ==
  ASSUME TypeOK, CopyInv, NEW a \in Kinds \ {"respq"}, NEW r \in Held[a], r.id \in Notifs,
         NEW f \in {"dropped", "exhausted"}, Settled(a, r, f), OnePlace',
         UNCHANGED <<wire, answer, respq>>, closed \subseteq closed'
  PROVE  CopyInv'
<1>1. OnlyRealRequests' /\ OneKind'
  BY DropKeepsApart DEF Settled, CopyInv, PlacesInv
<1>2. HistoryInv'
  BY SettleHistory
<1> QED BY <1>1, <1>2 DEF CopyInv, PlacesInv

LEMMA CrashStep ==
  ASSUME CopyInv, NEW a \in Kinds, NEW r, Crashed(a, r), OnePlace',
         UNCHANGED <<wire, answer, respq>>, closed \subseteq closed'
  PROVE  CopyInv'
<1>1. OnlyRealRequests' /\ OneKind'
  BY DropKeepsApart DEF Crashed, CopyInv, PlacesInv
<1>2. HistoryInv'
  BY CrashHistory
<1> QED BY <1>1, <1>2 DEF CopyInv, PlacesInv

LEMMA CarryStep ==
  ASSUME CopyInv, NEW a \in Kinds \ {"respq"}, NEW b \in Kinds \ {"respq"},
         NEW r \in Held[a], r.id \in Notifs, NEW s, Carried(a, b, r, s), TriesFit(b, s),
         OnePlace', UNCHANGED <<fate, wire, answer, respq, panic>>, closed \subseteq closed'
  PROVE  CopyInv'
<1>1. OnlyRealRequests' /\ OneKind'
  BY CarryKeepsApart DEF CopyInv, PlacesInv
<1>2. HistoryInv'
  BY CarryHistory
<1> QED BY <1>1, <1>2 DEF CopyInv, PlacesInv

LEMMA RecvRequestsCopies ==
  ASSUME TypeOK, CopyInv, NEW w \in Workers, RecvRequests(w)
  PROVE  CopyInv'
<1> DEFINE B == Elems(Head(queue))
<1>1. /\ Moves("queue", "batch", B, B) /\ OnePlace'
      /\ UNCHANGED <<fate, wire, answer, respq, panic, closed>>
  BY RecvRequestsPlaces DEF CopyInv, RecvRequests, history, control
<1> HIDE DEF B
<1>2. /\ "queue" \in Kinds \ {"respq"} /\ "batch" \in Kinds \ {"respq"}
      /\ "queue" # "backoff" /\ B \subseteq Held["queue"]
  BY <1>1 DEF Kinds, Moves
<1>3. \A r \in B : r.id \in Notifs /\ TriesFit("batch", r)
  <2>1. \A r \in B : r.id \in Notifs
    BY <1>2, HeldAreReal DEF CopyInv, PlacesInv
  <2>2. "queue" \in AnsweredKinds <=> "batch" \in AnsweredKinds
    BY DEF AnsweredKinds
  <2> QED BY <1>2, <2>1, <2>2, SameTriesFit
<1>4. HistoryInv'
  BY <1>1, <1>2, <1>3, MoveHistory
<1>5. OnlyRealRequests' /\ OneKind'
  <2>1. \A r, s \in B : r.id = s.id => r = s
    BY <1>2 DEF CopyInv, PlacesInv, OneKind
  <2> QED BY <1>1, <1>2, <1>3, <2>1, MoveKeepsApart DEF CopyInv, PlacesInv
<1> QED BY <1>1, <1>4, <1>5 DEF CopyInv, PlacesInv

LEMMA DistributeCopies ==
  ASSUME TypeOK, CopyInv, NEW w \in Workers, Distribute(w)
  PROVE  CopyInv'
<1>1. PICK r : Carried("batch", "wq", r, r)
  BY DistributePlaces DEF CopyInv
<1>2. /\ OnePlace' /\ UNCHANGED <<fate, wire, answer, respq, panic, closed>>
  BY DistributePlaces DEF CopyInv, Distribute, history, control
<1>3. /\ "batch" \in Kinds \ {"respq"} /\ "wq" \in Kinds \ {"respq"} /\ r \in Held["batch"]
      /\ "batch" # "backoff" /\ ("batch" \in AnsweredKinds <=> "wq" \in AnsweredKinds)
  BY <1>1 DEF Kinds, Carried, Moves, AnsweredKinds
<1>4. r.id \in Notifs
  BY <1>3, HeldAreReal DEF CopyInv, PlacesInv
<1> QED BY <1>1, <1>2, <1>3, <1>4, SameTriesFit, CarryStep

LEMMA SenderTakeCopies ==
  ASSUME TypeOK, CopyInv, NEW w \in Workers, NEW s \in Senders, SenderTake(w, s)
  PROVE  CopyInv'
<1>1. PICK r \in Held["wq"] : Carried("wq", "sending", r, r)
  BY SenderTakePlaces DEF CopyInv
<1>2. /\ OnePlace' /\ UNCHANGED <<fate, wire, answer, respq, panic, closed>>
  BY SenderTakePlaces DEF CopyInv, SenderTake, history, control
<1>3. /\ "wq" \in Kinds \ {"respq"} /\ "sending" \in Kinds \ {"respq"}
      /\ "wq" # "backoff" /\ ("wq" \in AnsweredKinds <=> "sending" \in AnsweredKinds)
  BY DEF Kinds, AnsweredKinds
<1>4. r.id \in Notifs
  BY <1>3, HeldAreReal DEF CopyInv, PlacesInv
<1> QED BY <1>1, <1>2, <1>3, <1>4, SameTriesFit, CarryStep

LEMMA ResentCopies ==
  ASSUME TypeOK, CopyInv, NEW a \in {"retry", "quota"}, NEW r \in Held[a], r \in Request,
         Resent(a, r), OnePlace', UNCHANGED <<wire, answer, respq, closed>>
  PROVE  CopyInv'
<1>1. /\ a \in Kinds \ {"respq"} /\ "retryq" \in Kinds \ {"respq"} /\ a # "backoff"
      /\ a \in AnsweredKinds /\ "retryq" \notin AnsweredKinds
  BY DEF Kinds, AnsweredKinds
<1>2. r.id \in Notifs
  BY <1>1, HeldAreReal DEF CopyInv, PlacesInv
<1>3. CASE /\ Carried(a, "retryq", r, NextTry(r)) /\ r.tries < SendRetryCount
           /\ fate' = fate /\ panic' = panic
  <2>1. TriesFit("retryq", NextTry(r))
    BY <1>1, <1>2, <1>3, NextTryType DEF CopyInv, HistoryInv, TriesAgree, TriesFit
  <2> QED BY <1>1, <1>2, <1>3, <2>1, CarryStep
<1>4. CASE \E f \in {"dropped", "exhausted"} : Settled(a, r, f)
  <2>1. PICK f \in {"dropped", "exhausted"} : Settled(a, r, f)
    BY <1>4
  <2> QED BY <1>1, <1>2, <2>1, SettleStep
<1>5. CASE Crashed(a, r)
  BY <1>1, <1>5, CrashStep
<1> QED BY <1>3, <1>4, <1>5 DEF Resent

LEMMA WorkerRetryCopies ==
  ASSUME TypeOK, CopyInv, NEW w \in Workers, WorkerRetry(w)
  PROVE  CopyInv'
<1>1. /\ worker[w].resp.req \in Held["retry"] /\ worker[w].resp.req \in Request
      /\ Resent("retry", worker[w].resp.req) /\ OnePlace'
  BY WorkerRetryPlaces, PlaceTypes DEF CopyInv, Response
<1>2. UNCHANGED <<wire, answer, respq, closed>>
  BY DEF WorkerRetry
<1> QED BY <1>1, <1>2, ResentCopies

LEMMA QuotaFireCopies ==
  ASSUME TypeOK, CopyInv, NEW r \in quota, QuotaFire(r)
  PROVE  CopyInv'
<1>1. r \in Held["quota"] /\ r \in Request /\ Resent("quota", r) /\ OnePlace'
  BY QuotaFirePlaces, PlaceTypes DEF CopyInv
<1>2. UNCHANGED <<wire, answer, respq, closed>>
  BY DEF QuotaFire, workerVars
<1> QED BY <1>1, <1>2, ResentCopies

LEMMA BackoffFireCopies ==
  ASSUME TypeOK, ClosingInv, CopyInv, NEW r \in backoff, BackoffFire(r)
  PROVE  CopyInv'
<1>1. /\ r \in Held["backoff"] /\ OnePlace'
      /\ UNCHANGED <<wire, answer, respq, closed>>
  BY BackoffFirePlaces DEF CopyInv, BackoffFire, workerVars
<1>2. /\ "backoff" \in Kinds \ {"respq"} /\ "queue" \in Kinds \ {"respq"}
      /\ ("backoff" \in AnsweredKinds <=> "queue" \in AnsweredKinds)
  BY DEF Kinds, AnsweredKinds
<1>3. CASE /\ Carried("backoff", "queue", r, r) /\ r.id \in Notifs
           /\ fate' = fate /\ panic' = panic
  <2>1. TriesFit("queue", r)
    BY <1>1, <1>2, <1>3, SameTriesFit
  <2> QED BY <1>1, <1>2, <1>3, <2>1, CarryStep
<1>4. CASE Settled("backoff", r, "dropped") /\ r.id \in Notifs
  BY <1>1, <1>2, <1>4, SettleStep
<1>5. CASE Crashed("backoff", r)
  BY <1>1, <1>2, <1>5, CrashStep
<1> QED BY <1>3, <1>4, <1>5, BackoffFirePlaces DEF CopyInv

LEMMA StayCopies ==
  ASSUME CopyInv, Stays, OnePlace', closed \subseteq closed',
         UNCHANGED <<fate, wire, answer, respq>>, panic' = panic \/ panic' # "none"
  PROVE  CopyInv'
<1>1. HistoryInv'
  BY StayHistory DEF Stays
<1>2. OnlyRealRequests' /\ OneKind'
  BY DEF Stays, CopyInv, PlacesInv, OnlyRealRequests, OneKind
<1> QED BY <1>1, <1>2 DEF CopyInv, PlacesInv

LEMMA ElsewhereCopies == ASSUME TypeOK, CopyInv, Elsewhere PROVE CopyInv'
BY ElsewherePlaces, StayCopies DEF CopyInv

LEMMA TickerSweepCopies == ASSUME TypeOK, CopyInv, TickerSweep PROVE CopyInv'
<1>1. OnePlace' /\ UNCHANGED <<fate, wire, answer, respq, panic, closed>>
  BY TickerSweepPlaces DEF CopyInv, TickerSweep, history, control, workerVars
<1>2. CASE Stays
  BY <1>1, <1>2, StayCopies
<1>3. CASE \E r \in Held["retryq"] : Carried("retryq", "backoff", r, r)
  <2>1. PICK r \in Held["retryq"] : Carried("retryq", "backoff", r, r)
    BY <1>3
  <2>2. /\ "retryq" \in Kinds \ {"respq"} /\ "backoff" \in Kinds \ {"respq"}
        /\ "retryq" # "backoff"
        /\ ("retryq" \in AnsweredKinds <=> "backoff" \in AnsweredKinds)
    BY DEF Kinds, AnsweredKinds
  <2>3. r.id \in Notifs
    BY <2>2, HeldAreReal DEF CopyInv, PlacesInv
  <2> QED BY <1>1, <2>1, <2>2, <2>3, SameTriesFit, CarryStep
<1>4. CASE /\ "retryq" \in closed /\ Held'["backoff"] = Held["backoff"] \cup {NoReq}
           /\ \A k \in Kinds \ {"backoff"} : Held'[k] = Held[k]
  <2>1. /\ \A k \in Kinds : \A r \in Held'[k] : r \in Held[k] \/ (k = "backoff" /\ r = NoReq)
        /\ \A k \in Kinds : Held[k] \subseteq Held'[k]
        /\ NoReq.id \notin Notifs
    BY <1>4, NotifsAssumption DEF NoReq
  <2>2. HistoryInv'
    BY <1>1, <2>1, StayHistory
  <2>3. OnlyRealRequests'
    BY <1>1, <1>4, <2>1 DEF CopyInv, PlacesInv, OnlyRealRequests
  <2>4. OneKind'
    <3>1. \A k \in Kinds : \A r \in Held'[k] :
            (r.id \in Notifs /\ r \in Held[k]) \/ (k = "backoff" /\ r = NoReq)
      BY <2>1 DEF CopyInv, PlacesInv, OnlyRealRequests
    <3> QED BY <2>1, <3>1 DEF CopyInv, PlacesInv, OneKind
  <2> QED BY <1>1, <2>2, <2>3, <2>4 DEF CopyInv, PlacesInv
<1> QED BY <1>2, <1>3, <1>4, TickerSweepPlaces DEF CopyInv

(* The oldest answer of a worker settles its notification, or sends it on.  *)
LEMMA RecvResponseCopies ==
  ASSUME TypeOK, CopyInv, NEW w \in Workers, RecvResponse(w)
  PROVE  CopyInv'
<1> DEFINE x == Answering(w)
           q == x.req
<1>1. /\ respq \in [Workers -> Seq(Response)] /\ respq[w] # << >>
      /\ respq' = [respq EXCEPT ![w] = Tail(respq[w])] /\ 1 \in DOMAIN respq[w]
      /\ respq[w][1] = x /\ x \in Response
      /\ fate' = [fate EXCEPT ![q.id] = FateAfter(q.id, x.ans)]
      /\ UNCHANGED <<wire, answer, panic, closed>>
  BY PlaceTypes, TailEntries DEF RecvResponse, Answering, control
<1>2. /\ RetriedNow(x.ans) => Carried("respq", "retry", q, q)
      /\ RetriedLater(x.ans) => Carried("respq", "quota", q, q)
      /\ ~RetriedNow(x.ans) /\ ~RetriedLater(x.ans) => Dropped("respq", q)
      /\ OnePlace'
  BY RecvResponsePlaces DEF CopyInv
<1>3. /\ Heard(q.id) = IF x.ans = "ok" THEN 1 ELSE 0
      /\ fate \in [Notifs -> {"new", "pending"} \cup Final]
      /\ x.ans \in Answers
  BY <1>1 DEF CopyInv, HistoryInv, HeardAgrees, TypeOK, TypeHistory, Response
<1>r. \A v \in Workers : \A i \in DOMAIN respq'[v] :
        \E j \in DOMAIN respq[v] : respq'[v][i] = respq[v][j]
  BY <1>1, TailEntries
<1> HIDE DEF x, q
<1>k. /\ "respq" \in Kinds /\ "respq" # "backoff" /\ "respq" \in AnsweredKinds
      /\ "retry" \in AnsweredKinds /\ "quota" \in AnsweredKinds
      /\ "retry" \in Kinds /\ "quota" \in Kinds
  BY DEF Kinds, AnsweredKinds
<1>4. /\ q \in Held["respq"] /\ q.id \in Notifs
      /\ wire[q.id].sends = q.tries + 1 /\ fate[q.id] = "pending"
  <2>1. q \in Held["respq"]
    BY <1>2 DEF Carried, Dropped, Moves
  <2>2. q.id \in Notifs
    BY <1>k, <2>1, HeldAreReal DEF CopyInv, PlacesInv
  <2> QED BY <1>k, <2>1, <2>2 DEF CopyInv, HistoryInv, TriesAgree, HeldArePending
<1>5. ASSUME NEW b \in {"retry", "quota"}, Carried("respq", b, q, q),
             RetriedNow(x.ans) \/ RetriedLater(x.ans)
      PROVE  CopyInv'
  <2>1. OnlyRealRequests' /\ OneKind'
    BY <1>1, <1>4, <1>5, CarryKeepsApart DEF CopyInv, PlacesInv
  <2>2. fate' = fate /\ x.ans # "ok"
    BY <1>1, <1>3, <1>4, <1>5 DEF FateAfter, RetriedNow, RetriedLater
  <2>3. /\ \A k \in Kinds : \A r \in Held'[k] : r \in Held[k] \/ (k = b /\ r = q)
        /\ \A k \in Kinds : \A r \in Held[k] : r \in Held'[k] \/ r = q
        /\ q \in Held'[b] /\ b \in Kinds /\ b \in AnsweredKinds
    BY <1>k, <1>5 DEF Carried, Moves
  <2>4. HeldArePending'
    <3>1. \A k \in Kinds : \A r \in Held'[k] : r.id \in Notifs => fate[r.id] = "pending"
      BY <1>4, <2>3 DEF CopyInv, HistoryInv, HeldArePending
    <3>2. ASSUME panic = "none", NEW n \in Notifs, fate[n] = "pending"
          PROVE  \E k \in Kinds : \E r \in Held'[k] : r.id = n
      <4>1. PICK k \in Kinds : \E r \in Held[k] : r.id = n
        BY <3>2 DEF CopyInv, HistoryInv, HeldArePending
      <4>2. PICK r \in Held[k] : r.id = n
        BY <4>1
      <4> QED BY <2>3, <4>2
    <3> QED BY <1>1, <2>2, <3>1, <3>2 DEF HeldArePending
  <2>5. TriesAgree'
    BY <1>1, <1>4, <2>2, <2>3 DEF CopyInv, HistoryInv, TriesAgree
  <2>6. HeardAgrees'
    <3>1. Heard(q.id) = 0
      BY <1>3, <2>2
    <3> QED BY <1>1, <1>r, <2>2, <2>3, <3>1 DEF CopyInv, HistoryInv, HeardAgrees, Heard
  <2>7. AnswersAgree'
    BY <1>1, <2>2 DEF CopyInv, HistoryInv, AnswersAgree
  <2> QED BY <1>2, <2>1, <2>4, <2>5, <2>6, <2>7 DEF CopyInv, PlacesInv, HistoryInv
<1>6. ASSUME ~RetriedNow(x.ans), ~RetriedLater(x.ans) PROVE CopyInv'
  <2>1. OnlyRealRequests' /\ OneKind'
    BY <1>1, <1>2, <1>6, DropKeepsApart DEF CopyInv, PlacesInv
  <2>2. /\ \A k \in Kinds : \A r \in Held'[k] : r \in Held[k] /\ r.id # q.id
        /\ \A k \in Kinds : \A r \in Held[k] : r \in Held'[k] \/ r = q
    <3>1. PICK b \in Kinds : Moves("respq", b, {q}, {})
      BY <1>2, <1>6 DEF Dropped
    <3> QED BY <1>k, <1>4, <3>1 DEF Moves, CopyInv, PlacesInv, OneKind
  <2>3. /\ \A n \in Notifs \ {q.id} : fate'[n] = fate[n]
        /\ \/ fate'[q.id] = "delivered" /\ Heard(q.id) = 1
           \/ fate'[q.id] = "rejected" /\ Heard(q.id) = 0
    <3>1. x.ans = "ok" => fate'[q.id] = "delivered"
      BY <1>1, <1>3, <1>4 DEF FateAfter, RetriedNow, RetriedLater
    <3>2. x.ans # "ok" => fate'[q.id] = "rejected"
      BY <1>1, <1>3, <1>4, <1>6 DEF FateAfter
    <3> QED BY <1>1, <1>3, <3>1, <3>2
  <2>4. HeldArePending'
    <3>1. \A k \in Kinds : \A r \in Held'[k] : r.id \in Notifs => fate'[r.id] = "pending"
      BY <2>2, <2>3 DEF CopyInv, HistoryInv, HeldArePending
    <3>2. ASSUME panic = "none", NEW n \in Notifs, fate'[n] = "pending"
          PROVE  \E k \in Kinds : \E r \in Held'[k] : r.id = n
      <4>1. fate[n] = "pending" /\ n # q.id
        BY <2>3, <3>2
      <4>2. PICK k \in Kinds : \E r \in Held[k] : r.id = n
        BY <3>2, <4>1 DEF CopyInv, HistoryInv, HeldArePending
      <4> QED BY <2>2, <4>1, <4>2
    <3> QED BY <1>1, <3>1, <3>2 DEF HeldArePending
  <2>5. TriesAgree'
    BY <1>1, <1>4, <2>2, <2>3 DEF CopyInv, HistoryInv, TriesAgree
  <2>6. HeardAgrees'
    <3>1. \A k \in Kinds \ {"respq"} : \A r \in Held'[k] : r.id \in Notifs => Heard(r.id) = 0
      BY <2>2 DEF CopyInv, HistoryInv, HeardAgrees
    <3>2. \A v \in Workers : \A i \in DOMAIN respq'[v] :
            Heard(respq'[v][i].req.id) = IF respq'[v][i].ans = "ok" THEN 1 ELSE 0
      BY <1>r DEF CopyInv, HistoryInv, HeardAgrees
    <3>3. \A n \in Notifs : /\ Heard(n) \in {0, 1}
                            /\ fate'[n] = "delivered" => Heard(n) = 1
                            /\ fate'[n] \in {"new", "rejected", "exhausted"} => Heard(n) = 0
      BY <2>3 DEF CopyInv, HistoryInv, HeardAgrees
    <3> QED BY <1>1, <3>1, <3>2, <3>3 DEF HeardAgrees, Heard
  <2>7. AnswersAgree'
    <3>1. \A p \in Posts : \A n \in Elems(Batch[p]) : n \in Notifs
      BY BatchIsReal
    <3> QED BY <1>1, <1>4, <2>3, <3>1 DEF CopyInv, HistoryInv, AnswersAgree
  <2> QED BY <1>2, <2>1, <2>4, <2>5, <2>6, <2>7 DEF CopyInv, PlacesInv, HistoryInv
<1> QED BY <1>2, <1>5, <1>6

(* A send that returns has counted, and is heard when its answer is.        *)
HeardNext(n) == wire'[n].taken - wire'[n].unheard

LEMMA SentCounts ==
  ASSUME NEW n \in Notifs, NEW a \in Answers, NEW taken \in BOOLEAN,
         wire \in [Notifs -> [sends : Nat, taken : Nat, unheard : Nat]],
         a = "ok" => taken, taken => a \in {"ok", "noanswer"}, Heard(n) = 0,
         wire' = [wire EXCEPT ![n] = Sent(wire[n], a, taken)]
  PROVE  /\ wire'[n].sends = wire[n].sends + 1
         /\ HeardNext(n) = IF a = "ok" THEN 1 ELSE 0
         /\ \A m \in Notifs \ {n} : wire'[m] = wire[m]
<1>1. /\ wire[n].sends \in Nat /\ wire[n].taken \in Nat /\ wire[n].unheard \in Nat
      /\ wire'[n] = Sent(wire[n], a, taken)
  OBVIOUS
<1>2. /\ wire'[n].sends = wire[n].sends + 1
      /\ wire'[n].taken = IF taken THEN wire[n].taken + 1 ELSE wire[n].taken
      /\ wire'[n].unheard = IF taken /\ a = "noanswer" THEN wire[n].unheard + 1
                                                       ELSE wire[n].unheard
  BY <1>1 DEF Sent
<1>3. HeardNext(n) = IF a = "ok" THEN 1 ELSE 0
  BY <1>1, <1>2 DEF Heard, HeardNext
<1> QED BY <1>2, <1>3

LEMMA SenderAnswerCopies ==
  ASSUME TypeOK, CopyInv, NEW w \in Workers, NEW s \in Senders,
         NEW a \in Answers, NEW taken \in BOOLEAN, SenderAnswer(w, s, a, taken),
         NEW r, r = sender[w][s].req
  PROVE  CopyInv'
<1>1. /\ wire' = [wire EXCEPT ![r.id] = Sent(wire[r.id], a, taken)]
      /\ a = "ok" => taken
      /\ taken => a \in {"ok", "noanswer"}
      /\ UNCHANGED <<answer, closed>>
  BY DEF SenderAnswer
<1>2. /\ r \in Held["sending"] /\ OnePlace'
      /\ \/ /\ Carried("sending", "respq", r, r) /\ fate' = fate /\ panic' = panic
            /\ respq' = [respq EXCEPT ![w] = Append(respq[w], [req |-> r, ans |-> a])]
         \/ Settled("sending", r, "dropped") /\ respq' = respq
         \/ Crashed("sending", r) /\ respq' = respq
  BY SenderAnswerPlaces DEF CopyInv
<1>3. /\ r \in Request /\ respq \in [Workers -> Seq(Response)]
      /\ wire \in [Notifs -> [sends : Nat, taken : Nat, unheard : Nat]]
      /\ fate \in [Notifs -> {"new", "pending"} \cup Final]
  <2>1. sender[w][s].req \in Request
    BY DEF TypeOK, TypeGoroutines
  <2>2. respq \in [Workers -> Seq(Response)]
    BY PlaceTypes
  <2> QED BY <2>1, <2>2 DEF TypeOK, TypeHistory
<1>k. /\ "sending" \in Kinds \ {"respq"} /\ "sending" # "backoff"
      /\ "sending" \notin AnsweredKinds /\ "respq" \in Kinds /\ "respq" \in AnsweredKinds
  BY DEF Kinds, AnsweredKinds
<1>4. /\ r.id \in Notifs /\ wire[r.id].sends = r.tries /\ fate[r.id] = "pending"
      /\ Heard(r.id) = 0
  <2>1. r.id \in Notifs
    BY <1>2, <1>k, HeldAreReal DEF CopyInv, PlacesInv
  <2> QED BY <1>2, <1>k, <2>1
        DEF CopyInv, HistoryInv, TriesAgree, HeldArePending, HeardAgrees
<1>5. /\ wire'[r.id].sends = r.tries + 1 /\ wire'[r.id].sends <= SendRetryCount + 1
      /\ HeardNext(r.id) = IF a = "ok" THEN 1 ELSE 0
      /\ \A m \in Notifs \ {r.id} : wire'[m] = wire[m]
  <2>1. r.tries \in Nat /\ r.tries <= SendRetryCount
    BY <1>3, SizesInNat DEF Request
  <2>2. /\ wire'[r.id].sends = wire[r.id].sends + 1
        /\ HeardNext(r.id) = IF a = "ok" THEN 1 ELSE 0
        /\ \A m \in Notifs \ {r.id} : wire'[m] = wire[m]
    BY <1>1, <1>3, <1>4, SentCounts
  <2>3. SendRetryCount \in Nat
    BY SizesInNat
  <2> QED BY <1>4, <2>1, <2>2, <2>3
<1>g. HeardAgrees
  BY DEF CopyInv, HistoryInv
<1>h. \A n \in Notifs \ {r.id} : HeardNext(n) = Heard(n)
  BY <1>5 DEF Heard, HeardNext
<1>6. \A k \in Kinds : \A x \in Held[k] : x.id = r.id => k = "sending" /\ x = r
  BY <1>2, <1>k DEF CopyInv, PlacesInv, OneKind
<1>7. \A v \in Workers : \A i \in DOMAIN respq[v] :
        /\ respq[v][i].req \in Held["respq"] /\ respq[v][i].req.id \in Notifs
        /\ respq[v][i].req.id # r.id
  <2> SUFFICES ASSUME NEW v \in Workers, NEW i \in DOMAIN respq[v]
               PROVE  /\ respq[v][i].req \in Held["respq"]
                      /\ respq[v][i].req.id \in Notifs /\ respq[v][i].req.id # r.id
    OBVIOUS
  <2>1. RespondedTo[v][i] = respq[v][i].req /\ i \in DOMAIN RespondedTo[v]
        /\ RespondedTo \in [Workers -> Seq(Request)] /\ DOMAIN RespondedTo = Workers
    BY <1>3, PlaceTypes, ReqsOfType DEF RespondedTo
  <2>2. respq[v][i].req \in Held["respq"]
    BY <2>1, FamilyMember, HeldIs DEF IsMember
  <2>3. respq[v][i].req.id \in Notifs
    BY <1>k, <2>2, HeldAreReal DEF CopyInv, PlacesInv
  <2> QED BY <1>6, <1>k, <2>2, <2>3
<1>8. CASE /\ Carried("sending", "respq", r, r) /\ fate' = fate /\ panic' = panic
           /\ respq' = [respq EXCEPT ![w] = Append(respq[w], [req |-> r, ans |-> a])]
  <2>1. OnlyRealRequests' /\ OneKind'
    BY <1>1, <1>4, <1>8, CarryKeepsApart DEF CopyInv, PlacesInv
  <2>2. /\ \A k \in Kinds : \A x \in Held'[k] :
             (x \in Held[k] /\ x.id # r.id) \/ (k = "respq" /\ x = r)
        /\ \A k \in Kinds : \A x \in Held[k] : x \in Held'[k] \/ x = r
        /\ r \in Held'["respq"]
    BY <1>6, <1>8, <1>k DEF Carried, Moves
  <2>3. HeldArePending'
    BY <1>4, <1>8, <1>k, <2>2 DEF CopyInv, HistoryInv, HeldArePending
  <2>4. TriesAgree'
    <3>1. \A k \in Kinds : \A x \in Held'[k] : x.id \in Notifs =>
            wire'[x.id].sends = IF k \in AnsweredKinds THEN x.tries + 1 ELSE x.tries
      BY <1>5, <1>k, <2>2 DEF CopyInv, HistoryInv, TriesAgree
    <3> QED BY <1>4, <1>5, <1>8, <3>1 DEF CopyInv, HistoryInv, TriesAgree
  <2>5. HeardAgrees'
    <3>1. \A k \in Kinds \ {"respq"} : \A x \in Held'[k] : x.id \in Notifs => HeardNext(x.id) = 0
      BY <1>g, <1>h, <2>2 DEF HeardAgrees
    <3>2. ASSUME NEW v \in Workers, NEW i \in DOMAIN respq'[v]
          PROVE  HeardNext(respq'[v][i].req.id) = IF respq'[v][i].ans = "ok" THEN 1 ELSE 0
      <4>1. \/ i \in DOMAIN respq[v] /\ respq'[v][i] = respq[v][i]
            \/ respq'[v][i] = [req |-> r, ans |-> a]
        <5>1. [req |-> r, ans |-> a] \in Response
          BY <1>3 DEF Response
        <5>2. CASE v = w
          BY <1>3, <1>8, <5>1, <5>2, AppendEntries
        <5>3. CASE v # w
          BY <1>3, <1>8, <5>3
        <5> QED BY <5>2, <5>3
      <4>2. CASE i \in DOMAIN respq[v] /\ respq'[v][i] = respq[v][i]
        BY <1>g, <1>h, <1>7, <4>2 DEF HeardAgrees
      <4>3. CASE respq'[v][i] = [req |-> r, ans |-> a]
        BY <1>5, <4>3
      <4> QED BY <4>1, <4>2, <4>3
    <3>3. \A n \in Notifs : /\ HeardNext(n) \in {0, 1}
                            /\ fate'[n] = "delivered" => HeardNext(n) = 1
                            /\ fate'[n] \in {"new", "rejected", "exhausted"} => HeardNext(n) = 0
      BY <1>4, <1>5, <1>8, <1>g, <1>h DEF HeardAgrees
    <3> QED BY <3>1, <3>2, <3>3 DEF HeardAgrees, Heard, HeardNext
  <2>6. AnswersAgree'
    BY <1>1, <1>8 DEF CopyInv, HistoryInv, AnswersAgree
  <2> QED BY <1>2, <2>1, <2>3, <2>4, <2>5, <2>6 DEF CopyInv, PlacesInv, HistoryInv
<1>9. ASSUME Dropped("sending", r), respq' = respq,
             \/ fate' = Settle({r.id}, "dropped") /\ panic' = panic
             \/ fate' = fate /\ panic' # "none"
      PROVE  CopyInv'
  <2>1. OnlyRealRequests' /\ OneKind'
    BY <1>1, <1>9, DropKeepsApart DEF CopyInv, PlacesInv
  <2>2. /\ \A k \in Kinds : \A x \in Held'[k] : x \in Held[k] /\ x.id # r.id
        /\ \A k \in Kinds : \A x \in Held[k] : x \in Held'[k] \/ x = r
    <3>1. PICK b \in Kinds : Moves("sending", b, {r}, {})
      BY <1>9 DEF Dropped
    <3> QED BY <1>6, <3>1 DEF Moves
  <2>3. /\ \A n \in Notifs \ {r.id} : fate'[n] = fate[n]
        /\ \/ fate'[r.id] = "dropped" /\ panic' = panic
           \/ fate'[r.id] = "pending" /\ panic' # "none" /\ fate' = fate
    BY <1>4, <1>9 DEF Settle
  <2>4. HeldArePending'
    <3>1. \A k \in Kinds : \A x \in Held'[k] : x.id \in Notifs => fate'[x.id] = "pending"
      BY <2>2, <2>3 DEF CopyInv, HistoryInv, HeldArePending
    <3>2. ASSUME panic' = "none", NEW n \in Notifs, fate'[n] = "pending"
          PROVE  \E k \in Kinds : \E x \in Held'[k] : x.id = n
      <4>1. fate[n] = "pending" /\ n # r.id /\ panic = "none"
        BY <2>3, <3>2
      <4>2. PICK k \in Kinds : \E x \in Held[k] : x.id = n
        BY <4>1 DEF CopyInv, HistoryInv, HeldArePending
      <4> QED BY <2>2, <4>1, <4>2
    <3> QED BY <3>1, <3>2 DEF HeldArePending
  <2>5. TriesAgree'
    <3>1. \A k \in Kinds : \A x \in Held'[k] : x.id \in Notifs =>
            wire'[x.id].sends = IF k \in AnsweredKinds THEN x.tries + 1 ELSE x.tries
      BY <1>5, <2>2 DEF CopyInv, HistoryInv, TriesAgree
    <3> QED BY <1>4, <1>5, <2>3, <3>1 DEF CopyInv, HistoryInv, TriesAgree
  <2>6. HeardAgrees'
    <3>1. \A k \in Kinds \ {"respq"} : \A x \in Held'[k] : x.id \in Notifs => HeardNext(x.id) = 0
      BY <1>g, <1>h, <2>2 DEF HeardAgrees
    <3>2. \A v \in Workers : \A i \in DOMAIN respq'[v] :
            HeardNext(respq'[v][i].req.id) = IF respq'[v][i].ans = "ok" THEN 1 ELSE 0
      BY <1>7, <1>9, <1>g, <1>h DEF HeardAgrees
    <3>3. \A n \in Notifs : /\ HeardNext(n) \in {0, 1}
                            /\ fate'[n] = "delivered" => HeardNext(n) = 1
                            /\ fate'[n] \in {"new", "rejected", "exhausted"} => HeardNext(n) = 0
      BY <1>5, <2>3, <1>g, <1>h DEF HeardAgrees
    <3> QED BY <3>1, <3>2, <3>3 DEF HeardAgrees, Heard, HeardNext
  <2>7. AnswersAgree'
    <3>1. \A p \in Posts : \A n \in Elems(Batch[p]) : n \in Notifs
      BY BatchIsReal
    <3> QED BY <1>1, <1>4, <2>3, <3>1 DEF CopyInv, HistoryInv, AnswersAgree
  <2> QED BY <1>2, <2>1, <2>4, <2>5, <2>6, <2>7 DEF CopyInv, PlacesInv, HistoryInv
<1> QED BY <1>2, <1>8, <1>9 DEF Settled, Crashed

(* An accepted POST makes its notifications pending; a refused one none.    *)
LEMMA EnqueueCopies ==
  ASSUME TypeOK, CopyInv, NEW p \in Posts, Enqueue(p)
  PROVE  CopyInv'
<1> DEFINE N == Elems(NewRequests(p))
<1>1. /\ OnePlace' /\ UNCHANGED <<wire, respq, panic, closed>>
      /\ \A n \in Elems(Batch[p]) : n \in Notifs /\ fate[n] = "new"
      /\ answer \in [Posts -> {"none", "accepted", "refused"}] /\ answer[p] = "none"
  BY EnqueuePlaces DEF Enqueue, workerVars, control, TypeOK, TypeHistory
<1>2. /\ \A r \in N : r.id \in Elems(Batch[p]) /\ r.id \in Notifs /\ r.tries = 0
      /\ \A n \in Elems(Batch[p]) : \E r \in N : r.id = n
      /\ \A q \in Posts : \A n \in Elems(Batch[q]) : n \in Notifs
  <2>1. \A q \in Posts : \A n \in Elems(Batch[q]) : n \in Notifs
    BY BatchIsReal
  <2> QED BY <2>1, NewRequestsAre
<1>d. \A r, s \in N : r.id = s.id => r = s
  <2>1. NewRequests(p) \in Seq(Request) /\ FamilyDistinct(<<NewRequests(p)>>)
    BY NewRequestsAre
  <2> QED BY <2>1, SingleFamily, ElemsMember
<1>e. \A q \in Posts \ {p} : \A n \in Elems(Batch[q]) : n \notin Elems(Batch[p])
  <2>1. \A q \in Posts : Batch[q] \in Seq(Notifs)
    BY NotifsAssumption
  <2>2. ASSUME NEW q \in Posts \ {p}, NEW n \in Elems(Batch[q]), n \in Elems(Batch[p])
        PROVE  FALSE
    <3>1. PICK i \in DOMAIN Batch[p] : Batch[p][i] = n
      BY <2>1, <2>2, ElemsMember
    <3>2. PICK j \in DOMAIN Batch[q] : Batch[q][j] = n
      BY <2>1, <2>2, ElemsMember
    <3> QED BY <3>1, <3>2, BatchAssumption
  <2> QED BY <2>2
<1> HIDE DEF N
<1>3. CASE /\ \E a \in Kinds : Moves(a, "queue", {}, N)
           /\ fate' = Settle(Elems(Batch[p]), "pending")
           /\ answer' = [answer EXCEPT ![p] = "accepted"]
  <2>0. PICK a \in Kinds : Moves(a, "queue", {}, N)
    BY <1>3
  <2>k. "queue" \in Kinds /\ "queue" \notin AnsweredKinds
    BY DEF Kinds, AnsweredKinds
  <2>1. /\ \A k \in Kinds : \A r \in Held'[k] : r \in Held[k] \/ (k = "queue" /\ r \in N)
        /\ \A k \in Kinds : Held[k] \subseteq Held'[k]
        /\ N \subseteq Held'["queue"]
    BY <2>0, <2>k DEF Moves
  <2>2. /\ \A n \in Notifs : n \in Elems(Batch[p]) => fate'[n] = "pending"
        /\ \A n \in Notifs : n \notin Elems(Batch[p]) => fate'[n] = fate[n]
    BY <1>3 DEF Settle
  <2>3. OnlyRealRequests' /\ OneKind'
    <3>1. \A r \in N : \A k \in Kinds : \A s \in Held[k] : s.id # r.id
      BY <1>1, <1>2 DEF CopyInv, HistoryInv, HeldArePending
    <3> QED BY <1>1, <1>2, <1>d, <2>0, <3>1, MoveKeepsApart DEF CopyInv, PlacesInv
  <2>4. HeldArePending'
    <3>1. \A k \in Kinds : \A r \in Held'[k] : r.id \in Notifs => fate'[r.id] = "pending"
      BY <1>2, <2>1, <2>2 DEF CopyInv, HistoryInv, HeldArePending
    <3>2. ASSUME panic = "none", NEW n \in Notifs, fate'[n] = "pending"
          PROVE  \E k \in Kinds : \E r \in Held'[k] : r.id = n
      <4>1. CASE n \in Elems(Batch[p])
        BY <1>2, <2>1, <2>k, <4>1
      <4>2. CASE n \notin Elems(Batch[p])
        BY <2>1, <2>2, <3>2, <4>2 DEF CopyInv, HistoryInv, HeldArePending
      <4> QED BY <4>1, <4>2
    <3> QED BY <1>1, <3>1, <3>2 DEF HeldArePending
  <2>5. TriesAgree'
    <3>1. \A r \in N : wire[r.id].sends = r.tries
      BY <1>1, <1>2 DEF CopyInv, HistoryInv, TriesAgree
    <3>2. \A k \in Kinds : \A r \in Held'[k] : r.id \in Notifs =>
            wire[r.id].sends = IF k \in AnsweredKinds THEN r.tries + 1 ELSE r.tries
      BY <2>1, <2>k, <3>1 DEF CopyInv, HistoryInv, TriesAgree
    <3> QED BY <1>1, <2>2, <3>2 DEF CopyInv, HistoryInv, TriesAgree
  <2>6. HeardAgrees'
    <3>1. \A r \in N : Heard(r.id) = 0
      BY <1>1, <1>2 DEF CopyInv, HistoryInv, HeardAgrees
    <3>2. \A k \in Kinds \ {"respq"} : \A r \in Held'[k] : r.id \in Notifs => Heard(r.id) = 0
      BY <2>1, <3>1 DEF CopyInv, HistoryInv, HeardAgrees
    <3> QED BY <1>1, <2>2, <3>2 DEF CopyInv, HistoryInv, HeardAgrees, Heard
  <2>7. AnswersAgree'
    <3> SUFFICES ASSUME NEW q \in Posts, NEW n \in Elems(Batch[q])
                 PROVE  fate'[n] = "new" <=> answer'[q] # "accepted"
      BY DEF AnswersAgree
    <3>1. CASE q = p
      BY <1>1, <1>3, <2>2, <3>1
    <3>2. CASE q # p
      BY <1>1, <1>2, <1>3, <1>e, <2>2, <3>2 DEF CopyInv, HistoryInv, AnswersAgree
    <3> QED BY <3>1, <3>2
  <2> QED BY <1>1, <2>3, <2>4, <2>5, <2>6, <2>7 DEF CopyInv, PlacesInv, HistoryInv
<1>4. CASE Stays /\ fate' = fate /\ answer' = [answer EXCEPT ![p] = "refused"]
  <2>1. OnlyRealRequests' /\ OneKind'
    BY <1>1, <1>4 DEF Stays, CopyInv, PlacesInv, OnlyRealRequests, OneKind
  <2>2. HeldArePending'
    BY <1>1, <1>4 DEF Stays, CopyInv, HistoryInv, HeldArePending
  <2>3. TriesAgree'
    BY <1>1, <1>4 DEF Stays, CopyInv, HistoryInv, TriesAgree
  <2>4. HeardAgrees'
    BY <1>1, <1>4 DEF Stays, CopyInv, HistoryInv, HeardAgrees, Heard
  <2>5. AnswersAgree'
    BY <1>1, <1>4 DEF CopyInv, HistoryInv, AnswersAgree
  <2> QED BY <1>1, <2>1, <2>2, <2>3, <2>4, <2>5 DEF CopyInv, PlacesInv, HistoryInv
<1> QED BY <1>3, <1>4, EnqueuePlaces DEF N

-----------------------------------------------------------------------------
LEMMA InitCopies == Init => CopyInv
<1> SUFFICES ASSUME Init PROVE CopyInv
  OBVIOUS
<1>1. /\ queue = << >> /\ retryq = << >> /\ backoff = {} /\ quota = {}
      /\ \A w \in Workers : /\ BatchOf[w] = << >> /\ wq[w] = << >> /\ RespondedTo[w] = << >>
                            /\ respq[w] = << >> /\ worker[w].pc = "select"
                            /\ \A s \in Senders : sender[w][s].pc = "idle"
      /\ DOMAIN wq = Workers /\ DOMAIN BatchOf = Workers /\ DOMAIN RespondedTo = Workers
  BY DEF Init, Selecting, BatchOf, RespondedTo, ReqsOf
<1>2. SendingPairs = {} /\ RetryingWorkers = {}
  BY <1>1 DEF SendingPairs, Pairs, RetryingWorkers
<1>3. FamilyReqs(<<retryq>>) = {} /\ FamilyDistinct(<<retryq>>)
  <2>1. << >> \in Seq(Request) /\ DOMAIN << >> = {} /\ Len(<< >>) = 0
    OBVIOUS
  <2>2. Elems(<< >>) = {}
    BY <2>1 DEF Elems
  <2> QED BY <1>1, <2>1, <2>2, SingleFamily
<1>4. \A k \in Kinds : Held[k] = {}
  BY <1>1, <1>2, <1>3, HeldIs DEF Kinds, FamilyReqs, Elems
<1>5. OnePlace
  <2>1. FamilyDistinct(queue) /\ FamilyDistinct(BatchOf) /\ FamilyDistinct(wq)
        /\ FamilyDistinct(RespondedTo)
    BY <1>1 DEF FamilyDistinct
  <2>2. OneSender /\ OneRetrier
    BY <1>1, <1>2 DEF OneSender, OneRetrier
  <2> QED BY <1>3, <2>1, <2>2 DEF OnePlace
<1>6. OnlyRealRequests /\ OneKind
  BY <1>4 DEF OnlyRealRequests, OneKind
<1>7. /\ fate = [n \in Notifs |-> "new"] /\ answer = [p \in Posts |-> "none"]
      /\ wire = [n \in Notifs |-> [sends |-> 0, taken |-> 0, unheard |-> 0]]
  BY DEF Init
<1>8. HeldArePending
  BY <1>4, <1>7 DEF HeldArePending
<1>9. TriesAgree
  BY <1>4, <1>7, SizesInNat DEF TriesAgree
<1>10. HeardAgrees
  BY <1>1, <1>4, <1>7 DEF HeardAgrees, Heard
<1>11. AnswersAgree
  <2> SUFFICES ASSUME NEW p \in Posts, NEW n \in Elems(Batch[p])
               PROVE  fate[n] = "new" <=> answer[p] # "accepted"
    BY DEF AnswersAgree
  <2>1. n \in Notifs
    BY NewRequestsAre
  <2> QED BY <1>7, <2>1
<1> QED BY <1>5, <1>6, <1>8, <1>9, <1>10, <1>11 DEF CopyInv, PlacesInv, HistoryInv

LEMMA NextCopies ==
  ASSUME TypeOK, ClosingInv, CopyInv, [Next]_vars
  PROVE  CopyInv'
<1>1. ASSUME NEW p \in Posts, Enqueue(p) PROVE CopyInv'
  BY <1>1, EnqueueCopies
<1>2. ASSUME NEW w \in Workers, WorkerStep(w) PROVE CopyInv'
  <2>1. CASE WorkerHook(w) \/ WorkerExit(w) \/ WorkerJoin(w)
    BY <2>1, ElsewhereCopies DEF Elsewhere
  <2> QED BY <1>2, <2>1, RecvRequestsCopies, DistributeCopies, RecvResponseCopies,
             WorkerRetryCopies DEF WorkerStep
<1>3. ASSUME NEW w \in Workers, HookStep(w) PROVE CopyInv'
  BY <1>3, ElsewhereCopies DEF Elsewhere
<1>4. ASSUME NEW w \in Workers, NEW s \in Senders, SenderStep(w, s) PROVE CopyInv'
  <2>1. CASE SenderGone(w, s)
    BY <2>1, ElsewhereCopies DEF Elsewhere
  <2> QED BY <1>4, <2>1, SenderTakeCopies, SenderAnswerCopies DEF SenderStep
<1>5. CASE TickerStep
  <2>1. CASE TickerTick \/ TickerStop
    BY <2>1, ElsewhereCopies DEF Elsewhere
  <2> QED BY <1>5, <2>1, TickerSweepCopies DEF TickerStep
<1>6. CASE TimerStep
  BY <1>6, BackoffFireCopies, QuotaFireCopies DEF TimerStep
<1>7. CASE ShutdownBegin \/ ShutdownStep
  BY <1>7, ElsewhereCopies DEF Elsewhere
<1>8. CASE Terminated \/ UNCHANGED vars
  BY <1>8, ElsewhereCopies DEF Elsewhere, Terminated
<1> QED BY <1>1, <1>2, <1>3, <1>4, <1>5, <1>6, <1>7, <1>8 DEF Next

(* The requests of the pipeline and the history of the notifications agree, *)
(* in every reachable state: CopyInv is inductive, given the types and the  *)
(* order in which Shutdown closes the channels.                             *)
THEOREM OneCopyEach == Spec => []CopyInv
<1>1. TypeOK /\ ClosingInv /\ CopyInv /\ [Next]_vars => CopyInv'
  BY NextCopies
<1> QED BY <1>1, InitCopies, TypeCorrect, ClosesInOrder, PTL DEF Spec

-----------------------------------------------------------------------------
(* Tries counts the sends, so retry() bounds the attempts of a notification *)
(* by SendRetryCount + 1, through every queue and timer.                    *)
THEOREM TriesCountSends == Spec => []AttemptsMatchTries
<1>1. CopyInv => AttemptsMatchTries
  <2> SUFFICES ASSUME CopyInv PROVE AttemptsMatchTries
    OBVIOUS
  <2>1. \A r \in Unsent : r.id \in Notifs => wire[r.id].sends = r.tries
    BY DEF Unsent, CopyInv, HistoryInv, TriesAgree
  <2>2. \A r \in Answered : wire[r.id].sends = r.tries + 1
    <3>1. \A k \in AnsweredKinds : k \in Kinds /\ k # "backoff"
      BY DEF AnsweredKinds, Kinds
    <3>2. ASSUME NEW r \in Answered PROVE wire[r.id].sends = r.tries + 1
      <4>1. PICK k \in AnsweredKinds : r \in Held[k]
        BY DEF Answered
      <4>2. r.id \in Notifs
        BY <3>1, <4>1, HeldAreReal DEF CopyInv, PlacesInv
      <4> QED BY <3>1, <4>1, <4>2 DEF CopyInv, HistoryInv, TriesAgree
    <3> QED BY <3>2
  <2> QED BY <2>1, <2>2 DEF AttemptsMatchTries, CopyInv, HistoryInv, TriesAgree
<1> QED BY <1>1, OneCopyEach, PTL

(* A provider takes a notification twice only when an earlier acceptance    *)
(* was not heard, and the recorded fate agrees with what it took.           *)
THEOREM NoHeardDuplicate == Spec => []DuplicateOnlyIfUnheard
<1>1. CopyInv => DuplicateOnlyIfUnheard
  BY DEF DuplicateOnlyIfUnheard, CopyInv, HistoryInv, HeardAgrees, Heard
<1> QED BY <1>1, OneCopyEach, PTL

(* A refused POST is never sent, an accepted one is wholly in the pipeline. *)
THEOREM PostsArePromises == Spec => []AnswerIsAPromise
<1>1. TypeOK /\ CopyInv => AnswerIsAPromise
  <2> SUFFICES ASSUME TypeOK, CopyInv, NEW p \in Posts, NEW n \in Elems(Batch[p])
               PROVE  /\ (fate[n] = "new") = (answer[p] # "accepted")
                      /\ fate[n] = "new" => wire[n].sends = 0
    BY DEF AnswerIsAPromise
  <2>1. n \in Notifs
    BY NewRequestsAre
  <2>2. (fate[n] = "new") <=> (answer[p] # "accepted")
    BY DEF CopyInv, HistoryInv, AnswersAgree
  <2> QED BY <2>1, <2>2 DEF CopyInv, HistoryInv, TriesAgree
<1> QED BY <1>1, TypeCorrect, OneCopyEach, PTL

-----------------------------------------------------------------------------
(* What a step may do to a notification: only the step of the request that  *)
(* is held for it, or the POST that brings it.                              *)
OnlyTouches(S) ==
    /\ \A n \in Notifs : n \notin S => fate'[n] = fate[n] /\ wire'[n] = wire[n]
    /\ \A n \in Notifs : n \in S => fate[n] \notin Final

LEMMA HeldNotFinal ==
  ASSUME CopyInv, NEW k \in Kinds, NEW r \in Held[k], r.id \in Notifs
  PROVE  fate[r.id] \notin Final
BY DEF CopyInv, HistoryInv, HeldArePending, Final

(* The steps that settle or lose a request touch its notification alone.    *)
LEMMA GoneTouches ==
  ASSUME CopyInv, NEW k \in Kinds, NEW r \in Held[k], wire' = wire,
         \/ fate' = fate
         \/ \E f \in Final : fate' = Settle({r.id}, f)
  PROVE  OnlyTouches({r.id})
BY HeldNotFinal DEF OnlyTouches, Settle

LEMMA StepTouches ==
  ASSUME TypeOK, ClosingInv, CopyInv, [Next]_vars
  PROVE  \E S : OnlyTouches(S)
<1>0. ASSUME UNCHANGED <<fate, wire>> PROVE \E S : OnlyTouches(S)
  <2>1. OnlyTouches({})
    BY <1>0 DEF OnlyTouches
  <2> QED BY <2>1
<1>k. "respq" \in Kinds /\ "retry" \in Kinds /\ "quota" \in Kinds /\ "sending" \in Kinds
      /\ "backoff" \in Kinds
  BY DEF Kinds
<1>1. ASSUME NEW p \in Posts, Enqueue(p) PROVE \E S : OnlyTouches(S)
  <2>1. /\ wire' = wire /\ \A n \in Elems(Batch[p]) : fate[n] = "new"
        /\ fate' = Settle(Elems(Batch[p]), "pending") \/ fate' = fate
    BY <1>1, EnqueuePlaces DEF Enqueue
  <2>2. OnlyTouches(Elems(Batch[p]))
    BY <2>1 DEF OnlyTouches, Settle, Final
  <2> QED BY <2>2
<1>2. ASSUME NEW w \in Workers, RecvResponse(w) PROVE \E S : OnlyTouches(S)
  <2>1. Answering(w).req \in Held["respq"]
    BY <1>2, RecvResponsePlaces DEF CopyInv, Carried, Dropped, Moves
  <2>2. /\ wire' = wire
        /\ fate' = [fate EXCEPT ![Answering(w).req.id] =
                      FateAfter(Answering(w).req.id, Answering(w).ans)]
    BY <1>2 DEF RecvResponse, Answering
  <2>3. OnlyTouches({Answering(w).req.id})
    BY <1>k, <2>1, <2>2, HeldNotFinal DEF OnlyTouches, TypeOK, TypeHistory
  <2> QED BY <2>3
<1>3. ASSUME NEW a \in {"retry", "quota"}, NEW r \in Held[a], Resent(a, r), wire' = wire
      PROVE  \E S : OnlyTouches(S)
  <2>1. fate' = fate \/ \E f \in Final : fate' = Settle({r.id}, f)
    BY <1>3 DEF Resent, Settled, Crashed, Final
  <2>2. OnlyTouches({r.id})
    BY <1>3, <1>k, <2>1, GoneTouches
  <2> QED BY <2>2
<1>4. ASSUME NEW w \in Workers, WorkerRetry(w) PROVE \E S : OnlyTouches(S)
  BY <1>3, <1>4, WorkerRetryPlaces DEF CopyInv, WorkerRetry
<1>5. ASSUME NEW r \in quota, QuotaFire(r) PROVE \E S : OnlyTouches(S)
  BY <1>3, <1>5, QuotaFirePlaces DEF CopyInv, QuotaFire
<1>6. ASSUME NEW r \in backoff, BackoffFire(r) PROVE \E S : OnlyTouches(S)
  <2>1. fate' = fate \/ \E f \in Final : fate' = Settle({r.id}, f)
    BY <1>6, BackoffFirePlaces DEF CopyInv, Settled, Crashed, Final
  <2>2. r \in Held["backoff"] /\ wire' = wire
    BY <1>6, BackoffFirePlaces DEF CopyInv, BackoffFire
  <2>3. OnlyTouches({r.id})
    BY <1>k, <2>1, <2>2, GoneTouches
  <2> QED BY <2>3
<1>7. ASSUME NEW w \in Workers, NEW s \in Senders, NEW a \in Answers, NEW taken \in BOOLEAN,
             SenderAnswer(w, s, a, taken)
      PROVE  \E S : OnlyTouches(S)
  <2>1. PICK r : r = sender[w][s].req
    OBVIOUS
  <2>2. /\ r \in Held["sending"]
        /\ fate' = fate \/ fate' = Settle({r.id}, "dropped")
    BY <1>7, <2>1, SenderAnswerPlaces DEF CopyInv, Settled, Crashed
  <2>3. wire' = [wire EXCEPT ![r.id] = Sent(@, a, taken)]
    BY <1>7, <2>1 DEF SenderAnswer
  <2>4. OnlyTouches({r.id})
    BY <1>k, <2>2, <2>3, HeldNotFinal DEF OnlyTouches, Settle, TypeOK, TypeHistory
  <2> QED BY <2>4
<1>8. ASSUME Elsewhere PROVE UNCHANGED <<fate, wire>>
  BY <1>8, ElsewherePlaces DEF CopyInv
<1>9. ASSUME NEW w \in Workers, WorkerStep(w) PROVE \E S : OnlyTouches(S)
  <2>1. CASE WorkerHook(w) \/ WorkerExit(w) \/ WorkerJoin(w)
    BY <1>0, <1>8, <2>1 DEF Elsewhere
  <2>2. CASE RecvRequests(w) \/ Distribute(w)
    BY <1>0, <2>2 DEF RecvRequests, Distribute, history
  <2> QED BY <1>2, <1>4, <1>9, <2>1, <2>2 DEF WorkerStep
<1>10. ASSUME NEW w \in Workers, NEW s \in Senders, SenderStep(w, s)
       PROVE  \E S : OnlyTouches(S)
  <2>1. CASE SenderTake(w, s)
    BY <1>0, <2>1 DEF SenderTake, history
  <2>2. CASE SenderGone(w, s)
    BY <1>0, <1>8, <2>2 DEF Elsewhere
  <2> QED BY <1>7, <1>10, <2>1, <2>2 DEF SenderStep
<1>11. CASE TickerStep
  <2>1. CASE TickerSweep
    BY <1>0, <2>1 DEF TickerSweep, history
  <2>2. CASE TickerTick \/ TickerStop
    BY <1>0, <1>8, <2>2 DEF Elsewhere
  <2> QED BY <1>11, <2>1, <2>2 DEF TickerStep
<1>12. CASE (\E w \in Workers : HookStep(w)) \/ ShutdownBegin \/ ShutdownStep \/ UNCHANGED vars
  BY <1>0, <1>8, <1>12 DEF Elsewhere
<1> QED BY <1>1, <1>5, <1>6, <1>9, <1>10, <1>11, <1>12 DEF Next, TimerStep, Terminated

(* A settled notification is not sent again and keeps its fate.             *)
THEOREM SettledStays == Spec => SettledForever
<1>1. TypeOK /\ ClosingInv /\ CopyInv /\ [Next]_vars =>
        [\A n \in Notifs : fate[n] \in Final => fate'[n] = fate[n] /\ wire'[n] = wire[n]]_vars
  BY StepTouches DEF OnlyTouches
<1> QED BY <1>1, TypeCorrect, ClosesInOrder, OneCopyEach, PTL DEF Spec, SettledForever

-----------------------------------------------------------------------------
(* The places of a notification, one kind at a time *)

FamilyPlace(tag, f, n, pl) ==
    \E x \in DOMAIN f : \E i \in DOMAIN f[x] : f[x][i].id = n /\ pl = <<tag, x, i>>
PlaceAt(k, n, pl) ==
    \/ k = "queue" /\ FamilyPlace("queue", queue, n, pl)
    \/ k = "batch" /\ FamilyPlace("batch", BatchOf, n, pl)
    \/ k = "wq" /\ FamilyPlace("wq", wq, n, pl)
    \/ k = "respq" /\ FamilyPlace("respq", RespondedTo, n, pl)
    \/ /\ k = "sending"
       /\ \E w \in Workers : \E s \in Senders : /\ sender[w][s].pc = "sending"
                                                /\ sender[w][s].req.id = n
                                                /\ pl = <<"sending", w, s>>
    \/ /\ k = "retry"
       /\ \E w \in RetryingWorkers : worker[w].resp.req.id = n /\ pl = <<"retry", w>>
    \/ k = "retryq" /\ \E i \in DOMAIN retryq : retryq[i].id = n /\ pl = <<"retryq", i>>
    \/ k = "backoff" /\ \E r \in backoff : r.id = n /\ pl = <<"backoff", r>>
    \/ k = "quota" /\ \E r \in quota : r.id = n /\ pl = <<"quota", r>>

LEMMA AtMember ==
  ASSUME NEW tag, NEW x, NEW is
  PROVE  \A pl : pl \in At(tag, x, is) <=> \E i \in is : pl = <<tag, x, i>>
BY DEF At

(* A place in a worker is of one of the kinds a worker has.                 *)
LEMMA InWorkerMember ==
  ASSUME TypeOK, NEW n, NEW w \in Workers
  PROVE  \A pl : pl \in InWorker(n, w) <=>
           \/ \E i \in DOMAIN BatchOf[w] : BatchOf[w][i].id = n /\ pl = <<"batch", w, i>>
           \/ \E i \in DOMAIN wq[w] : wq[w][i].id = n /\ pl = <<"wq", w, i>>
           \/ \E i \in DOMAIN RespondedTo[w] :
                RespondedTo[w][i].id = n /\ pl = <<"respq", w, i>>
           \/ \E s \in Senders : /\ sender[w][s].pc = "sending"
                                 /\ sender[w][s].req.id = n /\ pl = <<"sending", w, s>>
           \/ w \in RetryingWorkers /\ worker[w].resp.req.id = n /\ pl = <<"retry", w>>
<1> DEFINE B == Holding(n, worker[w].batch)
           Q == Holding(n, wq[w])
           R == {i \in DOMAIN respq[w] : respq[w][i].req.id = n}
           S == {s \in Senders : sender[w][s].pc = "sending" /\ sender[w][s].req.id = n}
           T == IF worker[w].pc = "retry" /\ worker[w].resp.req.id = n
                THEN {<<"retry", w>>} ELSE {}
<1>1. InWorker(n, w) = At("batch", w, B) \cup At("wq", w, Q) \cup At("respq", w, R)
                       \cup At("sending", w, S) \cup T
  BY DEF InWorker
<1>2. /\ \A i : i \in B <=> i \in DOMAIN BatchOf[w] /\ BatchOf[w][i].id = n
      /\ \A i : i \in Q <=> i \in DOMAIN wq[w] /\ wq[w][i].id = n
  BY DEF Holding, BatchOf
<1>3. \A i : i \in R <=> i \in DOMAIN RespondedTo[w] /\ RespondedTo[w][i].id = n
  <2>1. /\ RespondedTo[w] = ReqsOf(respq[w]) /\ respq[w] \in Seq(Response)
    BY PlaceTypes DEF RespondedTo
  <2>2. /\ DOMAIN RespondedTo[w] = DOMAIN respq[w]
        /\ \A i \in DOMAIN respq[w] : RespondedTo[w][i] = respq[w][i].req
    BY <2>1, ReqsOfType
  <2> QED BY <2>2
<1>4. \A s : s \in S <=> s \in Senders /\ sender[w][s].pc = "sending"
                         /\ sender[w][s].req.id = n
  OBVIOUS
<1>5. \A pl : pl \in T <=> w \in RetryingWorkers /\ worker[w].resp.req.id = n
                           /\ pl = <<"retry", w>>
  BY DEF RetryingWorkers
<1> HIDE DEF B, Q, R, S, T
<1> QED BY <1>1, <1>2, <1>3, <1>4, <1>5, AtMember

LEMMA PlacesMember ==
  ASSUME TypeOK, NEW n
  PROVE  \A pl : pl \in Places(n) <=> \E k \in Kinds : PlaceAt(k, n, pl)
<1> DEFINE A == UNION {At("queue", i, Holding(n, queue[i])) : i \in DOMAIN queue}
           B == UNION {InWorker(n, w) : w \in Workers}
           C == {<<"retryq", i>> : i \in Holding(n, retryq)}
           D == {<<"backoff", r>> : r \in {x \in backoff : x.id = n}}
           E == {<<"quota", r>> : r \in {x \in quota : x.id = n}}
<1>1. Places(n) = A \cup B \cup C \cup D \cup E
  BY DEF Places
<1>2. \A pl : pl \in A <=> FamilyPlace("queue", queue, n, pl)
  <2>1. \A pl : pl \in A <=> \E i \in DOMAIN queue : pl \in At("queue", i, Holding(n, queue[i]))
    OBVIOUS
  <2>2. \A i \in DOMAIN queue : \A j :
          j \in Holding(n, queue[i]) <=> j \in DOMAIN queue[i] /\ queue[i][j].id = n
    BY DEF Holding
  <2> HIDE DEF A
  <2> QED BY <2>1, <2>2, AtMember DEF FamilyPlace
<1>3. \A pl : pl \in B <=>
        PlaceAt("batch", n, pl) \/ PlaceAt("wq", n, pl) \/ PlaceAt("respq", n, pl)
        \/ PlaceAt("sending", n, pl) \/ PlaceAt("retry", n, pl)
  <2>1. \A pl : pl \in B <=> \E w \in Workers : pl \in InWorker(n, w)
    OBVIOUS
  <2>2. DOMAIN BatchOf = Workers /\ DOMAIN wq = Workers /\ DOMAIN RespondedTo = Workers
        /\ RetryingWorkers \subseteq Workers
    BY PlaceTypes DEF RetryingWorkers
  <2> HIDE DEF B
  <2>3. ASSUME NEW pl, NEW w \in Workers, pl \in InWorker(n, w)
        PROVE  PlaceAt("batch", n, pl) \/ PlaceAt("wq", n, pl) \/ PlaceAt("respq", n, pl)
               \/ PlaceAt("sending", n, pl) \/ PlaceAt("retry", n, pl)
    BY <2>2, <2>3, InWorkerMember DEF PlaceAt, FamilyPlace
  <2>4. ASSUME NEW pl,
               PlaceAt("batch", n, pl) \/ PlaceAt("wq", n, pl) \/ PlaceAt("respq", n, pl)
               \/ PlaceAt("sending", n, pl) \/ PlaceAt("retry", n, pl)
        PROVE  \E w \in Workers : pl \in InWorker(n, w)
    <3>1. CASE PlaceAt("batch", n, pl) \/ PlaceAt("wq", n, pl) \/ PlaceAt("respq", n, pl)
      BY <2>2, <3>1, InWorkerMember DEF PlaceAt, FamilyPlace
    <3>2. CASE PlaceAt("sending", n, pl) \/ PlaceAt("retry", n, pl)
      BY <2>2, <3>2, InWorkerMember DEF PlaceAt, FamilyPlace
    <3> QED BY <2>4, <3>1, <3>2
  <2> QED BY <2>1, <2>3, <2>4
<1>4. \A pl : pl \in C <=> PlaceAt("retryq", n, pl)
  BY DEF PlaceAt, Holding
<1>5. \A pl : pl \in D <=> PlaceAt("backoff", n, pl)
  BY DEF PlaceAt
<1>6. \A pl : pl \in E <=> PlaceAt("quota", n, pl)
  BY DEF PlaceAt
<1>7. \A pl : FamilyPlace("queue", queue, n, pl) <=> PlaceAt("queue", n, pl)
  BY DEF PlaceAt
<1> HIDE DEF A, B, C, D, E
<1> QED BY <1>1, <1>2, <1>3, <1>4, <1>5, <1>6, <1>7 DEF Kinds

(* A kind of place has a place for n exactly when it holds a request for n. *)
LEMMA FamilyPlaceHeld ==
  ASSUME NEW f, f \in [DOMAIN f -> Seq(Request)], NEW tag, NEW n
  PROVE  (\E pl : FamilyPlace(tag, f, n, pl)) <=> \E r \in FamilyReqs(f) : r.id = n
<1>1. ASSUME NEW pl, FamilyPlace(tag, f, n, pl) PROVE \E r \in FamilyReqs(f) : r.id = n
  <2>1. PICK x \in DOMAIN f : \E i \in DOMAIN f[x] : f[x][i].id = n
    BY <1>1 DEF FamilyPlace
  <2>2. PICK i \in DOMAIN f[x] : f[x][i].id = n
    BY <2>1
  <2>3. f[x][i] \in FamilyReqs(f)
    BY FamilyMember DEF IsMember
  <2> QED BY <2>2, <2>3
<1>2. ASSUME NEW r \in FamilyReqs(f), r.id = n PROVE \E pl : FamilyPlace(tag, f, n, pl)
  <2>1. PICK x \in DOMAIN f : \E i \in DOMAIN f[x] : f[x][i] = r
    BY FamilyMember DEF IsMember
  <2>2. PICK i \in DOMAIN f[x] : f[x][i] = r
    BY <2>1
  <2>3. FamilyPlace(tag, f, n, <<tag, x, i>>)
    BY <1>2, <2>2 DEF FamilyPlace
  <2> QED BY <2>3
<1> QED BY <1>1, <1>2

LEMMA PlaceAtHeld ==
  ASSUME TypeOK, NEW n, NEW k \in Kinds
  PROVE  (\E pl : PlaceAt(k, n, pl)) <=> \E r \in Held[k] : r.id = n
<1>1. CASE k = "queue"
  <2>1. queue \in [DOMAIN queue -> Seq(Request)]
    BY PlaceTypes, QueueMember
  <2>2. \A pl : PlaceAt(k, n, pl) <=> FamilyPlace("queue", queue, n, pl)
    BY <1>1 DEF PlaceAt
  <2>3. (\E pl : FamilyPlace("queue", queue, n, pl)) <=> \E r \in FamilyReqs(queue) : r.id = n
    BY <2>1, FamilyPlaceHeld
  <2> QED BY <1>1, <2>2, <2>3, HeldIs
<1>2. CASE k = "batch"
  <2>2. \A pl : PlaceAt(k, n, pl) <=> FamilyPlace("batch", BatchOf, n, pl)
    BY <1>2 DEF PlaceAt
  <2>1. BatchOf \in [DOMAIN BatchOf -> Seq(Request)]
    BY PlaceTypes
  <2>3. (\E pl : FamilyPlace("batch", BatchOf, n, pl)) <=> \E r \in FamilyReqs(BatchOf) : r.id = n
    BY <2>1, FamilyPlaceHeld
  <2> QED BY <1>2, <2>2, <2>3, HeldIs
<1>3. CASE k = "wq"
  <2>2. \A pl : PlaceAt(k, n, pl) <=> FamilyPlace("wq", wq, n, pl)
    BY <1>3 DEF PlaceAt
  <2>1. wq \in [DOMAIN wq -> Seq(Request)]
    BY PlaceTypes
  <2>3. (\E pl : FamilyPlace("wq", wq, n, pl)) <=> \E r \in FamilyReqs(wq) : r.id = n
    BY <2>1, FamilyPlaceHeld
  <2> QED BY <1>3, <2>2, <2>3, HeldIs
<1>4. CASE k = "respq"
  <2>2. \A pl : PlaceAt(k, n, pl) <=> FamilyPlace("respq", RespondedTo, n, pl)
    BY <1>4 DEF PlaceAt
  <2>1. RespondedTo \in [DOMAIN RespondedTo -> Seq(Request)]
    BY PlaceTypes
  <2>3. (\E pl : FamilyPlace("respq", RespondedTo, n, pl)) <=> \E r \in FamilyReqs(RespondedTo) : r.id = n
    BY <2>1, FamilyPlaceHeld
  <2> QED BY <1>4, <2>2, <2>3, HeldIs
<1>5. CASE k = "sending"
  <2>1. (\E pl : PlaceAt(k, n, pl)) <=>
          \E w \in Workers : \E s \in Senders : sender[w][s].pc = "sending"
                                                /\ sender[w][s].req.id = n
    BY <1>5 DEF PlaceAt
  <2> QED BY <1>5, <2>1, SendingMember
<1>6. CASE k = "retry"
  <2>1. (\E pl : PlaceAt(k, n, pl)) <=> \E w \in RetryingWorkers : worker[w].resp.req.id = n
    BY <1>6 DEF PlaceAt
  <2> QED BY <1>6, <2>1, HeldIs
<1>7. CASE k = "retryq"
  <2>1. (\E pl : PlaceAt(k, n, pl)) <=> \E i \in DOMAIN retryq : retryq[i].id = n
    BY <1>7 DEF PlaceAt
  <2>2. \A r : r \in Held["retryq"] <=> \E i \in DOMAIN retryq : retryq[i] = r
    BY PlaceTypes, SingleFamily, ElemsMember, HeldIs
  <2> QED BY <1>7, <2>1, <2>2
<1>8. CASE k = "backoff"
  BY <1>8, HeldIs DEF PlaceAt
<1>9. CASE k = "quota"
  BY <1>9, HeldIs DEF PlaceAt
<1> QED BY <1>1, <1>2, <1>3, <1>4, <1>5, <1>6, <1>7, <1>8, <1>9 DEF Kinds

(* And at most one.                                                         *)
LEMMA PlaceAtOne ==
  ASSUME TypeOK, PlacesInv, NEW n, NEW k \in Kinds, NEW p, NEW q,
         PlaceAt(k, n, p), PlaceAt(k, n, q)
  PROVE  p = q
<1>1. ASSUME NEW f, NEW tag, FamilyDistinct(f), FamilyPlace(tag, f, n, p),
             FamilyPlace(tag, f, n, q)
      PROVE  p = q
  BY <1>1 DEF FamilyDistinct, FamilyPlace
<1>2. CASE k \in {"queue", "batch", "wq", "respq"}
  BY <1>1, <1>2 DEF PlaceAt, PlacesInv, OnePlace
<1>3. CASE k = "sending"
  BY <1>3 DEF PlaceAt, PlacesInv, OnePlace, OneSender
<1>4. CASE k = "retry"
  BY <1>4 DEF PlaceAt, PlacesInv, OnePlace, OneRetrier
<1>5. CASE k = "retryq"
  <2>1. \A i, j \in DOMAIN retryq : retryq[i].id = retryq[j].id => i = j
    BY PlaceTypes, SingleFamily DEF PlacesInv, OnePlace
  <2> QED BY <1>5, <2>1 DEF PlaceAt
<1>6. CASE k = "backoff"
  <2>1. \A r, s \in backoff : r.id = s.id => r = s
    BY HeldIs DEF PlacesInv, OneKind, Kinds
  <2> QED BY <1>6, <2>1 DEF PlaceAt
<1>7. CASE k = "quota"
  <2>1. \A r, s \in quota : r.id = s.id => r = s
    BY HeldIs DEF PlacesInv, OneKind, Kinds
  <2> QED BY <1>7, <2>1 DEF PlaceAt
<1> QED BY <1>2, <1>3, <1>4, <1>5, <1>6, <1>7 DEF Kinds

(* So a notification has a place while a request is held for it, and never  *)
(* two.                                                                     *)
HeldFor(n) == \E k \in Kinds : \E r \in Held[k] : r.id = n

LEMMA PlacesHeld ==
  ASSUME TypeOK, NEW n
  PROVE  Places(n) # {} <=> HeldFor(n)
<1>1. Places(n) # {} <=> \E pl : pl \in Places(n)
  OBVIOUS
<1>2. (\E pl : pl \in Places(n)) <=> \E k \in Kinds : \E pl : PlaceAt(k, n, pl)
  BY PlacesMember
<1> QED BY <1>1, <1>2, PlaceAtHeld DEF HeldFor

LEMMA PlacesOne ==
  ASSUME TypeOK, PlacesInv, NEW n, NEW p \in Places(n), NEW q \in Places(n)
  PROVE  p = q
<1>1. PICK k \in Kinds : PlaceAt(k, n, p)
  BY PlacesMember
<1>2. PICK l \in Kinds : PlaceAt(l, n, q)
  BY PlacesMember
<1>3. PICK r \in Held[k] : r.id = n
  BY <1>1, PlaceAtHeld
<1>4. PICK s \in Held[l] : s.id = n
  BY <1>2, PlaceAtHeld
<1>5. k = l
  BY <1>3, <1>4 DEF PlacesInv, OneKind
<1> QED BY <1>1, <1>2, <1>5, PlaceAtOne

(* A notification that was accepted and is not settled has exactly one      *)
(* request in the pipeline, a settled one has none.                         *)
THEOREM ExactlyOne == Spec => []ExactlyOneCopy
<1>1. TypeOK /\ CopyInv => ExactlyOneCopy
  <2> SUFFICES ASSUME TypeOK, CopyInv, panic = "none", NEW n \in Notifs
               PROVE  Cardinality(Places(n)) = IF fate[n] = "pending" THEN 1 ELSE 0
    BY DEF ExactlyOneCopy
  <2>1. HeldFor(n) <=> fate[n] = "pending"
    BY DEF CopyInv, HistoryInv, HeldArePending, HeldFor
  <2>2. CASE fate[n] = "pending"
    <3>1. PICK p : p \in Places(n)
      BY <2>1, <2>2, PlacesHeld
    <3>2. Places(n) = {p}
      BY <3>1, PlacesOne DEF CopyInv
    <3> QED BY <2>2, <3>2, FS_Singleton
  <2>3. CASE fate[n] # "pending"
    <3>1. Places(n) = {}
      BY <2>1, <2>3, PlacesHeld
    <3> QED BY <2>3, <3>1, FS_EmptySet
  <2> QED BY <2>2, <2>3
<1> QED BY <1>1, TypeCorrect, OneCopyEach, PTL

-----------------------------------------------------------------------------
(* The pipeline implements Delivery, step by step *)

HeldForNext(n) == \E k \in Kinds : \E r \in Held'[k] : r.id = n
SameNew == \A n \in Notifs : fate'[n] = "new" <=> fate[n] = "new"
KeepsLive == \A n \in Notifs : HeldForNext(n) <=> HeldFor(n)
EndsLive(m) ==
    /\ HeldFor(m) /\ ~HeldForNext(m)
    /\ \A n \in Notifs \ {m} : HeldForNext(n) <=> HeldFor(n)

(* What a step may do to the notifications, in the words of Delivery.       *)
Idle == wire' = wire /\ SameNew /\ KeepsLive
Leaves(m) == wire' = wire /\ SameNew /\ EndsLive(m)
Attempts(m) ==
    /\ m \in Notifs /\ SameNew /\ HeldFor(m) /\ wire[m].sends <= SendRetryCount
    /\ \E a \in Answers, taken \in BOOLEAN :
         wire' = [wire EXCEPT ![m] = Sent(wire[m], a, taken)]
    /\ KeepsLive \/ EndsLive(m)
Accepts(ns) ==
    /\ ns \subseteq Notifs /\ wire' = wire
    /\ \A n \in ns : fate[n] = "new" /\ fate'[n] # "new" /\ HeldForNext(n)
    /\ \A n \in Notifs \ ns : /\ fate'[n] = "new" <=> fate[n] = "new"
                              /\ HeldForNext(n) <=> HeldFor(n)

LEMMA MoveLive ==
  ASSUME NEW a, NEW b, NEW X, NEW Y, Moves(a, b, X, Y),
         \A y \in Y : \E x \in X : x.id = y.id, \A x \in X : \E y \in Y : y.id = x.id
  PROVE  KeepsLive
<1>1. /\ \A k \in Kinds : \A r \in Held'[k] : r \in Held[k] \/ r \in Y
      /\ \A k \in Kinds : \A r \in Held[k] : r \in Held'[k] \/ r \in X
      /\ X \subseteq Held[a] /\ Y \subseteq Held'[b] /\ a \in Kinds /\ b \in Kinds
  BY DEF Moves
<1> SUFFICES ASSUME NEW n \in Notifs PROVE HeldForNext(n) <=> HeldFor(n)
  BY DEF KeepsLive
<1>2. ASSUME HeldForNext(n) PROVE HeldFor(n)
  <2>1. PICK k \in Kinds : \E r \in Held'[k] : r.id = n
    BY <1>2 DEF HeldForNext
  <2>2. PICK r \in Held'[k] : r.id = n
    BY <2>1
  <2> QED BY <1>1, <2>2 DEF HeldFor
<1>3. ASSUME HeldFor(n) PROVE HeldForNext(n)
  <2>1. PICK k \in Kinds : \E r \in Held[k] : r.id = n
    BY <1>3 DEF HeldFor
  <2>2. PICK r \in Held[k] : r.id = n
    BY <2>1
  <2> QED BY <1>1, <2>2 DEF HeldForNext
<1> QED BY <1>2, <1>3

LEMMA CarryLive ==
  ASSUME NEW a, NEW b, NEW r, NEW s, Carried(a, b, r, s)
  PROVE  KeepsLive
BY MoveLive DEF Carried

LEMMA DropLive ==
  ASSUME CopyInv, NEW a \in Kinds, NEW r, Dropped(a, r)
  PROVE  EndsLive(r.id)
<1>1. PICK b \in Kinds : Moves(a, b, {r}, {})
  BY DEF Dropped
<1>2. /\ r \in Held[a]
      /\ \A k \in Kinds : \A x \in Held'[k] : x \in Held[k] /\ x.id # r.id
      /\ \A k \in Kinds : \A x \in Held[k] : x \in Held'[k] \/ x = r
  BY <1>1 DEF Moves, CopyInv, PlacesInv, OneKind
<1> QED BY <1>2 DEF EndsLive, HeldFor, HeldForNext

LEMMA GoneNew ==
  ASSUME CopyInv, NEW k \in Kinds, NEW r \in Held[k],
         \/ fate' = fate
         \/ \E f \in Final : fate' = Settle({r.id}, f)
  PROVE  SameNew
BY DEF SameNew, Settle, CopyInv, HistoryInv, HeldArePending, Final

LEMMA DropsOut ==
  ASSUME CopyInv, NEW a \in Kinds, NEW r \in Held[a], wire' = wire,
         \/ \E f \in Final : Settled(a, r, f)
         \/ Crashed(a, r)
  PROVE  Leaves(r.id)
<1>1. SameNew
  BY GoneNew DEF Settled, Crashed
<1>2. EndsLive(r.id)
  BY DropLive DEF Settled, Crashed
<1> QED BY <1>1, <1>2 DEF Leaves

Promised == Idle \/ (\E m : Leaves(m) \/ Attempts(m)) \/ \E ns : Accepts(ns)

LEMMA StayIdle ==
  ASSUME Stays, UNCHANGED <<fate, wire>>
  PROVE  Promised
BY DEF Stays, Promised, Idle, SameNew, KeepsLive, HeldFor, HeldForNext

LEMMA ResentPromised ==
  ASSUME CopyInv, NEW a \in {"retry", "quota"}, NEW r \in Held[a], Resent(a, r), wire' = wire
  PROVE  Promised
<1>1. a \in Kinds /\ {"dropped", "exhausted"} \subseteq Final
  BY DEF Kinds, Final
<1>2. CASE Carried(a, "retryq", r, NextTry(r)) /\ fate' = fate
  BY <1>2, CarryLive DEF Promised, Idle, SameNew
<1>3. CASE (\E f \in {"dropped", "exhausted"} : Settled(a, r, f)) \/ Crashed(a, r)
  <2>1. Leaves(r.id)
    BY <1>1, <1>3, DropsOut
  <2> QED BY <2>1 DEF Promised
<1> QED BY <1>2, <1>3 DEF Resent

LEMMA EnqueuePromised ==
  ASSUME TypeOK, CopyInv, NEW p \in Posts, Enqueue(p)
  PROVE  Promised
<1> DEFINE ns == Elems(Batch[p])
           N == Elems(NewRequests(p))
<1>1. /\ wire' = wire /\ ns \subseteq Notifs /\ \A n \in ns : fate[n] = "new"
      /\ \/ /\ \E a \in Kinds : Moves(a, "queue", {}, N)
            /\ fate' = Settle(ns, "pending")
         \/ Stays /\ fate' = fate
  BY EnqueuePlaces DEF Enqueue
<1>2. /\ \A r \in N : r.id \in ns
      /\ \A n \in ns : \E r \in N : r.id = n
      /\ "queue" \in Kinds
  BY NewRequestsAre DEF Kinds
<1> HIDE DEF ns, N
<1>3. CASE Stays /\ fate' = fate
  BY <1>1, <1>3, StayIdle
<1>4. CASE (\E a \in Kinds : Moves(a, "queue", {}, N)) /\ fate' = Settle(ns, "pending")
  <2>1. PICK a \in Kinds : Moves(a, "queue", {}, N)
    BY <1>4
  <2>2. /\ \A k \in Kinds : \A r \in Held'[k] : r \in Held[k] \/ r \in N
        /\ \A k \in Kinds : Held[k] \subseteq Held'[k]
        /\ N \subseteq Held'["queue"]
    BY <2>1 DEF Moves
  <2>3. \A n \in ns : HeldForNext(n)
    BY <1>2, <2>2 DEF HeldForNext
  <2>4. \A n \in Notifs \ ns : HeldForNext(n) <=> HeldFor(n)
    BY <1>2, <2>2 DEF HeldFor, HeldForNext
  <2>5. Accepts(ns)
    BY <1>1, <1>4, <2>3, <2>4 DEF Accepts, Settle
  <2> QED BY <2>5 DEF Promised
<1> QED BY <1>1, <1>3, <1>4

LEMMA RecvResponsePromised ==
  ASSUME TypeOK, CopyInv, NEW w \in Workers, RecvResponse(w)
  PROVE  Promised
<1> DEFINE x == Answering(w)
           q == x.req
<1>1. /\ RetriedNow(x.ans) => Carried("respq", "retry", q, q)
      /\ RetriedLater(x.ans) => Carried("respq", "quota", q, q)
      /\ ~RetriedNow(x.ans) /\ ~RetriedLater(x.ans) => Dropped("respq", q)
  BY RecvResponsePlaces DEF CopyInv
<1>2. /\ wire' = wire /\ fate' = [fate EXCEPT ![q.id] = FateAfter(q.id, x.ans)]
      /\ fate \in [Notifs -> {"new", "pending"} \cup Final]
  BY DEF RecvResponse, Answering, TypeOK, TypeHistory
<1>k. "respq" \in Kinds /\ "respq" # "backoff"
  BY DEF Kinds
<1> HIDE DEF x, q
<1>3. q \in Held["respq"]
  BY <1>1 DEF Carried, Dropped, Moves
<1>4. q.id \in Notifs
  BY <1>k, <1>3, HeldAreReal DEF CopyInv, PlacesInv
<1>5. fate[q.id] = "pending"
  BY <1>k, <1>3, <1>4 DEF CopyInv, HistoryInv, HeldArePending
<1>6. SameNew
  <2>1. FateAfter(q.id, x.ans) # "new"
    BY <1>5 DEF FateAfter
  <2> QED BY <1>2, <1>4, <1>5, <2>1 DEF SameNew
<1>7. CASE RetriedNow(x.ans) \/ RetriedLater(x.ans)
  BY <1>1, <1>2, <1>6, <1>7, CarryLive DEF Promised, Idle
<1>8. CASE ~RetriedNow(x.ans) /\ ~RetriedLater(x.ans)
  <2>1. EndsLive(q.id)
    BY <1>1, <1>8, <1>k, DropLive
  <2> QED BY <1>2, <1>6, <2>1 DEF Promised, Leaves
<1> QED BY <1>7, <1>8

LEMMA SenderAnswerPromised ==
  ASSUME TypeOK, CopyInv, NEW w \in Workers, NEW s \in Senders,
         NEW a \in Answers, NEW taken \in BOOLEAN, SenderAnswer(w, s, a, taken)
  PROVE  Promised
<1>1. PICK r : r = sender[w][s].req
  OBVIOUS
<1>2. /\ r \in Held["sending"]
      /\ \/ Carried("sending", "respq", r, r) /\ fate' = fate
         \/ Dropped("sending", r) /\ fate' = Settle({r.id}, "dropped")
         \/ Dropped("sending", r) /\ fate' = fate
  BY <1>1, SenderAnswerPlaces DEF CopyInv, Settled, Crashed
<1>k. /\ "sending" \in Kinds /\ "sending" # "backoff" /\ "sending" \notin AnsweredKinds
      /\ "dropped" \in Final
  BY DEF Kinds, AnsweredKinds, Final
<1>3. r.id \in Notifs
  BY <1>2, <1>k, HeldAreReal DEF CopyInv, PlacesInv
<1>4. wire' = [wire EXCEPT ![r.id] = Sent(wire[r.id], a, taken)]
  BY <1>1 DEF SenderAnswer
<1>5. wire[r.id].sends <= SendRetryCount
  <2>1. wire[r.id].sends = r.tries
    BY <1>2, <1>3, <1>k DEF CopyInv, HistoryInv, TriesAgree
  <2>2. r \in Request
    BY <1>1 DEF TypeOK, TypeGoroutines
  <2>3. r.tries <= SendRetryCount
    BY <2>2, SizesInNat DEF Request
  <2> QED BY <2>1, <2>3
<1>6. SameNew
  BY <1>2, <1>k, GoneNew
<1>7. KeepsLive \/ EndsLive(r.id)
  BY <1>2, <1>k, CarryLive, DropLive
<1>8. HeldFor(r.id)
  BY <1>2, <1>k DEF HeldFor
<1>9. Attempts(r.id)
  BY <1>3, <1>4, <1>5, <1>6, <1>7, <1>8 DEF Attempts
<1> QED BY <1>9 DEF Promised

LEMMA StepPromised ==
  ASSUME TypeOK, ClosingInv, CopyInv, [Next]_vars
  PROVE  Promised
<1>1. ASSUME Elsewhere PROVE Promised
  BY <1>1, ElsewherePlaces, StayIdle DEF CopyInv
<1>2. ASSUME NEW w \in Workers, WorkerStep(w) PROVE Promised
  <2>1. CASE RecvRequests(w)
    <3>1. Moves("queue", "batch", Elems(Head(queue)), Elems(Head(queue)))
      BY <2>1, RecvRequestsPlaces DEF CopyInv
    <3>2. KeepsLive
      BY <3>1, MoveLive
    <3> QED BY <2>1, <3>2 DEF RecvRequests, history, Promised, Idle, SameNew
  <2>2. CASE Distribute(w)
    BY <2>2, DistributePlaces, CarryLive
       DEF CopyInv, Distribute, history, Promised, Idle, SameNew
  <2>3. CASE RecvResponse(w)
    BY <2>3, RecvResponsePromised
  <2>4. CASE WorkerRetry(w)
    BY <2>4, WorkerRetryPlaces, ResentPromised DEF CopyInv, WorkerRetry
  <2>5. CASE WorkerHook(w) \/ WorkerExit(w) \/ WorkerJoin(w)
    BY <1>1, <2>5 DEF Elsewhere
  <2> QED BY <1>2, <2>1, <2>2, <2>3, <2>4, <2>5 DEF WorkerStep
<1>3. ASSUME NEW w \in Workers, NEW s \in Senders, SenderStep(w, s) PROVE Promised
  <2>1. CASE SenderTake(w, s)
    BY <2>1, SenderTakePlaces, CarryLive
       DEF CopyInv, SenderTake, history, Promised, Idle, SameNew
  <2>2. CASE SenderGone(w, s)
    BY <1>1, <2>2 DEF Elsewhere
  <2> QED BY <1>3, <2>1, <2>2, SenderAnswerPromised DEF SenderStep
<1>4. CASE TickerStep
  <2>1. CASE TickerSweep
    <3>1. UNCHANGED <<fate, wire>>
      BY <2>1 DEF TickerSweep, history
    <3>2. CASE Stays
      BY <3>1, <3>2, StayIdle
    <3>3. CASE \E r \in Held["retryq"] : Carried("retryq", "backoff", r, r)
      BY <3>1, <3>3, CarryLive DEF Promised, Idle, SameNew
    <3>4. CASE /\ Held'["backoff"] = Held["backoff"] \cup {NoReq}
               /\ \A k \in Kinds \ {"backoff"} : Held'[k] = Held[k]
      <4>1. /\ \A k \in Kinds : \A r \in Held'[k] : r \in Held[k] \/ r.id \notin Notifs
            /\ \A k \in Kinds : Held[k] \subseteq Held'[k]
        <5>1. NoReq.id \notin Notifs
          BY NotifsAssumption DEF NoReq
        <5> QED BY <3>4, <5>1
      <4>2. KeepsLive
        BY <4>1 DEF KeepsLive, HeldFor, HeldForNext
      <4> QED BY <3>1, <4>2 DEF Promised, Idle, SameNew
    <3> QED BY <2>1, <3>2, <3>3, <3>4, TickerSweepPlaces DEF CopyInv
  <2>2. CASE TickerTick \/ TickerStop
    BY <1>1, <2>2 DEF Elsewhere
  <2> QED BY <1>4, <2>1, <2>2 DEF TickerStep
<1>5. ASSUME NEW r \in backoff, BackoffFire(r) PROVE Promised
  <2>1. /\ r \in Held["backoff"] /\ wire' = wire /\ "backoff" \in Kinds /\ "dropped" \in Final
    BY <1>5, BackoffFirePlaces DEF CopyInv, BackoffFire, Kinds, Final
  <2>2. CASE Carried("backoff", "queue", r, r) /\ fate' = fate
    BY <2>1, <2>2, CarryLive DEF Promised, Idle, SameNew
  <2>3. CASE Settled("backoff", r, "dropped") \/ Crashed("backoff", r)
    <3>1. Leaves(r.id)
      BY <2>1, <2>3, DropsOut
    <3> QED BY <3>1 DEF Promised
  <2> QED BY <1>5, <2>2, <2>3, BackoffFirePlaces DEF CopyInv
<1>6. ASSUME NEW r \in quota, QuotaFire(r) PROVE Promised
  BY <1>6, QuotaFirePlaces, ResentPromised DEF CopyInv, QuotaFire
<1>7. CASE (\E w \in Workers : HookStep(w)) \/ ShutdownBegin \/ ShutdownStep \/ UNCHANGED vars
  BY <1>1, <1>7 DEF Elsewhere
<1> QED BY <1>2, <1>3, <1>4, <1>5, <1>6, <1>7, EnqueuePromised DEF Next, TimerStep, Terminated

(* The refinement mapping calls a notification live while it has a place.   *)
PlacesAgree == TypeOK => \A n \in Notifs : Places(n) # {} <=> HeldFor(n)

LEMMA PlacesAgreeNext == PlacesAgree'
<1>1. PlacesAgree
  BY PlacesHeld DEF PlacesAgree
<1> QED BY <1>1, PTL

LEMMA PromisedMaps ==
  ASSUME TypeOK, TypeOK', Promised
  PROVE  [Promise!Next]_(Promise!abstractVars)
<1> DEFINE accepted == {n \in Notifs : fate[n] # "new"}
           live == {n \in Notifs : Places(n) # {}}
           sends == [n \in Notifs |-> wire[n].sends]
           taken == [n \in Notifs |-> wire[n].taken]
<1>1. /\ \A n : n \in accepted <=> n \in Notifs /\ fate[n] # "new"
      /\ \A n : n \in accepted' <=> n \in Notifs /\ fate'[n] # "new"
  OBVIOUS
<1>2. /\ \A n : n \in live <=> n \in Notifs /\ HeldFor(n)
      /\ \A n : n \in live' <=> n \in Notifs /\ HeldForNext(n)
  <2>1. \A n \in Notifs : Places(n) # {} <=> HeldFor(n)
    BY PlacesHeld
  <2>2. \A n \in Notifs : Places(n)' # {} <=> HeldForNext(n)
    BY PlacesAgreeNext DEF PlacesAgree, HeldFor, HeldForNext
  <2> QED BY <2>1, <2>2
<1>3. wire' = wire => sends' = sends /\ taken' = taken
  OBVIOUS
<1>4. CASE Idle
  <2>1. accepted' = accepted /\ live' = live /\ sends' = sends /\ taken' = taken
    BY <1>1, <1>2, <1>3, <1>4 DEF Idle, SameNew, KeepsLive
  <2> QED BY <2>1 DEF Promise!abstractVars
<1>5. ASSUME NEW m, Leaves(m) PROVE [Promise!Next]_(Promise!abstractVars)
  <2>1. accepted' = accepted /\ sends' = sends /\ taken' = taken /\ live' = live \ {m}
    BY <1>1, <1>2, <1>3, <1>5 DEF Leaves, SameNew, EndsLive
  <2>2. CASE m \in Notifs
    <3>1. m \in live
      BY <1>2, <1>5, <2>2 DEF Leaves, EndsLive
    <3>2. Promise!Leave(m)
      BY <2>1, <3>1 DEF Promise!Leave
    <3> QED BY <2>2, <3>2 DEF Promise!Next
  <2>3. CASE m \notin Notifs
    <3>1. live' = live
      BY <1>2, <2>1, <2>3
    <3> QED BY <2>1, <3>1 DEF Promise!abstractVars
  <2> QED BY <2>2, <2>3
<1>6. ASSUME NEW m, Attempts(m) PROVE [Promise!Next]_(Promise!abstractVars)
  <2>1. accepted' = accepted /\ m \in Notifs /\ m \in live
    BY <1>1, <1>2, <1>6 DEF Attempts, SameNew
  <2>2. live' \in {live, live \ {m}}
    <3>1. CASE KeepsLive
      <4>1. live' = live
        BY <1>2, <3>1 DEF KeepsLive
      <4> QED BY <4>1
    <3>2. CASE EndsLive(m)
      <4>1. live' = live \ {m}
        BY <1>2, <3>2 DEF EndsLive
      <4> QED BY <4>1
    <3> QED BY <1>6, <3>1, <3>2 DEF Attempts
  <2>3. PICK a \in Answers, t \in BOOLEAN : wire' = [wire EXCEPT ![m] = Sent(wire[m], a, t)]
    BY <1>6 DEF Attempts
  <2>4. /\ wire \in [Notifs -> [sends : Nat, taken : Nat, unheard : Nat]]
        /\ wire[m].sends <= SendRetryCount /\ wire[m].sends \in Nat
        /\ SendRetryCount \in Nat
    BY <1>6, <2>1, SizesInNat DEF Attempts, TypeOK, TypeHistory
  <2>5. /\ wire'[m].sends = wire[m].sends + 1
        /\ wire'[m].taken = IF t THEN wire[m].taken + 1 ELSE wire[m].taken
        /\ \A n \in Notifs \ {m} : wire'[n] = wire[n]
    BY <2>1, <2>3, <2>4 DEF Sent
  <2>6. sends[m] < SendRetryCount + 1
    BY <2>1, <2>4
  <2>7. sends' = [sends EXCEPT ![m] = sends[m] + 1]
    BY <2>1, <2>5
  <2>8. taken' \in {taken, [taken EXCEPT ![m] = taken[m] + 1]}
    <3>1. CASE t
      <4>1. taken' = [taken EXCEPT ![m] = taken[m] + 1]
        BY <2>1, <2>5, <3>1
      <4> QED BY <4>1
    <3>2. CASE ~t
      <4>1. taken' = taken
        BY <2>1, <2>5, <3>2
      <4> QED BY <4>1
    <3> QED BY <3>1, <3>2
  <2> HIDE DEF accepted, live, sends, taken
  <2>9. /\ m \in live /\ sends[m] < SendRetryCount + 1
        /\ sends' = [sends EXCEPT ![m] = sends[m] + 1]
        /\ taken' \in {taken, [taken EXCEPT ![m] = taken[m] + 1]}
        /\ live' \in {live, live \ {m}} /\ accepted' = accepted
    BY <2>1, <2>2, <2>6, <2>7, <2>8
  <2> USE DEF accepted, live, sends, taken
  <2>10. Promise!Attempt(m)
    BY <2>9 DEF Promise!Attempt
  <2> QED BY <2>1, <2>10 DEF Promise!Next
<1>7. ASSUME NEW ns, Accepts(ns) PROVE [Promise!Next]_(Promise!abstractVars)
  <2>1. sends' = sends /\ taken' = taken
    BY <1>3, <1>7 DEF Accepts
  <2>2. ns \cap accepted = {} /\ accepted' = accepted \cup ns
    BY <1>1, <1>7 DEF Accepts
  <2>3. live' = live \cup ns
    BY <1>2, <1>7 DEF Accepts
  <2>4. Promise!Accept(ns)
    BY <2>1, <2>2, <2>3 DEF Promise!Accept
  <2>5. ns \in SUBSET Notifs
    BY <1>7 DEF Accepts
  <2> QED BY <2>4, <2>5 DEF Promise!Next
<1> QED BY <1>4, <1>5, <1>6, <1>7 DEF Promised

LEMMA PromiseInit == Init => Promise!Init
<1> SUFFICES ASSUME Init PROVE Promise!Init
  OBVIOUS
<1>1. /\ fate = [n \in Notifs |-> "new"]
      /\ wire = [n \in Notifs |-> [sends |-> 0, taken |-> 0, unheard |-> 0]]
  BY DEF Init
<1>2. \A n \in Notifs : ~HeldFor(n)
  BY <1>1, InitCopies DEF CopyInv, HistoryInv, HeldArePending, HeldFor
<1>3. {n \in Notifs : Places(n) # {}} = {}
  BY <1>2, InitType, PlacesHeld
<1>4. {n \in Notifs : fate[n] # "new"} = {}
  BY <1>1
<1>5. /\ [n \in Notifs |-> wire[n].sends] = [n \in Notifs |-> 0]
      /\ [n \in Notifs |-> wire[n].taken] = [n \in Notifs |-> 0]
  BY <1>1
<1> QED BY <1>3, <1>4, <1>5 DEF Promise!Init

(* Whatever queues, goroutines and timers carry a notification, the         *)
(* pipeline does what Delivery promises: every step is a step of it, or     *)
(* changes nothing that Delivery speaks of.                                 *)
THEOREM PipelineDelivers == Spec => ImplementsDelivery
<1>1. TypeOK /\ TypeOK' /\ ClosingInv /\ CopyInv /\ [Next]_vars
        => [Promise!Next]_(Promise!abstractVars)
  BY StepPromised, PromisedMaps
<1> QED BY <1>1, PromiseInit, TypeCorrect, ClosesInOrder, OneCopyEach, PTL
        DEF Spec, ImplementsDelivery, Promise!Spec
=============================================================================
