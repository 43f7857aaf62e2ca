------------------------ MODULE ProcessOutput_proofs ------------------------
(***************************************************************************)
(* OutputAccounting, SelectionIsExact, NothingSkipped and NoLostWakeup for *)
(* every number of sessions, events and units per event, every chunk and   *)
(* page size and all limits that OutputAssumption admits.                  *)
(*                                                                         *)
(* The first part is about operators: sums and selections of sequences (by *)
(* induction over positions), the indexed buffer (BufferOK: its live       *)
(* chunks are numbered from base to next), the page that selectAfter()     *)
(* answers, and the loop that trims to the total budget (StoreOK). The     *)
(* second part is the inductive invariant IInv and one lemma per action.   *)
(***************************************************************************)
EXTENDS ProcessOutput, FiniteSetTheorems, SequenceTheorems, WellFoundedInduction, TLAPS

-----------------------------------------------------------------------------
(* Induction over numbers and finite sets, with the predicate as a set.     *)

LEMMA LeastOf ==
  ASSUME NEW T \in SUBSET Nat, T # {}
  PROVE  \E m \in T : \A k \in T : ~(k < m)
<1>1. PICK m \in T : \A k \in T : <<k, m>> \notin OpToRel(<, Nat)
  BY WFMin, NatLessThanWellFounded, Zenon
<1>2. \A k \in T : ~(k < m)
  BY <1>1, Zenon DEF OpToRel
<1> QED BY <1>2, Zenon

LEMMA NatSetInduction ==
  ASSUME NEW S, 0 \in S, \A n \in Nat : n \in S => n + 1 \in S
  PROVE  Nat \subseteq S
<1> SUFFICES ASSUME Nat \ S # {} PROVE FALSE
  OBVIOUS
<1>1. PICK m \in Nat \ S : \A k \in Nat \ S : ~(k < m)
  BY LeastOf
<1>2. m - 1 \in Nat
  OBVIOUS
<1>3. m - 1 \in S
  BY <1>1, <1>2
<1>4. (m - 1) + 1 = m
  OBVIOUS
<1> QED BY <1>2, <1>3, <1>4

\* What holds of 0 and from each number to the next up to n.
LEMMA IntervalInduction ==
  ASSUME NEW n \in Nat, NEW S, 0 \in S, \A i \in 1..n : i - 1 \in S => i \in S
  PROVE  0..n \subseteq S
<1> DEFINE T == S \cup {i \in Nat : i > n}
<1>1. \A i \in Nat : i \in T => i + 1 \in T
  <2> SUFFICES ASSUME NEW i \in Nat, i \in T PROVE i + 1 \in T
    OBVIOUS
  <2>1. CASE i + 1 > n
    BY <2>1
  <2>2. CASE i + 1 <= n
    BY <2>2
  <2> QED BY <2>1, <2>2
<1>2. Nat \subseteq T
  <2> HIDE DEF T
  <2>1. 0 \in T
    BY DEF T
  <2> QED BY <1>1, <2>1, NatSetInduction
<1> QED BY <1>2

\* What holds of the empty set and from each subset to one with an element more.
LEMMA SubsetInduction ==
  ASSUME NEW S, IsFiniteSet(S), NEW F, {} \in F,
         \A T \in SUBSET S : \A x \in S \ T : T \in F => T \cup {x} \in F
  PROVE  SUBSET S \subseteq F
<1> DEFINE N == {n \in Nat : \A T \in SUBSET S : Cardinality(T) = n => T \in F}
<1>1. \A T \in SUBSET S : IsFiniteSet(T) /\ Cardinality(T) \in Nat
  BY FS_Subset, FS_CardinalityType
<1>2. 0 \in N
  BY <1>1, FS_EmptySet
<1>3. \A n \in Nat : n \in N => n + 1 \in N
  <2> SUFFICES ASSUME NEW n \in Nat, n \in N, NEW T \in SUBSET S, Cardinality(T) = n + 1
               PROVE  T \in F
    OBVIOUS
  <2>1. PICK x : x \in T
    BY <1>1, FS_EmptySet
  <2>2. Cardinality(T \ {x}) = n
    BY <1>1, <2>1, FS_RemoveElement
  <2>3. T \ {x} \in F
    BY <2>2
  <2>4. T = (T \ {x}) \cup {x} /\ T \ {x} \in SUBSET S /\ x \in S \ (T \ {x})
    BY <2>1
  <2> HIDE DEF N
  <2> QED BY <2>3, <2>4
<1>4. Nat \subseteq N
  <2> HIDE DEF N
  <2> QED BY <1>2, <1>3, NatSetInduction
<1> QED BY <1>1, <1>4

-----------------------------------------------------------------------------
(* Functions defined from each position to the next.                        *)

LEMMA SumExists ==
  ASSUME NEW c, NEW n \in Nat
  PROVE  \E f : f = [i \in 0..n |-> IF i = 0 THEN 0 ELSE f[i - 1] + c[i].size]
<1> DEFINE S == {k \in Nat : \E f : f = [i \in 0..k |-> IF i = 0 THEN 0 ELSE f[i - 1] + c[i].size]}
<1>1. 0 \in S
  <2> DEFINE f == [i \in 0..0 |-> 0]
  <2>1. f = [i \in 0..0 |-> IF i = 0 THEN 0 ELSE f[i - 1] + c[i].size]
    OBVIOUS
  <2> QED BY <2>1
<1>2. \A k \in Nat : k \in S => k + 1 \in S
  <2> SUFFICES ASSUME NEW k \in Nat, k \in S PROVE k + 1 \in S
    OBVIOUS
  <2>1. PICK f : f = [i \in 0..k |-> IF i = 0 THEN 0 ELSE f[i - 1] + c[i].size]
    OBVIOUS
  <2> DEFINE g == [i \in 0..(k + 1) |-> IF i <= k THEN f[i] ELSE f[k] + c[k + 1].size]
  <2>2. \A i \in 0..(k + 1) : g[i] = IF i = 0 THEN 0 ELSE g[i - 1] + c[i].size
    <3> SUFFICES ASSUME NEW i \in 0..(k + 1) PROVE g[i] = IF i = 0 THEN 0 ELSE g[i - 1] + c[i].size
      OBVIOUS
    <3>1. CASE i = 0
      BY <2>1, <3>1
    <3>2. CASE i \in 1..k
      <4>1. g[i] = f[i] /\ g[i - 1] = f[i - 1] /\ i # 0
        BY <3>2
      <4>2. f[i] = f[i - 1] + c[i].size
        BY <2>1, <3>2
      <4> QED BY <4>1, <4>2
    <3>3. CASE i = k + 1
      <4>1. g[i] = f[k] + c[k + 1].size /\ g[i - 1] = f[k] /\ i # 0
        BY <3>3
      <4> QED BY <3>3, <4>1
    <3> QED BY <3>1, <3>2, <3>3
  <2>3. g = [i \in 0..(k + 1) |-> IF i = 0 THEN 0 ELSE g[i - 1] + c[i].size]
    BY <2>2
  <2>4. \E h : h = [i \in 0..(k + 1) |-> IF i = 0 THEN 0 ELSE h[i - 1] + c[i].size]
    <3> HIDE DEF g
    <3> QED BY <2>3, Zenon
  <2> QED BY <2>4
<1>3. Nat \subseteq S
  <2> HIDE DEF S
  <2> QED BY <1>1, <1>2, NatSetInduction
<1> QED BY <1>3

Chunks == [seq : Nat, size : 1..ChunkSize]

LEMMA ChunkFields ==
  ASSUME NEW c \in Seq(Chunks), NEW i \in 1..Len(c)
  PROVE  /\ c[i] \in Chunks /\ c[i].seq \in Nat
         /\ c[i].size \in Nat /\ c[i].size >= 1 /\ c[i].size <= ChunkSize
<1>1. c[i] \in Chunks
  BY ElementOfSeq
<1>2. ChunkSize \in Nat
  BY OutputAssumption
<1> QED BY <1>1, <1>2 DEF Chunks

\* f[i] is the size of the first i chunks of c.
Sums(f, c) ==
  /\ f \in [0..Len(c) -> Nat] /\ f[0] = 0
  /\ \A i \in 1..Len(c) : f[i] = f[i - 1] + c[i].size

LEMMA SizeIsSum ==
  ASSUME NEW c \in Seq(Chunks)
  PROVE  \E f : Sums(f, c) /\ SizeOf(c) = f[Len(c)]
<1> DEFINE n == Len(c)
           f == CHOOSE h : h = [i \in 0..n |-> IF i = 0 THEN 0 ELSE h[i - 1] + c[i].size]
<1>1. n \in Nat
  OBVIOUS
<1>2. f = [i \in 0..n |-> IF i = 0 THEN 0 ELSE f[i - 1] + c[i].size]
  <2> HIDE DEF n
  <2> QED BY <1>1, SumExists, Zenon
<1>3. SizeOf(c) = f[n]
  BY DEF SizeOf
<1> HIDE DEF f, n
<1>4. /\ f[0] = 0 /\ DOMAIN f = 0..n
      /\ \A i \in 1..n : f[i] = f[i - 1] + c[i].size
  BY <1>1, <1>2
<1>5. \A i \in 1..n : c[i].size \in Nat
  BY ChunkFields DEF n
<1>6. 0..n \subseteq {i \in 0..n : f[i] \in Nat}
  <2> DEFINE S == {i \in 0..n : f[i] \in Nat}
  <2>1. 0 \in S
    BY <1>1, <1>4
  <2>2. \A i \in 1..n : i - 1 \in S => i \in S
    <3> SUFFICES ASSUME NEW i \in 1..n, f[i - 1] \in Nat PROVE f[i] \in Nat
      BY <1>1
    <3>1. f[i] = f[i - 1] + c[i].size /\ c[i].size \in Nat
      BY <1>4, <1>5
    <3> QED BY <3>1
  <2> HIDE DEF S
  <2>3. 0..n \subseteq S
    BY <1>1, <2>1, <2>2, IntervalInduction
  <2> QED BY <2>3 DEF S
<1>7. f \in [0..n -> Nat]
  <2>1. f = [i \in 0..n |-> f[i]]
    BY <1>2, Zenon
  <2> QED BY <1>6, <2>1
<1> QED BY <1>3, <1>4, <1>7 DEF Sums, n

LEMMA SumsAgree ==
  ASSUME NEW c, NEW d, NEW n \in Nat, n <= Len(c), n <= Len(d), Len(c) \in Nat, Len(d) \in Nat,
         \A i \in 1..n : c[i].size = d[i].size,
         NEW f, NEW g, Sums(f, c), Sums(g, d)
  PROVE  f[n] = g[n]
<1> DEFINE S == {i \in 0..n : f[i] = g[i]}
<1>1. 0 \in S
  BY DEF Sums
<1>2. \A i \in 1..n : i - 1 \in S => i \in S
  BY DEF Sums
<1> HIDE DEF S
<1>3. 0..n \subseteq S
  BY <1>1, <1>2, IntervalInduction
<1> QED BY <1>3 DEF S

\* SizeOf is the last of any such sums.
LEMMA SizeOfSums ==
  ASSUME NEW c \in Seq(Chunks), NEW f, Sums(f, c)
  PROVE  SizeOf(c) = f[Len(c)]
<1>1. PICK g : Sums(g, c) /\ SizeOf(c) = g[Len(c)]
  BY SizeIsSum
<1>2. Len(c) \in Nat /\ Len(c) <= Len(c)
  OBVIOUS
<1>3. f[Len(c)] = g[Len(c)]
  BY <1>1, <1>2, SumsAgree
<1> QED BY <1>1, <1>3

LEMMA SizeType ==
  ASSUME NEW c \in Seq(Chunks)
  PROVE  SizeOf(c) \in Nat
<1>1. PICK g : Sums(g, c) /\ SizeOf(c) = g[Len(c)]
  BY SizeIsSum
<1> QED BY <1>1 DEF Sums

LEMMA SizeOfConcat ==
  ASSUME NEW c \in Seq(Chunks), NEW d \in Seq(Chunks)
  PROVE  SizeOf(c \o d) = SizeOf(c) + SizeOf(d)
<1> DEFINE e == c \o d
           m == Len(c)
           n == Len(d)
<1>1. /\ e \in Seq(Chunks) /\ Len(e) = m + n /\ m \in Nat /\ n \in Nat
      /\ \A i \in 1..(m + n) : e[i] = IF i <= m THEN c[i] ELSE d[i - m]
  BY ConcatProperties
<1> HIDE DEF e
<1>2. PICK f : Sums(f, e) /\ SizeOf(e) = f[m + n]
  BY <1>1, SizeIsSum
<1>3. PICK g : Sums(g, c) /\ SizeOf(c) = g[m]
  BY SizeIsSum
<1>4. PICK h : Sums(h, d) /\ SizeOf(d) = h[n]
  BY SizeIsSum
<1>5. f[m] = g[m]
  <2>1. \A i \in 1..m : e[i].size = c[i].size
    BY <1>1
  <2>2. m <= Len(e) /\ m <= Len(c) /\ Len(e) \in Nat /\ Len(c) \in Nat
    BY <1>1
  <2>3. Sums(f, e) /\ Sums(g, c) /\ m \in Nat
    BY <1>1, <1>2, <1>3
  <2> HIDE DEF m
  <2> QED BY <2>1, <2>2, <2>3, SumsAgree
<1> DEFINE S == {i \in 0..n : f[m + i] = f[m] + h[i]}
<1>6. 0 \in S
  <2>1. f[m] \in Nat /\ h[0] = 0 /\ m + 0 = m /\ 0 \in 0..n
    BY <1>1, <1>2, <1>4 DEF Sums
  <2> QED BY <2>1
<1>7. \A i \in 1..n : i - 1 \in S => i \in S
  <2> SUFFICES ASSUME NEW i \in 1..n, i - 1 \in S PROVE i \in S
    OBVIOUS
  <2>1. f[m + (i - 1)] = f[m] + h[i - 1]
    OBVIOUS
  <2>2. m + i \in 1..(m + n) /\ (m + i) - 1 = m + (i - 1)
    BY <1>1
  <2>3. f[m + i] = f[m + (i - 1)] + d[i].size
    <3>1. e[m + i] = d[i]
      BY <1>1, <2>2
    <3> QED BY <1>1, <1>2, <2>2, <3>1 DEF Sums
  <2>4. h[i] = h[i - 1] + d[i].size
    BY <1>4 DEF Sums
  <2>5. f[m] \in Nat /\ h[i - 1] \in Nat /\ d[i].size \in Nat
    <3>1. m \in 0..Len(e) /\ i - 1 \in 0..n
      BY <1>1
    <3>2. f[m] \in Nat
      BY <1>2, <3>1 DEF Sums
    <3>3. h[i - 1] \in Nat
      BY <1>4, <3>1 DEF Sums
    <3>4. d[i].size \in Nat
      BY ChunkFields
    <3> QED BY <3>2, <3>3, <3>4
  <2> QED BY <2>1, <2>3, <2>4, <2>5
<1> HIDE DEF S
<1>8. 0..n \subseteq S
  BY <1>1, <1>6, <1>7, IntervalInduction
<1>9. f[m + n] = f[m] + h[n]
  <2>1. n \in S
    BY <1>1, <1>8
  <2> QED BY <2>1 DEF S
<1> QED BY <1>2, <1>3, <1>4, <1>5, <1>9 DEF e

LEMMA SizeOfEmpty == SizeOf(<<>>) = 0
<1>1. PICK f : Sums(f, <<>>) /\ SizeOf(<<>>) = f[Len(<<>>)]
  BY SizeIsSum, EmptySeq
<1> QED BY <1>1 DEF Sums

LEMMA SizeOfFirst ==
  ASSUME NEW c \in Seq(Chunks), Len(c) = 1
  PROVE  SizeOf(c) = c[1].size
<1>1. PICK f : Sums(f, c) /\ SizeOf(c) = f[1]
  BY SizeIsSum
<1>2. f[0] = 0 /\ f[1] = f[1 - 1] + c[1].size /\ c[1].size \in Nat
  BY <1>1, ChunkFields DEF Sums
<1> QED BY <1>1, <1>2

\* A sequence of chunks in two parts.
LEMMA SizeOfParts ==
  ASSUME NEW c \in Seq(Chunks), NEW k \in 0..Len(c)
  PROVE  /\ SubSeq(c, 1, k) \in Seq(Chunks) /\ SubSeq(c, k + 1, Len(c)) \in Seq(Chunks)
         /\ SizeOf(c) = SizeOf(SubSeq(c, 1, k)) + SizeOf(SubSeq(c, k + 1, Len(c)))
<1>1. SubSeq(c, 1, k) \in Seq(Chunks) /\ SubSeq(c, k + 1, Len(c)) \in Seq(Chunks)
  BY SubSeqProperties
<1>2. SubSeq(c, 1, k) \o SubSeq(c, k + 1, Len(c)) = c
  <2>1. 1 \in 1..(Len(c) + 1) /\ k \in (1 - 1)..Len(c) /\ Len(c) \in k..Len(c)
    OBVIOUS
  <2>2. SubSeq(c, 1, k) \o SubSeq(c, k + 1, Len(c)) = SubSeq(c, 1, Len(c))
    BY <2>1, ConcatAdjacentSubSeq
  <2> QED BY <2>2, SubSeqFull
<1> QED BY <1>1, <1>2, SizeOfConcat

\* Every chunk has a size.
LEMMA SizeOfSome ==
  ASSUME NEW c \in Seq(Chunks)
  PROVE  SizeOf(c) = 0 <=> c = <<>>
<1>1. CASE c = <<>>
  BY <1>1, SizeOfEmpty
<1>2. CASE c # <<>>
  <2>1. Len(c) \in Nat /\ Len(c) >= 1 /\ c[1].size >= 1 /\ c[1].size \in Nat
    <3>1. Len(c) \in Nat /\ Len(c) >= 1
      BY <1>2, EmptySeq
    <3> QED BY <3>1, ChunkFields
  <2> DEFINE d == SubSeq(c, 1, 1)
  <2>2. Len(d) = 1 /\ d[1] = c[1] /\ d \in Seq(Chunks)
    BY <2>1, SubSeqProperties
  <2>3. SizeOf(c) = SizeOf(d) + SizeOf(SubSeq(c, 1 + 1, Len(c))) /\ SubSeq(c, 1 + 1, Len(c)) \in Seq(Chunks)
    BY <2>1, SizeOfParts
  <2>4. SizeOf(d) = c[1].size
    BY <2>2, SizeOfFirst
  <2>5. SizeOf(SubSeq(c, 1 + 1, Len(c))) \in Nat
    BY <2>3, SizeType
  <2> QED BY <1>2, <2>1, <2>3, <2>4, <2>5
<1> QED BY <1>1, <1>2

-----------------------------------------------------------------------------
(* What sessions retain together.                                           *)

AddedTo(w, h, T) == IF T = {} THEN 0
                    ELSE LET x == CHOOSE x \in T : TRUE IN w[x] + h[T \ {x}]

LEMMA TotalExists ==
  ASSUME NEW w, NEW S, IsFiniteSet(S)
  PROVE  \E h : h = [T \in SUBSET S |-> AddedTo(w, h, T)]
<1> USE DEF AddedTo
<1> DEFINE Some(T) == CHOOSE x \in T : TRUE
           Small(k) == {T \in SUBSET S : Cardinality(T) <= k}
           Step(h, T) == IF T = {} THEN 0 ELSE w[Some(T)] + h[T \ {Some(T)}]
           N == {k \in Nat : \E h : \A T \in Small(k) : h[T] = Step(h, T)}
<1>1. \A T \in SUBSET S : IsFiniteSet(T) /\ Cardinality(T) \in Nat /\ Cardinality(T) <= Cardinality(S)
  BY FS_Subset, FS_CardinalityType
<1>2. \A T \in SUBSET S : T # {} => Some(T) \in T /\ Cardinality(T \ {Some(T)}) = Cardinality(T) - 1
  BY <1>1, FS_RemoveElement
<1>3. \A T \in SUBSET S : Cardinality(T) = 0 <=> T = {}
  BY <1>1, FS_EmptySet
<1>4. 0 \in N
  <2> DEFINE h == [T \in SUBSET S |-> 0]
  <2>1. \A T \in Small(0) : T = {}
    BY <1>1, <1>3
  <2>2. \A T \in Small(0) : h[T] = Step(h, T)
    BY <2>1
  <2> HIDE DEF h, Small, Step
  <2> QED BY <2>2
<1>5. \A k \in Nat : k \in N => k + 1 \in N
  <2> SUFFICES ASSUME NEW k \in Nat, k \in N PROVE k + 1 \in N
    OBVIOUS
  <2>1. PICK h : \A T \in Small(k) : h[T] = Step(h, T)
    OBVIOUS
  <2> DEFINE g == [T \in SUBSET S |-> IF Cardinality(T) <= k THEN h[T] ELSE w[Some(T)] + h[T \ {Some(T)}]]
  <2>2. \A T \in Small(k + 1) : g[T] = Step(g, T)
    <3> SUFFICES ASSUME NEW T \in Small(k + 1) PROVE g[T] = Step(g, T)
      OBVIOUS
    <3>1. CASE T = {}
      <4>1. T \in Small(k) /\ Cardinality(T) <= k
        BY <1>1, <1>3, <3>1
      <4>2. g[T] = h[T]
        BY <4>1
      <4> QED BY <2>1, <3>1, <4>1, <4>2
    <3>2. CASE T # {}
      <4> DEFINE U == T \ {Some(T)}
      <4>1. U \in SUBSET S /\ Cardinality(U) <= k /\ U \in Small(k)
        BY <1>1, <1>2, <3>2
      <4>2. g[U] = h[U]
        BY <4>1
      <4>3. g[T] = w[Some(T)] + h[U]
        <5>1. CASE Cardinality(T) <= k
          <6>1. T \in Small(k) /\ g[T] = h[T]
            BY <5>1
          <6>2. h[T] = Step(h, T)
            BY <2>1, <6>1
          <6> QED BY <3>2, <6>1, <6>2
        <5>2. CASE ~(Cardinality(T) <= k)
          BY <5>2
        <5> QED BY <5>1, <5>2
      <4> QED BY <3>2, <4>2, <4>3
    <3> QED BY <3>1, <3>2
  <2> HIDE DEF g, Small, Step
  <2> QED BY <2>2
<1>6. Cardinality(S) \in N
  <2>1. Nat \subseteq N
    <3> HIDE DEF N
    <3> QED BY <1>4, <1>5, NatSetInduction
  <2> QED BY <2>1, FS_CardinalityType
<1>7. PICK h : \A T \in Small(Cardinality(S)) : h[T] = Step(h, T)
  BY <1>6
<1> DEFINE g == [T \in SUBSET S |-> h[T]]
<1>8. \A T \in SUBSET S : g[T] = Step(g, T)
  <2> SUFFICES ASSUME NEW T \in SUBSET S PROVE g[T] = Step(g, T)
    OBVIOUS
  <2>1. h[T] = Step(h, T)
    BY <1>1, <1>7
  <2>2. T # {} => g[T \ {Some(T)}] = h[T \ {Some(T)}]
    OBVIOUS
  <2> QED BY <2>1, <2>2
<1>9. g = [T \in SUBSET S |-> Step(g, T)]
  <2> HIDE DEF Step
  <2> QED BY <1>8
<1>10. g = [T \in SUBSET S |-> AddedTo(w, g, T)]
  <2> HIDE DEF g
  <2> QED BY <1>9, Zenon
<1> HIDE DEF g, AddedTo
<1> QED BY <1>10, Zenon

\* h adds up what the subsets of S retain.
AddsUp(h, st, S) ==
  /\ h[{}] = 0
  /\ \A T \in SUBSET S : T # {} => \E x \in T : h[T] = st.buffer[x].retained + h[T \ {x}]

LEMMA RetainedSums ==
  ASSUME NEW st, NEW S, IsFiniteSet(S)
  PROVE  \E h : AddsUp(h, st, S) /\ RetainedBy(st, S) = h[S]
<1> DEFINE w == [s \in S |-> st.buffer[s].retained]
           h == CHOOSE h : h = [T \in SUBSET S |-> AddedTo(w, h, T)]
<1>1. h = [T \in SUBSET S |-> AddedTo(w, h, T)]
  <2> HIDE DEF w
  <2> QED BY TotalExists, Zenon
<1>2. RetainedBy(st, S) = h[S]
  BY Zenon DEF RetainedBy, SumFunctionOnSet, FoldFunctionOnSet, MapThenFoldSet, AddedTo
<1> HIDE DEF h
<1>3. h[{}] = 0
  BY <1>1 DEF AddedTo
<1>4. \A T \in SUBSET S : T # {} => \E x \in T : h[T] = st.buffer[x].retained + h[T \ {x}]
  <2> SUFFICES ASSUME NEW T \in SUBSET S, T # {} PROVE \E x \in T : h[T] = st.buffer[x].retained + h[T \ {x}]
    OBVIOUS
  <2> DEFINE x == CHOOSE x \in T : TRUE
  <2>1. x \in T
    OBVIOUS
  <2>2. h[T] = w[x] + h[T \ {x}]
    BY <1>1 DEF AddedTo
  <2>3. w[x] = st.buffer[x].retained
    BY <2>1
  <2> HIDE DEF x
  <2> QED BY <2>1, <2>2, <2>3
<1>5. AddsUp(h, st, S) /\ RetainedBy(st, S) = h[S]
  BY <1>2, <1>3, <1>4 DEF AddsUp
<1> QED BY <1>5, Zenon

Counted(st, S) == \A s \in S : st.buffer[s].retained \in Nat

LEMMA InAnyOrder ==
  ASSUME NEW st, NEW S, IsFiniteSet(S), Counted(st, S), NEW h, AddsUp(h, st, S)
  PROVE  \A T \in SUBSET S : /\ h[T] \in Nat
                             /\ \A y \in T : h[T] = st.buffer[y].retained + h[T \ {y}]
<1> DEFINE P(T) == h[T] \in Nat /\ \A y \in T : h[T] = st.buffer[y].retained + h[T \ {y}]
           N == {n \in Nat : \A T \in SUBSET S : Cardinality(T) <= n => P(T)}
<1>1. \A T \in SUBSET S : IsFiniteSet(T) /\ Cardinality(T) \in Nat /\ Cardinality(T) <= Cardinality(S)
  BY FS_Subset, FS_CardinalityType
<1>2. P({})
  BY DEF AddsUp
<1>3. 0 \in N
  <2>1. \A T \in SUBSET S : Cardinality(T) <= 0 => T = {}
    BY <1>1, FS_EmptySet
  <2> HIDE DEF P
  <2> QED BY <1>2, <2>1
<1>4. \A n \in Nat : n \in N => n + 1 \in N
  <2> HIDE DEF P
  <2> SUFFICES ASSUME NEW n \in Nat, n \in N, NEW T \in SUBSET S, Cardinality(T) <= n + 1
               PROVE  P(T)
    OBVIOUS
  <2>1. CASE T = {}
    BY <1>2, <2>1
  <2>2. CASE T # {}
    <3>1. PICK x \in T : h[T] = st.buffer[x].retained + h[T \ {x}]
      BY <2>2 DEF AddsUp
    <3>2. \A y \in T : P(T \ {y})
      <4> SUFFICES ASSUME NEW y \in T PROVE P(T \ {y})
        OBVIOUS
      <4>1. T \ {y} \in SUBSET S /\ Cardinality(T \ {y}) <= n
        BY <1>1, FS_RemoveElement
      <4> QED BY <4>1
    <3>3. h[T \ {x}] \in Nat /\ st.buffer[x].retained \in Nat
      BY <3>2 DEF Counted, P
    <3>4. ASSUME NEW y \in T
          PROVE  h[T] = st.buffer[y].retained + h[T \ {y}]
      <4>1. CASE y = x
        BY <3>1, <4>1
      <4>2. CASE y # x
        <5>1. h[T \ {x}] = st.buffer[y].retained + h[(T \ {x}) \ {y}]
          BY <3>2, <4>2 DEF P
        <5>2. h[T \ {y}] = st.buffer[x].retained + h[(T \ {y}) \ {x}]
          BY <3>2, <4>2 DEF P
        <5>3. (T \ {y}) \ {x} = (T \ {x}) \ {y}
          OBVIOUS
        <5>6. h[T \ {y}] = st.buffer[x].retained + h[(T \ {x}) \ {y}]
          BY <5>2, <5>3, Zenon
        <5>4. h[(T \ {x}) \ {y}] \in Nat
          <6>1. Cardinality((T \ {x}) \ {y}) <= n /\ (T \ {x}) \ {y} \in SUBSET S
            <7>1. Cardinality(T \ {x}) <= n /\ T \ {x} \in SUBSET S
              BY <1>1, FS_RemoveElement
            <7>2. (T \ {x}) \ {y} \in SUBSET (T \ {x}) /\ IsFiniteSet(T \ {x})
              BY <1>1, <7>1
            <7>3. Cardinality((T \ {x}) \ {y}) <= Cardinality(T \ {x})
              BY <7>2, FS_Subset
            <7> QED BY <1>1, <7>1, <7>3
          <6> QED BY <6>1 DEF P
        <5>5. st.buffer[y].retained \in Nat
          BY DEF Counted
        <5> QED BY <3>1, <3>3, <5>1, <5>4, <5>5, <5>6
      <4> QED BY <4>1, <4>2
    <3>5. h[T] \in Nat
      BY <3>1, <3>3
    <3> QED BY <3>4, <3>5 DEF P
  <2> QED BY <2>1, <2>2
<1>5. Cardinality(S) \in N
  <2>1. Nat \subseteq N
    <3> HIDE DEF N
    <3> QED BY <1>3, <1>4, NatSetInduction
  <2> QED BY <2>1, FS_CardinalityType
<1> QED BY <1>1, <1>5

LEMMA SameTotals ==
  ASSUME NEW S, IsFiniteSet(S), NEW U \in SUBSET S,
         NEW st, NEW nx, Counted(st, S), \A s \in U : nx.buffer[s].retained = st.buffer[s].retained,
         NEW h, NEW g, AddsUp(h, st, S), AddsUp(g, nx, U)
  PROVE  h[U] = g[U]
<1> DEFINE F == {T \in SUBSET U : h[T] = g[T]}
<1>1. IsFiniteSet(U)
  BY FS_Subset
<1>2. Counted(nx, U)
  BY DEF Counted
<1>3. {} \in F
  BY DEF AddsUp
<1>4. \A T \in SUBSET U : \A x \in U \ T : T \in F => T \cup {x} \in F
  <2> SUFFICES ASSUME NEW T \in SUBSET U, NEW x \in U \ T, h[T] = g[T]
               PROVE  h[T \cup {x}] = g[T \cup {x}]
    OBVIOUS
  <2> DEFINE V == T \cup {x}
  <2>1. V \ {x} = T /\ x \in V /\ V \in SUBSET U /\ V \in SUBSET S
    OBVIOUS
  <2>2. h[V] = st.buffer[x].retained + h[V \ {x}]
    <3> HIDE DEF V
    <3> QED BY <2>1, InAnyOrder
  <2>3. g[V] = nx.buffer[x].retained + g[V \ {x}]
    <3> HIDE DEF V
    <3> QED BY <1>1, <1>2, <2>1, InAnyOrder
  <2> QED BY <2>1, <2>2, <2>3
<1> HIDE DEF F
<1>5. SUBSET U \subseteq F
  BY <1>1, <1>3, <1>4, SubsetInduction
<1> QED BY <1>5 DEF F

LEMMA RetainedByNone ==
  ASSUME NEW st
  PROVE  RetainedBy(st, {}) = 0
BY RetainedSums, FS_EmptySet DEF AddsUp

LEMMA RetainedBySame ==
  ASSUME NEW S, IsFiniteSet(S), NEW st, NEW nx, Counted(st, S),
         \A s \in S : nx.buffer[s].retained = st.buffer[s].retained
  PROVE  RetainedBy(nx, S) = RetainedBy(st, S)
<1>1. PICK h : AddsUp(h, st, S) /\ RetainedBy(st, S) = h[S]
  BY RetainedSums
<1>2. PICK g : AddsUp(g, nx, S) /\ RetainedBy(nx, S) = g[S]
  BY RetainedSums
<1> QED BY <1>1, <1>2, SameTotals

LEMMA RetainedByOne ==
  ASSUME NEW S, IsFiniteSet(S), NEW st, Counted(st, S), NEW y \in S
  PROVE  /\ RetainedBy(st, S) \in Nat /\ RetainedBy(st, S \ {y}) \in Nat
         /\ RetainedBy(st, S) = st.buffer[y].retained + RetainedBy(st, S \ {y})
<1> DEFINE U == S \ {y}
<1>1. U \in SUBSET S /\ IsFiniteSet(U)
  BY FS_Subset
<1>2. PICK h : AddsUp(h, st, S) /\ RetainedBy(st, S) = h[S]
  BY RetainedSums
<1>3. PICK g : AddsUp(g, st, U) /\ RetainedBy(st, U) = g[U]
  BY <1>1, RetainedSums
<1>4. h[S] \in Nat /\ h[S] = st.buffer[y].retained + h[U] /\ h[U] \in Nat
  BY <1>1, <1>2, InAnyOrder
<1>5. h[U] = g[U]
  <2> HIDE DEF U
  <2> QED BY <1>1, <1>2, <1>3, SameTotals
<1> QED BY <1>2, <1>3, <1>4, <1>5

LEMMA RetainedByRest ==
  ASSUME NEW S, IsFiniteSet(S), NEW st, Counted(st, S), NEW y \in S, NEW U, U = S \ {y}
  PROVE  /\ RetainedBy(st, S) \in Nat /\ RetainedBy(st, U) \in Nat
         /\ RetainedBy(st, S) = st.buffer[y].retained + RetainedBy(st, U)
BY RetainedByOne, Zenon

LEMMA RetainedByType ==
  ASSUME NEW S, IsFiniteSet(S), NEW st, Counted(st, S)
  PROVE  RetainedBy(st, S) \in Nat
<1>1. CASE S = {}
  BY <1>1, RetainedByNone
<1>2. CASE S # {}
  BY <1>2, RetainedByOne
<1> QED BY <1>1, <1>2

\* One session comes to retain another amount.
LEMMA RetainedByOther ==
  ASSUME NEW S, IsFiniteSet(S), NEW st, NEW nx, Counted(st, S), Counted(nx, S), NEW y \in S,
         \A s \in S \ {y} : nx.buffer[s].retained = st.buffer[s].retained
  PROVE  RetainedBy(nx, S) = (RetainedBy(st, S) - st.buffer[y].retained) + nx.buffer[y].retained
<1>1. IsFiniteSet(S \ {y}) /\ Counted(st, S \ {y})
  BY FS_Subset DEF Counted
<1>2. RetainedBy(nx, S \ {y}) = RetainedBy(st, S \ {y})
  BY <1>1, RetainedBySame
<1>3. /\ RetainedBy(st, S) = st.buffer[y].retained + RetainedBy(st, S \ {y})
      /\ RetainedBy(nx, S) = nx.buffer[y].retained + RetainedBy(nx, S \ {y})
      /\ RetainedBy(st, S \ {y}) \in Nat
  BY RetainedByOne
<1>4. st.buffer[y].retained \in Nat /\ nx.buffer[y].retained \in Nat
  BY DEF Counted
<1> QED BY <1>2, <1>3, <1>4

LEMMA RetainedByZero ==
  ASSUME NEW S, IsFiniteSet(S), NEW st, \A s \in S : st.buffer[s].retained = 0
  PROVE  RetainedBy(st, S) = 0
<1> DEFINE F == {T \in SUBSET S : RetainedBy(st, T) = 0}
<1>1. {} \in F
  BY RetainedByNone
<1>2. \A T \in SUBSET S : \A x \in S \ T : T \in F => T \cup {x} \in F
  <2> SUFFICES ASSUME NEW T \in SUBSET S, NEW x \in S \ T, RetainedBy(st, T) = 0
               PROVE  RetainedBy(st, T \cup {x}) = 0
    OBVIOUS
  <2> DEFINE V == T \cup {x}
  <2>1. V \ {x} = T /\ x \in V /\ V \in SUBSET S /\ IsFiniteSet(V) /\ Counted(st, V)
    BY FS_Subset DEF Counted
  <2>2. RetainedBy(st, V) = st.buffer[x].retained + RetainedBy(st, T)
    <3> HIDE DEF V
    <3> QED BY <2>1, RetainedByRest
  <2>3. st.buffer[x].retained = 0
    OBVIOUS
  <2> HIDE DEF V
  <2>4. RetainedBy(st, V) = 0
    BY <2>2, <2>3
  <2> QED BY <2>4, Zenon DEF V
<1> HIDE DEF F
<1>3. SUBSET S \subseteq F
  BY <1>1, <1>2, SubsetInduction
<1> QED BY <1>3 DEF F

LEMMA RetainedByParts ==
  ASSUME NEW S, IsFiniteSet(S), NEW st, Counted(st, S), NEW G \in SUBSET S
  PROVE  RetainedBy(st, S) = RetainedBy(st, G) + RetainedBy(st, S \ G)
<1> DEFINE F == {T \in SUBSET S : RetainedBy(st, S) = RetainedBy(st, T) + RetainedBy(st, S \ T)}
<1>1. {} \in F
  <2>1. S \ {} = S
    OBVIOUS
  <2>2. RetainedBy(st, S) \in Nat
    BY RetainedByType
  <2> QED BY <2>1, <2>2, RetainedByNone
<1>2. \A T \in SUBSET S : \A x \in S \ T : T \in F => T \cup {x} \in F
  <2> SUFFICES ASSUME NEW T \in SUBSET S, NEW x \in S \ T,
                      RetainedBy(st, S) = RetainedBy(st, T) + RetainedBy(st, S \ T)
               PROVE  RetainedBy(st, S) = RetainedBy(st, T \cup {x}) + RetainedBy(st, S \ (T \cup {x}))
    OBVIOUS
  <2> DEFINE V == T \cup {x}
             W == S \ T
  <2>1. V \ {x} = T /\ x \in V /\ IsFiniteSet(V) /\ Counted(st, V)
    BY FS_Subset DEF Counted
  <2>2. W \ {x} = S \ V /\ x \in W /\ IsFiniteSet(W) /\ Counted(st, W)
    BY FS_Subset DEF Counted
  <2>3. /\ RetainedBy(st, V) = st.buffer[x].retained + RetainedBy(st, T)
        /\ RetainedBy(st, T) \in Nat
    <3> HIDE DEF V
    <3> QED BY <2>1, RetainedByRest
  <2> DEFINE X == S \ (T \cup {x})
  <2>4. /\ RetainedBy(st, W) = st.buffer[x].retained + RetainedBy(st, X)
        /\ RetainedBy(st, X) \in Nat
    <3>1. X = W \ {x}
      OBVIOUS
    <3> HIDE DEF W, X
    <3> QED BY <2>2, <3>1, RetainedByRest
  <2>5. st.buffer[x].retained \in Nat
    BY DEF Counted
  <2>6. RetainedBy(st, S) = RetainedBy(st, T) + RetainedBy(st, W)
    OBVIOUS
  <2> HIDE DEF V, W, X
  <2>7. RetainedBy(st, S) = RetainedBy(st, V) + RetainedBy(st, X)
    BY <2>3, <2>4, <2>5, <2>6
  <2> QED BY <2>7, Zenon DEF V, X
<1> HIDE DEF F
<1>3. SUBSET S \subseteq F
  BY <1>1, <1>2, SubsetInduction
<1> QED BY <1>3 DEF F

-----------------------------------------------------------------------------
(* The buffer of one session.                                               *)

LEMMA MaxOfTwo ==
  ASSUME NEW a \in Int, NEW b \in Int
  PROVE  Max({a, b}) = IF a >= b THEN a ELSE b
<1> DEFINE m == IF a >= b THEN a ELSE b
<1>1. m \in {a, b} /\ \A y \in {a, b} : m >= y
  OBVIOUS
<1>2. \A x \in {a, b} : (\A y \in {a, b} : x >= y) => x = m
  OBVIOUS
<1> QED BY <1>1, <1>2 DEF Max

LEMMA MinOfTwo ==
  ASSUME NEW a \in Int, NEW b \in Int
  PROVE  Min({a, b}) = IF a <= b THEN a ELSE b
<1> DEFINE m == IF a <= b THEN a ELSE b
<1>1. m \in {a, b} /\ \A y \in {a, b} : m =< y
  OBVIOUS
<1>2. \A x \in {a, b} : (\A y \in {a, b} : x =< y) => x = m
  OBVIOUS
<1> QED BY <1>1, <1>2 DEF Min

LEMMA MinOfNats ==
  ASSUME NEW S \in SUBSET Nat, S # {}
  PROVE  Min(S) \in S /\ \A y \in S : Min(S) <= y
<1>1. \E m \in S : \A y \in S : ~(y < m)
  BY LeastOf
<1>2. \E m \in S : \A y \in S : m <= y
  BY <1>1
<1> QED BY <1>2 DEF Min

LEMMA MaxOfBounded ==
  ASSUME NEW n \in Nat, NEW S \in SUBSET (0..n), S # {}
  PROVE  Max(S) \in S /\ \A y \in S : Max(S) >= y
<1> DEFINE T == {i \in 0..n : n - i \in S}
<1>1. T \in SUBSET Nat /\ T # {}
  <2>1. PICK x \in S : TRUE
    OBVIOUS
  <2>2. n - x \in 0..n /\ n - (n - x) = x
    OBVIOUS
  <2>3. n - x \in T
    BY <2>1, <2>2
  <2>4. T \in SUBSET Nat
    OBVIOUS
  <2> HIDE DEF T
  <2> QED BY <2>3, <2>4
<1>2. PICK t \in T : \A y \in T : ~(y < t)
  <2> HIDE DEF T
  <2> QED BY <1>1, LeastOf
<1>3. n - t \in S
  OBVIOUS
<1>4. \A y \in S : n - t >= y
  <2> SUFFICES ASSUME NEW y \in S PROVE n - t >= y
    OBVIOUS
  <2>1. n - y \in 0..n /\ n - (n - y) = y
    OBVIOUS
  <2>2. n - y \in T
    BY <2>1
  <2>3. ~(n - y < t)
    BY <1>2, <2>2
  <2> QED BY <2>3
<1> QED BY <1>3, <1>4 DEF Max

LEMMA MinusIs ==
  ASSUME NEW a \in Int, NEW b \in Int
  PROVE  Minus(a, b) = (IF a >= b THEN a - b ELSE 0) /\ Minus(a, b) \in Nat
<1>1. Minus(a, b) = IF 0 >= a - b THEN 0 ELSE a - b
  BY MaxOfTwo DEF Minus
<1> QED BY <1>1

Buffers == [chunks : Seq(Chunks), head : Nat, base : Nat, next : Nat, retained : Nat, dropped : Nat]

\* The chunks behind head have sequence numbers from base on.
Numbered(c, head, base) == \A i \in 1..(Len(c) - head) : c[head + i].seq = base + (i - 1)

\* The live chunks have the sequence numbers from base to next.
BufferOK(b) ==
  /\ b \in Buffers
  /\ b.head <= Len(b.chunks) /\ b.base >= 1
  /\ b.next = b.base + (Len(b.chunks) - b.head)
  /\ Numbered(b.chunks, b.head, b.base)
  /\ b.retained = SizeOf(Live(b))

LEMMA BufferFields ==
  ASSUME NEW b, BufferOK(b)
  PROVE  /\ b.chunks \in Seq(Chunks) /\ Len(b.chunks) \in Nat /\ b.head \in Nat /\ b.base \in Nat
         /\ b.next \in Nat /\ b.retained \in Nat /\ b.dropped \in Nat
         /\ b.head <= Len(b.chunks) /\ b.base >= 1 /\ b.base <= b.next
         /\ b.next = b.base + (Len(b.chunks) - b.head)
<1>1. b.chunks \in Seq(Chunks)
  BY DEF BufferOK, Buffers
<1>2. Len(b.chunks) \in Nat
  BY <1>1
<1> QED BY <1>1, <1>2 DEF BufferOK, Buffers

LEMMA LiveChunks ==
  ASSUME NEW b, BufferOK(b)
  PROVE  /\ Live(b) \in Seq(Chunks) /\ Len(Live(b)) = b.next - b.base /\ Len(Live(b)) \in Nat
         /\ \A i \in 1..Len(Live(b)) : Live(b)[i] = b.chunks[b.head + i] /\ Live(b)[i].seq = b.base + (i - 1)
         /\ b.retained = SizeOf(Live(b))
<1> DEFINE m == b.head + 1
           n == Len(b.chunks)
           k == n - b.head
<1>1. n \in Nat /\ b.head \in Nat /\ b.head <= n /\ b.chunks \in Seq(Chunks) /\ k = b.next - b.base /\ k \in Nat
  BY BufferFields
<1>2. \A i \in m..n : b.chunks[i] \in Chunks
  BY <1>1, ElementOfSeq
<1>3. /\ Live(b) \in Seq(Chunks)
      /\ Len(Live(b)) = IF m <= n THEN n - m + 1 ELSE 0
      /\ \A i \in 1..(n - m + 1) : Live(b)[i] = b.chunks[m + i - 1]
  <2>1. Live(b) = SubSeq(b.chunks, m, n)
    BY DEF Live
  <2>2. m \in Int /\ n \in Int
    BY <1>1
  <2> HIDE DEF m, n
  <2> QED BY <1>2, <2>1, <2>2, SubSeqProperties
<1>4. Len(Live(b)) = k
  BY <1>1, <1>3
<1>5. \A i \in 1..k : Live(b)[i] = b.chunks[b.head + i]
  <2> SUFFICES ASSUME NEW i \in 1..k PROVE Live(b)[i] = b.chunks[b.head + i]
    OBVIOUS
  <2>1. m + i - 1 = b.head + i /\ i \in 1..(n - m + 1)
    BY <1>1
  <2> QED BY <1>3, <2>1
<1>6. \A i \in 1..k : b.chunks[b.head + i].seq = b.base + (i - 1)
  BY DEF BufferOK, Numbered
<1>7. b.retained = SizeOf(Live(b))
  BY DEF BufferOK
<1> HIDE DEF k
<1> QED BY <1>1, <1>3, <1>4, <1>5, <1>6, <1>7

LEMMA EmptyBufferOK == BufferOK(EmptyBuffer)
<1>1. Live(EmptyBuffer) = <<>>
  BY DEF Live, EmptyBuffer
<1>2. EmptyBuffer \in Buffers
  BY EmptySeq DEF EmptyBuffer, Buffers
<1> QED BY <1>1, <1>2, SizeOfEmpty DEF EmptyBuffer, BufferOK, Numbered

\* A buffer that holds the same as another.
Alike(n, b) ==
  n.next = b.next /\ n.base = b.base /\ n.retained = b.retained /\ n.dropped = b.dropped

LEMMA CompactedOK ==
  ASSUME NEW b, BufferOK(b)
  PROVE  BufferOK(Compacted(b)) /\ Alike(Compacted(b), b)
<1> DEFINE n == Compacted(b)
<1>0. b \in Buffers
  BY DEF BufferOK
<1>1. CASE b.head = 0
  BY <1>1 DEF Compacted, Alike
<1>2. CASE b.head # 0 /\ b.head = Len(b.chunks)
  <2>1. /\ n.chunks = <<>> /\ n.head = 0 /\ n.base = b.next /\ n.next = b.next
        /\ n.retained = b.retained /\ n.dropped = b.dropped
    BY <1>0, <1>2 DEF Compacted, Buffers
  <2>2. n \in Buffers
    BY <1>0, <1>2, EmptySeq DEF Compacted, Buffers
  <2>3. b.next = b.base
    BY <1>2, BufferFields
  <2>4. Live(n) = <<>>
    BY <2>1 DEF Live
  <2>5. b.retained = 0
    <3>1. Len(Live(b)) = 0
      BY <2>3, BufferFields, LiveChunks
    <3>2. Live(b) = <<>>
      BY <3>1, LiveChunks, EmptySeq
    <3> QED BY <3>2, LiveChunks, SizeOfEmpty
  <2>6. BufferOK(n)
    <3>1. Len(n.chunks) = 0 /\ b.next >= 1 /\ b.next \in Nat
      BY <2>1, BufferFields, EmptySeq
    <3>2. n.retained = SizeOf(Live(n))
      BY <2>1, <2>4, <2>5, SizeOfEmpty
    <3>3. n.head <= Len(n.chunks) /\ n.base >= 1 /\ n.next = n.base + (Len(n.chunks) - n.head)
      BY <2>1, <3>1
    <3>4. Numbered(n.chunks, n.head, n.base)
      BY <2>1, <3>1 DEF Numbered
    <3> HIDE DEF n
    <3> QED BY <2>2, <3>2, <3>3, <3>4 DEF BufferOK
  <2>7. Alike(n, b)
    BY <2>1, <2>3 DEF Alike
  <2> QED BY <2>6, <2>7
<1>3. CASE b.head # 0 /\ b.head # Len(b.chunks) /\ (b.head >= CompactHead \/ b.head * 2 >= Len(b.chunks))
  <2>1. n = [b EXCEPT !.chunks = Live(b), !.head = 0]
    BY <1>3 DEF Compacted
  <2>2. /\ n.chunks = Live(b) /\ n.head = 0 /\ n.base = b.base /\ n.next = b.next
        /\ n.retained = b.retained /\ n.dropped = b.dropped
    BY <1>0, <2>1 DEF Buffers
  <2>3. n \in Buffers
    <3>1. Live(b) \in Seq(Chunks)
      BY LiveChunks
    <3> HIDE DEF n
    <3> QED BY <1>0, <2>1, <3>1 DEF Buffers
  <2>4. Live(n) = Live(b)
    <3>1. Live(n) = SubSeq(n.chunks, 1, Len(n.chunks))
      BY <2>2 DEF Live
    <3> HIDE DEF n
    <3> QED BY <2>2, <3>1, LiveChunks, SubSeqFull
  <2> HIDE DEF n
  <2>5. /\ 0 <= Len(n.chunks) /\ n.base >= 1 /\ n.next = n.base + (Len(n.chunks) - 0)
    BY <2>2, BufferFields, LiveChunks
  <2>6. Numbered(n.chunks, n.head, n.base)
    BY <2>2, BufferFields, LiveChunks DEF Numbered
  <2>7. n.retained = SizeOf(Live(n))
    BY <2>2, <2>4, LiveChunks
  <2>8. BufferOK(n)
    BY <2>2, <2>3, <2>5, <2>6, <2>7 DEF BufferOK
  <2>9. Alike(n, b)
    BY <2>2 DEF Alike
  <2> QED BY <2>8, <2>9 DEF n
<1>4. CASE b.head # 0 /\ b.head # Len(b.chunks) /\ ~(b.head >= CompactHead \/ b.head * 2 >= Len(b.chunks))
  BY <1>4 DEF Compacted, Alike
<1> QED BY <1>1, <1>2, <1>3, <1>4

NewChunks(first, sizes) == [i \in DOMAIN sizes |-> [seq |-> first + i - 1, size |-> sizes[i]]]

LEMMA NewChunksAre ==
  ASSUME NEW first \in Nat, first >= 1, NEW sizes \in Seq(1..ChunkSize)
  PROVE  /\ NewChunks(first, sizes) \in Seq(Chunks)
         /\ Len(NewChunks(first, sizes)) = Len(sizes)
         /\ \A i \in 1..Len(sizes) : /\ NewChunks(first, sizes)[i].seq = first + i - 1
                                     /\ NewChunks(first, sizes)[i].size = sizes[i]
<1> DEFINE c == NewChunks(first, sizes)
           k == Len(sizes)
<1>1. k \in Nat /\ DOMAIN sizes = 1..k /\ \A i \in 1..k : sizes[i] \in 1..ChunkSize
  BY LenProperties
<1> HIDE DEF k
<1>2. c = [i \in 1..k |-> [seq |-> first + i - 1, size |-> sizes[i]]]
  BY <1>1 DEF NewChunks
<1> HIDE DEF c
<1>3. \A i \in 1..k : [seq |-> first + i - 1, size |-> sizes[i]] \in Chunks
  BY <1>1 DEF Chunks
<1>4. c \in [1..k -> Chunks]
  BY <1>2, <1>3
<1>5. c \in Seq(Chunks) /\ Len(c) = k
  BY <1>1, <1>4
<1>6. \A i \in 1..k : c[i].seq = first + i - 1 /\ c[i].size = sizes[i]
  BY <1>2
<1> QED BY <1>5, <1>6 DEF c, k

LEMMA SubSeqOfConcat ==
  ASSUME NEW T, NEW s \in Seq(T), NEW c \in Seq(T), NEW h \in 0..Len(s)
  PROVE  SubSeq(s \o c, h + 1, Len(s \o c)) = SubSeq(s, h + 1, Len(s)) \o c
<1> DEFINE m == Len(s)
           k == Len(c)
           e == s \o c
           v == SubSeq(s, h + 1, m)
           u == SubSeq(e, h + 1, m + k)
<1>1. m \in Nat /\ k \in Nat /\ h \in Nat /\ h <= m
  OBVIOUS
<1>2. /\ e \in Seq(T) /\ Len(e) = m + k
      /\ \A i \in 1..(m + k) : e[i] = IF i <= m THEN s[i] ELSE c[i - m]
  BY ConcatProperties
<1>3. (\A i \in (h + 1)..m : s[i] \in T) /\ \A i \in (h + 1)..(m + k) : e[i] \in T
  <2>1. (h + 1)..m \subseteq 1..m /\ (h + 1)..(m + k) \subseteq 1..(m + k)
    BY <1>1
  <2> HIDE DEF e
  <2> QED BY <1>2, <2>1, ElementOfSeq
<1> HIDE DEF m, k, e
<1>4. /\ v \in Seq(T) /\ Len(v) = m - h
      /\ \A i \in 1..(m - h) : v[i] = s[h + i]
  <2>1. h + 1 \in Int /\ m \in Int /\ (IF h + 1 <= m THEN m - (h + 1) + 1 ELSE 0) = m - h
        /\ m - (h + 1) + 1 = m - h /\ \A i \in 1..(m - h) : (h + 1) + i - 1 = h + i
    BY <1>1
  <2>2. /\ v \in Seq(T) /\ Len(v) = IF h + 1 <= m THEN m - (h + 1) + 1 ELSE 0
        /\ \A i \in 1..(m - (h + 1) + 1) : v[i] = s[(h + 1) + i - 1]
    BY <1>3, <2>1, SubSeqProperties
  <2> HIDE DEF v
  <2> QED BY <2>1, <2>2
<1>5. /\ u \in Seq(T) /\ Len(u) = m + k - h
      /\ \A i \in 1..(m + k - h) : u[i] = e[h + i]
  <2>1. h + 1 \in Int /\ m + k \in Int
        /\ (IF h + 1 <= m + k THEN (m + k) - (h + 1) + 1 ELSE 0) = m + k - h
        /\ (m + k) - (h + 1) + 1 = m + k - h /\ \A i \in 1..(m + k - h) : (h + 1) + i - 1 = h + i
    BY <1>1
  <2>2. /\ u \in Seq(T) /\ Len(u) = IF h + 1 <= m + k THEN (m + k) - (h + 1) + 1 ELSE 0
        /\ \A i \in 1..((m + k) - (h + 1) + 1) : u[i] = e[(h + 1) + i - 1]
    BY <1>3, <2>1, SubSeqProperties
  <2> HIDE DEF u
  <2> QED BY <2>1, <2>2
<1> HIDE DEF u, v
<1>6. /\ v \o c \in Seq(T) /\ Len(v \o c) = (m - h) + k
      /\ \A i \in 1..((m - h) + k) : (v \o c)[i] = IF i <= m - h THEN v[i] ELSE c[i - (m - h)]
  <2>1. /\ v \o c \in Seq(T) /\ Len(v \o c) = Len(v) + Len(c)
        /\ \A i \in 1..(Len(v) + Len(c)) : (v \o c)[i] = IF i <= Len(v) THEN v[i] ELSE c[i - Len(v)]
    BY <1>4, ConcatProperties
  <2>2. Len(v) = m - h /\ Len(c) = k
    BY <1>4 DEF k
  <2> QED BY <2>1, <2>2
<1>7. Len(u) = Len(v \o c)
  BY <1>1, <1>5, <1>6
<1>8. \A i \in 1..Len(u) : u[i] = (v \o c)[i]
  <2> SUFFICES ASSUME NEW i \in 1..(m + k - h) PROVE u[i] = (v \o c)[i]
    BY <1>5
  <2>1. i \in 1..((m - h) + k) /\ h + i \in 1..(m + k)
    BY <1>1
  <2>2. u[i] = e[h + i] /\ e[h + i] = IF h + i <= m THEN s[h + i] ELSE c[(h + i) - m]
    BY <1>2, <1>5, <2>1
  <2>3. (v \o c)[i] = IF i <= m - h THEN v[i] ELSE c[i - (m - h)]
    BY <1>6, <2>1
  <2>4. CASE i <= m - h
    <3>1. h + i <= m /\ i \in 1..(m - h)
      BY <1>1, <2>4
    <3> QED BY <1>4, <2>2, <2>3, <2>4, <3>1
  <2>5. CASE ~(i <= m - h)
    <3>1. ~(h + i <= m) /\ (h + i) - m = i - (m - h)
      BY <1>1, <2>5
    <3> QED BY <2>2, <2>3, <2>5, <3>1
  <2> QED BY <2>4, <2>5
<1>9. u = v \o c
  BY <1>5, <1>6, <1>7, <1>8, SeqEqual
<1> QED BY <1>2, <1>9 DEF u, v, m, e

LEMMA NumberedOn ==
  ASSUME NEW s \in Seq(Chunks), NEW c \in Seq(Chunks), NEW head \in Nat, head <= Len(s),
         NEW base \in Nat, Numbered(s, head, base), Numbered(c, 0, base + (Len(s) - head))
  PROVE  Numbered(s \o c, head, base)
<1> DEFINE m == Len(s)
           k == Len(c)
           e == s \o c
<1>1. m \in Nat /\ k \in Nat
  OBVIOUS
<1>2. /\ Len(e) = m + k
      /\ \A i \in 1..(m + k) : e[i] = IF i <= m THEN s[i] ELSE c[i - m]
  BY ConcatProperties
<1>3. \A i \in 1..(m - head) : s[head + i].seq = base + (i - 1)
  BY DEF Numbered
<1>4. \A i \in 1..k : c[i].seq = (base + (m - head)) + (i - 1)
  BY <1>1 DEF Numbered
<1>5. head <= m
  OBVIOUS
<1> HIDE DEF e, m, k
<1>6. ASSUME NEW i \in 1..(Len(e) - head)
      PROVE  e[head + i].seq = base + (i - 1)
  <2>1. i \in 1..((m + k) - head) /\ head + i \in 1..(m + k)
    BY <1>1, <1>2
  <2>2. CASE head + i <= m
    <3>1. e[head + i] = s[head + i] /\ i \in 1..(m - head)
      BY <1>1, <1>2, <2>1, <2>2
    <3> QED BY <1>3, <3>1
  <2>3. CASE ~(head + i <= m)
    <3>1. e[head + i] = c[(head + i) - m]
      BY <1>2, <2>1, <2>3
    <3>2. (head + i) - m \in 1..k /\ (base + (m - head)) + (((head + i) - m) - 1) = base + (i - 1)
      BY <1>1, <1>5, <2>1, <2>3
    <3>3. c[(head + i) - m].seq = (base + (m - head)) + (((head + i) - m) - 1)
      BY <1>4, <3>2
    <3> QED BY <3>1, <3>2, <3>3
  <2> QED BY <2>2, <2>3
<1> QED BY <1>6 DEF e, Numbered

LEMMA AppendedOK ==
  ASSUME NEW b, BufferOK(b), NEW sizes \in Seq(1..ChunkSize),
         NEW n, n = Appended(b, sizes)
  PROVE  /\ BufferOK(n)
         /\ n.next = b.next + Len(sizes) /\ n.base = b.base /\ n.dropped = b.dropped
         /\ n.retained = b.retained + SizeOf(NewChunks(b.next, sizes))
<1> DEFINE c == NewChunks(b.next, sizes)
           k == Len(sizes)
           m == Len(b.chunks)
<1>0. b \in Buffers /\ b.chunks \in Seq(Chunks)
  BY DEF BufferOK, Buffers
<1>a. /\ m \in Nat /\ b.head \in Nat /\ b.base \in Nat
      /\ b.next \in Nat /\ b.retained \in Nat /\ b.dropped \in Nat
      /\ b.head <= m /\ b.base >= 1 /\ b.next = b.base + (m - b.head)
  BY BufferFields
<1>b. k \in Nat
  BY LenProperties
<1>c. b.next >= 1
  <2> HIDE DEF m
  <2> QED BY <1>a
<1>1. /\ c \in Seq(Chunks) /\ Len(c) = k
      /\ \A i \in 1..k : c[i].seq = b.next + i - 1
  BY <1>a, <1>c, NewChunksAre
<1>2. n = [b EXCEPT !.chunks = @ \o c, !.next = @ + k, !.retained = @ + SizeOf(c)]
  BY <1>1 DEF Appended, NewChunks
<1>3. SizeOf(c) \in Nat
  BY <1>1, SizeType
<1> HIDE DEF c, k, m
<1>4. /\ b.chunks \o c \in Seq(Chunks) /\ Len(b.chunks \o c) = m + k
      /\ \A i \in 1..(m + k) : (b.chunks \o c)[i] = IF i <= m THEN b.chunks[i] ELSE c[i - m]
  BY <1>0, <1>1, ConcatProperties DEF m
<1>5. /\ n.chunks = b.chunks \o c /\ n.head = b.head /\ n.base = b.base /\ n.next = b.next + k
      /\ n.retained = b.retained + SizeOf(c) /\ n.dropped = b.dropped
  BY <1>0, <1>2 DEF Buffers
<1>6. n \in Buffers
  <2>1. b.next + k \in Nat /\ b.retained + SizeOf(c) \in Nat
    BY <1>a, <1>b, <1>3
  <2> QED BY <1>0, <1>2, <1>4, <2>1 DEF Buffers
<1>d. Len(n.chunks) = m + k
  BY <1>4, <1>5
<1>7. Numbered(n.chunks, n.head, n.base)
  <2>1. Numbered(b.chunks, b.head, b.base)
    BY DEF BufferOK
  <2>2. b.next = b.base + (Len(b.chunks) - b.head) /\ b.head <= Len(b.chunks)
    BY <1>a DEF m
  <2>3. Numbered(c, 0, b.next)
    <3>1. \A i \in 1..k : b.next + i - 1 = b.next + (i - 1)
      BY <1>a
    <3> QED BY <1>1, <1>b, <3>1 DEF Numbered
  <2>4. Numbered(b.chunks \o c, b.head, b.base)
    BY <1>0, <1>a, <1>1, <2>1, <2>2, <2>3, NumberedOn
  <2> QED BY <1>5, <2>4
<1>8. n.retained = SizeOf(Live(n))
  <2>1. b.head \in 0..Len(b.chunks)
    BY <1>a DEF m
  <2>2. SubSeq(b.chunks \o c, b.head + 1, Len(b.chunks \o c)) = Live(b) \o c
    BY <1>0, <1>1, <2>1, SubSeqOfConcat DEF Live
  <2>3. Live(n) = Live(b) \o c
    BY <1>5, <2>2 DEF Live
  <2> QED BY <1>1, <1>5, <2>3, LiveChunks, SizeOfConcat
<1>9. BufferOK(n)
  <2>1. n.head <= Len(n.chunks) /\ n.base >= 1 /\ n.next = n.base + (Len(n.chunks) - n.head)
    BY <1>a, <1>b, <1>5, <1>d
  <2> QED BY <1>6, <1>7, <1>8, <2>1 DEF BufferOK
<1> QED BY <1>5, <1>9 DEF c, k

LEMMA Tails ==
  ASSUME NEW T, NEW s \in Seq(T), NEW h \in Nat, h <= Len(s)
  PROVE  /\ SubSeq(s, h + 1, Len(s)) \in Seq(T)
         /\ Len(SubSeq(s, h + 1, Len(s))) = Len(s) - h
         /\ \A i \in 1..(Len(s) - h) : SubSeq(s, h + 1, Len(s))[i] = s[h + i]
<1> DEFINE m == Len(s)
           v == SubSeq(s, h + 1, m)
<1>1. m \in Nat /\ h <= m
  OBVIOUS
<1>2. \A i \in (h + 1)..m : s[i] \in T
  <2>1. (h + 1)..m \subseteq 1..m
    BY <1>1
  <2> QED BY <2>1, ElementOfSeq
<1> HIDE DEF m
<1>3. h + 1 \in Int /\ m \in Int /\ (IF h + 1 <= m THEN m - (h + 1) + 1 ELSE 0) = m - h
      /\ m - (h + 1) + 1 = m - h /\ \A i \in 1..(m - h) : (h + 1) + i - 1 = h + i
  BY <1>1
<1>4. /\ v \in Seq(T) /\ Len(v) = IF h + 1 <= m THEN m - (h + 1) + 1 ELSE 0
      /\ \A i \in 1..(m - (h + 1) + 1) : v[i] = s[(h + 1) + i - 1]
  BY <1>2, <1>3, SubSeqProperties
<1> HIDE DEF v
<1>5. v \in Seq(T) /\ Len(v) = m - h /\ \A i \in 1..(m - h) : v[i] = s[h + i]
  BY <1>3, <1>4
<1> QED BY <1>5 DEF v, m

LEMMA TailOfTail ==
  ASSUME NEW T, NEW s \in Seq(T), NEW h \in Nat, NEW k \in Nat, h + k <= Len(s)
  PROVE  LET v == SubSeq(s, h + 1, Len(s))
         IN  SubSeq(v, k + 1, Len(v)) = SubSeq(s, (h + k) + 1, Len(s))
<1> DEFINE m == Len(s)
           v == SubSeq(s, h + 1, m)
           u == SubSeq(v, k + 1, Len(v))
           w == SubSeq(s, (h + k) + 1, m)
<1>1. m \in Nat /\ h <= m /\ k <= m - h /\ h + k \in Nat /\ h + k <= m
  OBVIOUS
<1>2. v \in Seq(T) /\ Len(v) = m - h /\ \A i \in 1..(m - h) : v[i] = s[h + i]
  BY <1>1, Tails
<1>3. w \in Seq(T) /\ Len(w) = m - (h + k) /\ \A i \in 1..(m - (h + k)) : w[i] = s[(h + k) + i]
  BY <1>1, Tails
<1> HIDE DEF v, w
<1>4. u \in Seq(T) /\ Len(u) = Len(v) - k /\ \A i \in 1..(Len(v) - k) : u[i] = v[k + i]
  BY <1>1, <1>2, Tails
<1> HIDE DEF u, m
<1>5. Len(u) = Len(w)
  BY <1>1, <1>2, <1>3, <1>4
<1>6. ASSUME NEW i \in 1..Len(u)
      PROVE  u[i] = w[i]
  <2>1. i \in 1..(Len(v) - k) /\ i \in 1..(m - (h + k)) /\ k + i \in 1..(m - h) /\ h + (k + i) = (h + k) + i
    BY <1>1, <1>2, <1>3, <1>4
  <2>2. u[i] = v[k + i] /\ v[k + i] = s[h + (k + i)] /\ w[i] = s[(h + k) + i]
    BY <1>2, <1>3, <1>4, <2>1
  <2> QED BY <2>1, <2>2
<1>7. u = w
  BY <1>3, <1>4, <1>5, <1>6, SeqEqual
<1> QED BY <1>7 DEF u, v, w, m

LEMMA NumberedBehind ==
  ASSUME NEW c \in Seq(Chunks), NEW head \in Nat, NEW base \in Nat, NEW k \in Nat,
         head + k <= Len(c), Numbered(c, head, base)
  PROVE  Numbered(c, head + k, base + k)
<1> DEFINE m == Len(c)
<1>1. m \in Nat /\ head + k <= m
  OBVIOUS
<1>2. \A i \in 1..(m - head) : c[head + i].seq = base + (i - 1)
  BY DEF Numbered
<1> HIDE DEF m
<1>3. ASSUME NEW i \in 1..(m - (head + k))
      PROVE  c[(head + k) + i].seq = (base + k) + (i - 1)
  <2>1. k + i \in 1..(m - head) /\ head + (k + i) = (head + k) + i /\ base + ((k + i) - 1) = (base + k) + (i - 1)
    BY <1>1
  <2>2. c[head + (k + i)].seq = base + ((k + i) - 1)
    BY <1>2, <2>1
  <2> QED BY <2>1, <2>2
<1> QED BY <1>3 DEF Numbered, m

\* The first k live chunks are dropped.
Cut(b, k, size) ==
  [b EXCEPT !.head = @ + k, !.base = IF k = 0 THEN @ ELSE Live(b)[k].seq + 1,
            !.retained = @ - size, !.dropped = @ + size]

LEMMA CutOK ==
  ASSUME NEW b, BufferOK(b), NEW k \in 0..Len(Live(b)), NEW size, size = SizeOf(SubSeq(Live(b), 1, k)),
         NEW n, n = Cut(b, k, size)
  PROVE  /\ BufferOK(n) /\ size \in Nat /\ size <= b.retained
         /\ n.next = b.next /\ n.base = b.base + k
         /\ n.retained = b.retained - size /\ n.dropped = b.dropped + size
<1> DEFINE m == Len(b.chunks)
           v == Live(b)
<1>0. b \in Buffers /\ b.chunks \in Seq(Chunks)
  BY DEF BufferOK, Buffers
<1>1. /\ m \in Nat /\ b.head \in Nat /\ b.base \in Nat
      /\ b.next \in Nat /\ b.retained \in Nat /\ b.dropped \in Nat
      /\ b.head <= m /\ b.base >= 1 /\ b.next = b.base + (m - b.head)
  BY BufferFields
<1>2. v \in Seq(Chunks) /\ Len(v) = b.next - b.base /\ b.retained = SizeOf(v)
      /\ \A i \in 1..Len(v) : v[i].seq = b.base + (i - 1)
  BY LiveChunks
<1> HIDE DEF v, m
<1>3. /\ SubSeq(v, 1, k) \in Seq(Chunks) /\ SubSeq(v, k + 1, Len(v)) \in Seq(Chunks)
      /\ SizeOf(v) = SizeOf(SubSeq(v, 1, k)) + SizeOf(SubSeq(v, k + 1, Len(v)))
  BY <1>2, SizeOfParts DEF v
<1>4. size \in Nat /\ SizeOf(SubSeq(v, k + 1, Len(v))) \in Nat
  BY <1>3, SizeType DEF v
<1>5. size <= b.retained /\ b.retained - size = SizeOf(SubSeq(v, k + 1, Len(v)))
  BY <1>2, <1>3, <1>4 DEF v
<1>6. k \in Nat /\ k <= b.next - b.base /\ b.head + k <= m
  <2>1. k \in 0..(b.next - b.base)
    BY <1>2 DEF v
  <2> QED BY <1>1, <2>1
<1>7. (IF k = 0 THEN b.base ELSE v[k].seq + 1) = b.base + k
  <2>1. CASE k = 0
    BY <1>1, <2>1
  <2>2. CASE k # 0
    <3>1. k \in 1..Len(v)
      BY <1>6, <2>2 DEF v
    <3>2. v[k].seq = b.base + (k - 1)
      BY <1>2, <3>1
    <3>3. (b.base + (k - 1)) + 1 = b.base + k
      <4>1. \A x \in Nat : (x + (k - 1)) + 1 = x + k
        OBVIOUS
      <4> QED BY <1>1, <4>1
    <3> QED BY <2>2, <3>2, <3>3
  <2> QED BY <2>1, <2>2
<1>8. n = [b EXCEPT !.head = @ + k, !.base = b.base + k, !.retained = @ - size, !.dropped = @ + size]
  BY <1>7 DEF v, Cut
<1>9. /\ n.chunks = b.chunks /\ n.head = b.head + k /\ n.base = b.base + k /\ n.next = b.next
      /\ n.retained = b.retained - size /\ n.dropped = b.dropped + size
  BY <1>0, <1>8 DEF Buffers
<1>10. n \in Buffers
  <2>1. b.head + k \in Nat /\ b.base + k \in Nat /\ b.retained - size \in Nat /\ b.dropped + size \in Nat
    <3>1. \A r, d \in Nat : size <= r => r - size \in Nat /\ d + size \in Nat
      BY <1>4
    <3>2. b.retained - size \in Nat /\ b.dropped + size \in Nat
      BY <1>1, <1>5, <3>1
    <3>3. \A x \in Nat : x + k \in Nat
      BY <1>6
    <3> QED BY <1>1, <3>2, <3>3
  <2> QED BY <1>0, <1>8, <2>1 DEF Buffers
<1>11. Numbered(n.chunks, n.head, n.base)
  <2>1. Numbered(b.chunks, b.head, b.base)
    BY DEF BufferOK
  <2>2. Numbered(b.chunks, b.head + k, b.base + k)
    BY <1>0, <1>1, <1>6, <2>1, NumberedBehind DEF m
  <2> QED BY <1>9, <2>2
<1>12. Live(n) = SubSeq(v, k + 1, Len(v))
  <2>1. SubSeq(v, k + 1, Len(v)) = SubSeq(b.chunks, (b.head + k) + 1, Len(b.chunks))
    BY <1>0, <1>1, <1>6, TailOfTail DEF v, Live, m
  <2> QED BY <1>9, <2>1 DEF Live
<1>13. n.head <= Len(n.chunks) /\ n.base >= 1 /\ n.next = n.base + (Len(n.chunks) - n.head)
  <2>1. b.head + k <= m /\ b.base + k >= 1 /\ b.next = (b.base + k) + (m - (b.head + k))
    BY <1>1, <1>6
  <2> QED BY <1>9, <2>1 DEF m
<1>14. BufferOK(n)
  BY <1>5, <1>9, <1>10, <1>11, <1>12, <1>13 DEF BufferOK
<1> QED BY <1>4, <1>5, <1>9, <1>14

LEMMA TrimToOK ==
  ASSUME NEW b, BufferOK(b), NEW limit \in Nat, NEW n, n = TrimTo(b, limit)
  PROVE  /\ BufferOK(n) /\ n.next = b.next /\ n.base >= b.base
         /\ n.retained <= b.retained /\ n.retained <= limit
         /\ n.retained + n.dropped = b.retained + b.dropped
<1> DEFINE v == Live(b)
           size(k) == SizeOf(SubSeq(v, 1, k))
           S == {j \in 0..Len(v) : b.retained - size(j) <= limit \/ j = Len(v)}
           k == Min(S)
           c == [b EXCEPT !.head = @ + k, !.base = IF k = 0 THEN @ ELSE v[k].seq + 1,
                          !.retained = @ - size(k), !.dropped = @ + size(k)]
<1>1. v \in Seq(Chunks) /\ Len(v) \in Nat /\ b.retained = SizeOf(v)
  BY LiveChunks
<1>2. k \in S
  <2>1. S \in SUBSET Nat /\ Len(v) \in S
    BY <1>1
  <2> HIDE DEF S
  <2> QED BY <2>1, MinOfNats
<1>3. k \in 0..Len(v) /\ (b.retained - size(k) <= limit \/ k = Len(v))
  BY <1>2
<1>4. n = Compacted(c)
  BY DEF TrimTo
<1> HIDE DEF k
<1>5. /\ BufferOK(c) /\ size(k) \in Nat /\ size(k) <= b.retained
      /\ c.next = b.next /\ c.base = b.base + k
      /\ c.retained = b.retained - size(k) /\ c.dropped = b.dropped + size(k)
  <2> DEFINE z == size(k)
  <2>1. z = SizeOf(SubSeq(Live(b), 1, k)) /\ k \in 0..Len(Live(b))
    BY <1>3
  <2>2. c = Cut(b, k, z)
    BY DEF Cut
  <2> HIDE DEF z, c
  <2>3. /\ BufferOK(c) /\ z \in Nat /\ z <= b.retained
        /\ c.next = b.next /\ c.base = b.base + k
        /\ c.retained = b.retained - z /\ c.dropped = b.dropped + z
    BY <2>1, <2>2, CutOK
  <2> QED BY <2>3 DEF z
<1>6. size(Len(v)) = b.retained
  BY <1>1, SubSeqFull
<1> HIDE DEF c, v
<1>7. BufferOK(n) /\ n.next = c.next /\ n.base = c.base /\ n.retained = c.retained /\ n.dropped = c.dropped
  BY <1>4, <1>5, CompactedOK DEF Alike
<1>8. b.retained \in Nat /\ b.dropped \in Nat /\ b.base \in Nat /\ k \in Nat
  BY <1>1, <1>3, BufferFields
<1>9. b.retained - size(k) <= limit
  BY <1>3, <1>6, <1>8
<1> DEFINE z == size(k)
<1>10. z \in Nat /\ z <= b.retained /\ b.retained - z <= limit /\ c.base = b.base + k
       /\ c.retained = b.retained - z /\ c.dropped = b.dropped + z
  BY <1>5, <1>9
<1> HIDE DEF z
<1>11. c.retained <= b.retained /\ c.retained <= limit /\ c.base >= b.base
  BY <1>8, <1>10
<1>12. c.retained + c.dropped = b.retained + b.dropped
  BY <1>8, <1>10
<1> QED BY <1>5, <1>7, <1>11, <1>12

LEMMA SplitLength ==
  ASSUME NEW n \in Nat, NEW k, k = (n + ChunkSize - 1) \div ChunkSize
  PROVE  /\ k \in Nat /\ k * ChunkSize >= n /\ (n > 0 => k >= 1)
         /\ k >= 1 => (k - 1) * ChunkSize < n
<1>1. ChunkSize \in Nat /\ ChunkSize >= 1
  BY OutputAssumption
<1> DEFINE C == ChunkSize
           a == n + C - 1
<1>2. a \in Nat /\ a = (n + C) - 1
  BY <1>1
<1>3. k = a \div C
  OBVIOUS
<1> HIDE DEF C, a
<1>4. C \in Nat /\ C >= 1
  BY <1>1 DEF C
<1>5. k \in Int /\ k * C <= a /\ a < k * C + C
  BY <1>2, <1>3, <1>4
<1>6. k >= 0
  BY <1>2, <1>3, <1>4
<1>7. k * C \in Int /\ (k - 1) * C = k * C - C
  BY <1>4, <1>5
<1>8. k * C >= n /\ (k - 1) * C < n
  BY <1>2, <1>4, <1>5, <1>7
<1>9. n > 0 => k >= 1
  <2>1. k = 0 => k * C = 0
    BY <1>4
  <2> QED BY <1>5, <1>6, <1>8, <2>1
<1> QED BY <1>5, <1>6, <1>8, <1>9 DEF C

LEMMA SplitOK ==
  ASSUME NEW n \in Nat, NEW first \in Nat, first >= 1
  PROVE  /\ Split(n) \in Seq(1..ChunkSize)
         /\ n > 0 => Len(Split(n)) >= 1
         /\ SizeOf(NewChunks(first, Split(n))) = n
<1> DEFINE C == ChunkSize
           k == (n + C - 1) \div C
           part(i) == Min({C, n - (i - 1) * C})
<1>1. C \in Nat /\ C >= 1
  BY OutputAssumption
<1>2. /\ k \in Nat /\ k * C >= n /\ (n > 0 => k >= 1)
      /\ k >= 1 => (k - 1) * C < n
  BY SplitLength
<1>3. Split(n) = [i \in 1..k |-> part(i)]
  BY DEF Split
<1> HIDE DEF C, k
<1>4. \A i \in 1..k : /\ (i - 1) * C \in Nat /\ (i - 1) * C < n /\ i * C \in Nat
                      /\ i * C = (i - 1) * C + C
                      /\ i < k => i * C < n
  <2> SUFFICES ASSUME NEW i \in 1..k
               PROVE  /\ (i - 1) * C \in Nat /\ (i - 1) * C < n /\ i * C \in Nat
                      /\ i * C = (i - 1) * C + C
                      /\ i < k => i * C < n
    OBVIOUS
  <2>1. \A x, y \in Nat : x <= y => x * C <= y * C /\ x * C \in Nat
    BY <1>1
  <2>2. i - 1 \in Nat /\ i \in Nat /\ k - 1 \in Nat /\ i - 1 <= k - 1 /\ (i < k => i <= k - 1) /\ k >= 1
    BY <1>2
  <2>3. i * C = (i - 1) * C + C
    BY <1>1, <2>2
  <2>4. (i - 1) * C <= (k - 1) * C /\ (i - 1) * C \in Nat /\ (k - 1) * C \in Nat /\ i * C \in Nat
        /\ (i < k => i * C <= (k - 1) * C)
    BY <2>1, <2>2
  <2> QED BY <1>2, <2>2, <2>3, <2>4
<1>5. \A i \in 1..k : /\ part(i) = (IF i * C <= n THEN C ELSE n - (i - 1) * C)
                      /\ part(i) \in 1..C
  <2> SUFFICES ASSUME NEW i \in 1..k
               PROVE  /\ part(i) = (IF i * C <= n THEN C ELSE n - (i - 1) * C)
                      /\ part(i) \in 1..C
    OBVIOUS
  <2> DEFINE p == (i - 1) * C
             q == i * C
  <2>1. p \in Nat /\ p < n /\ q \in Nat /\ q = p + C
    BY <1>4
  <2> HIDE DEF p, q
  <2>2. Min({C, n - p}) = IF C <= n - p THEN C ELSE n - p
    BY <1>1, <2>1, MinOfTwo
  <2>3. Min({C, n - p}) = (IF q <= n THEN C ELSE n - p) /\ Min({C, n - p}) \in 1..C
    BY <1>1, <2>1, <2>2
  <2> QED BY <2>3 DEF p, q
<1> HIDE DEF part
<1>6. Split(n) \in Seq(1..C) /\ Len(Split(n)) = k
  BY <1>2, <1>3, <1>5
<1> DEFINE c == NewChunks(first, Split(n))
<1>7. /\ c \in Seq(Chunks) /\ Len(c) = k
      /\ \A i \in 1..k : c[i].size = Split(n)[i]
  BY <1>6, NewChunksAre DEF C
<1> HIDE DEF c
<1> DEFINE f == [i \in 0..k |-> IF i * C <= n THEN i * C ELSE n]
<1>8. Sums(f, c)
  <2>1. f \in [0..k -> Nat] /\ f[0] = 0
    <3>1. \A i \in 0..k : i * C \in Nat
      BY <1>1, <1>2
    <3>2. 0 * C = 0
      BY <1>1
    <3> QED BY <1>2, <3>1, <3>2
  <2>2. ASSUME NEW i \in 1..k
        PROVE  f[i] = f[i - 1] + c[i].size
    <3> DEFINE p == (i - 1) * C
               q == i * C
    <3>1. p \in Nat /\ p < n /\ q \in Nat /\ q = p + C
      BY <1>4
    <3>2. c[i].size = IF q <= n THEN C ELSE n - p
      BY <1>3, <1>5, <1>7
    <3>3. f[i] = (IF q <= n THEN q ELSE n) /\ f[i - 1] = (IF p <= n THEN p ELSE n)
      BY <1>2
    <3> HIDE DEF p, q, f
    <3> QED BY <1>1, <3>1, <3>2, <3>3
  <2> HIDE DEF f
  <2> QED BY <1>7, <2>1, <2>2 DEF Sums
<1>9. f[k] = n
  <2>1. k \in 0..k /\ k * C \in Nat /\ k * C >= n
    BY <1>1, <1>2
  <2>2. f[k] = IF k * C <= n THEN k * C ELSE n
    BY <2>1
  <2> HIDE DEF f
  <2> QED BY <2>1, <2>2
<1>10. SizeOf(c) = n
  <2> HIDE DEF f
  <2> QED BY <1>7, <1>8, <1>9, SizeOfSums
<1> QED BY <1>2, <1>6, <1>10 DEF C, c

-----------------------------------------------------------------------------
(* The elements at some positions of a sequence.                            *)

KeptNext(seq, positions, kept, i) == IF i \in positions THEN Append(kept, seq[i]) ELSE kept

KeptFrom(seq, positions, f, i) == IF i = 0 THEN <<>> ELSE KeptNext(seq, positions, f[i - 1], i)

LEMMA KeptExists ==
  ASSUME NEW seq, NEW positions, NEW n \in Nat
  PROVE  \E f : f = [i \in 0..n |-> KeptFrom(seq, positions, f, i)]
<1> DEFINE S == {k \in Nat : \E f : f = [i \in 0..k |-> KeptFrom(seq, positions, f, i)]}
<1>1. 0 \in S
  <2> DEFINE f == [i \in 0..0 |-> <<>>]
  <2>1. \A i \in 0..0 : f[i] = KeptFrom(seq, positions, f, i)
    BY DEF KeptFrom
  <2>2. f = [i \in 0..0 |-> KeptFrom(seq, positions, f, i)]
    BY <2>1
  <2>3. \E h : h = [i \in 0..0 |-> KeptFrom(seq, positions, h, i)]
    <3> HIDE DEF f
    <3> QED BY <2>2, Zenon
  <2> QED BY <2>3
<1>2. \A k \in Nat : k \in S => k + 1 \in S
  <2> SUFFICES ASSUME NEW k \in Nat, k \in S PROVE k + 1 \in S
    OBVIOUS
  <2>1. PICK f : f = [i \in 0..k |-> KeptFrom(seq, positions, f, i)]
    OBVIOUS
  <2> DEFINE g == [i \in 0..(k + 1) |-> IF i <= k THEN f[i] ELSE KeptNext(seq, positions, f[k], k + 1)]
  <2>2. \A i \in 0..(k + 1) : g[i] = KeptFrom(seq, positions, g, i)
    <3> SUFFICES ASSUME NEW i \in 0..(k + 1) PROVE g[i] = KeptFrom(seq, positions, g, i)
      OBVIOUS
    <3>1. CASE i = 0
      <4>1. g[i] = f[i] /\ f[i] = KeptFrom(seq, positions, f, i)
        BY <2>1, <3>1
      <4> HIDE DEF g
      <4> QED BY <3>1, <4>1 DEF KeptFrom
    <3>2. CASE i \in 1..k
      <4>1. g[i] = f[i] /\ g[i - 1] = f[i - 1] /\ i # 0
        BY <3>2
      <4>2. f[i] = KeptFrom(seq, positions, f, i)
        BY <2>1, <3>2
      <4> HIDE DEF g
      <4> QED BY <4>1, <4>2 DEF KeptFrom
    <3>3. CASE i = k + 1
      <4>1. g[i - 1] = f[k] /\ i # 0
        BY <3>3
      <4>2. g[i] = KeptNext(seq, positions, f[k], i)
        BY <3>3
      <4> HIDE DEF g
      <4> QED BY <4>1, <4>2 DEF KeptFrom
    <3> QED BY <3>1, <3>2, <3>3
  <2>3. g = [i \in 0..(k + 1) |-> KeptFrom(seq, positions, g, i)]
    BY <2>2
  <2>4. \E h : h = [i \in 0..(k + 1) |-> KeptFrom(seq, positions, h, i)]
    <3> HIDE DEF g
    <3> QED BY <2>3, Zenon
  <2> QED BY <2>4
<1>3. Nat \subseteq S
  <2> HIDE DEF S
  <2> QED BY <1>1, <1>2, NatSetInduction
<1> QED BY <1>3

LEMMA KeptSteps ==
  ASSUME NEW T, NEW seq \in Seq(T), NEW positions
  PROVE  \E f : /\ Kept(seq, positions) = f[Len(seq)] /\ f[0] = <<>>
                /\ \A i \in 1..Len(seq) : f[i] = KeptNext(seq, positions, f[i - 1], i)
<1> DEFINE n == Len(seq)
           f == CHOOSE h : h = [i \in 0..n |-> KeptFrom(seq, positions, h, i)]
<1>1. n \in Nat
  OBVIOUS
<1>2. f = [i \in 0..n |-> KeptFrom(seq, positions, f, i)]
  <2> HIDE DEF n
  <2> QED BY <1>1, KeptExists, Zenon
<1>3. Kept(seq, positions) = f[n]
  BY Zenon DEF Kept, KeptFrom, KeptNext
<1> HIDE DEF f, n
<1>4. f[0] = <<>>
  BY <1>1, <1>2 DEF KeptFrom
<1>5. \A i \in 1..n : f[i] = KeptNext(seq, positions, f[i - 1], i)
  BY <1>1, <1>2 DEF KeptFrom
<1> QED BY <1>3, <1>4, <1>5 DEF n

\* g says where the elements of kept are in seq: at each of the positions up to i, in order.
Places(g, kept, seq, positions, i) ==
  /\ g \in [1..Len(kept) -> positions \cap (1..i)]
  /\ \A j \in 1..Len(kept) : kept[j] = seq[g[j]]
  /\ \A j, k \in 1..Len(kept) : j < k => g[j] < g[k]
  /\ \A p \in positions \cap (1..i) : \E j \in 1..Len(kept) : g[j] = p

LEMMA PlacesNext ==
  ASSUME NEW T, NEW seq \in Seq(T), NEW positions, NEW i \in 1..Len(seq), i \in positions,
         NEW kept \in Seq(T), NEW g, Places(g, kept, seq, positions, i - 1)
  PROVE  \E h : Places(h, Append(kept, seq[i]), seq, positions, i)
<1> DEFINE n == Len(kept)
           new == Append(kept, seq[i])
           h == [j \in 1..(n + 1) |-> IF j <= n THEN g[j] ELSE i]
<1>1. n \in Nat /\ i \in Nat /\ i >= 1
  OBVIOUS
<1>2. /\ Len(new) = n + 1 /\ new[n + 1] = seq[i]
      /\ \A j \in 1..n : new[j] = kept[j]
  BY ElementOfSeq, AppendProperties
<1> HIDE DEF n, new
<1>3. /\ g \in [1..n -> positions \cap (1..(i - 1))]
      /\ \A j \in 1..n : kept[j] = seq[g[j]]
      /\ \A j, k \in 1..n : j < k => g[j] < g[k]
      /\ \A p \in positions \cap (1..(i - 1)) : \E j \in 1..n : g[j] = p
  BY DEF Places, n
<1>4. \A j \in 1..n : h[j] = g[j] /\ g[j] \in positions /\ g[j] \in 1..(i - 1)
  BY <1>1, <1>3
<1>5. h[n + 1] = i
  BY <1>1
<1>6. h \in [1..(n + 1) -> positions \cap (1..i)]
  <2>1. \A j \in 1..(n + 1) : h[j] \in positions \cap (1..i)
    <3> SUFFICES ASSUME NEW j \in 1..(n + 1) PROVE h[j] \in positions \cap (1..i)
      OBVIOUS
    <3>1. CASE j \in 1..n
      <4>1. 1..(i - 1) \subseteq 1..i
        BY <1>1
      <4> QED BY <1>4, <3>1, <4>1
    <3>2. CASE j = n + 1
      BY <1>1, <1>5, <3>2
    <3> QED BY <1>1, <3>1, <3>2
  <2> QED BY <2>1
<1> HIDE DEF h
<1>7. \A j \in 1..(n + 1) : new[j] = seq[h[j]]
  <2> SUFFICES ASSUME NEW j \in 1..(n + 1) PROVE new[j] = seq[h[j]]
    OBVIOUS
  <2>1. CASE j \in 1..n
    BY <1>2, <1>3, <1>4, <2>1
  <2>2. CASE j = n + 1
    BY <1>2, <1>5, <2>2
  <2> QED BY <1>1, <2>1, <2>2
<1>8. \A j, k \in 1..(n + 1) : j < k => h[j] < h[k]
  <2> SUFFICES ASSUME NEW j \in 1..(n + 1), NEW k \in 1..(n + 1), j < k PROVE h[j] < h[k]
    OBVIOUS
  <2>1. j \in 1..n
    BY <1>1
  <2>2. CASE k \in 1..n
    BY <1>3, <1>4, <2>1, <2>2
  <2>3. CASE k = n + 1
    BY <1>1, <1>4, <1>5, <2>1, <2>3
  <2> QED BY <1>1, <2>2, <2>3
<1>9. \A p \in positions \cap (1..i) : \E j \in 1..(n + 1) : h[j] = p
  <2> SUFFICES ASSUME NEW p \in positions \cap (1..i) PROVE \E j \in 1..(n + 1) : h[j] = p
    OBVIOUS
  <2>1. CASE p = i
    <3>1. n + 1 \in 1..(n + 1)
      BY <1>1
    <3> QED BY <1>5, <2>1, <3>1
  <2>2. CASE p # i
    <3>1. p \in 1..(i - 1)
      BY <1>1, <2>2
    <3>2. PICK j \in 1..n : g[j] = p
      BY <1>3, <3>1
    <3>3. j \in 1..(n + 1)
      BY <1>1
    <3> QED BY <1>4, <3>2, <3>3
  <2> QED BY <2>1, <2>2
<1>10. Places(h, new, seq, positions, i)
  BY <1>2, <1>6, <1>7, <1>8, <1>9 DEF Places
<1> QED BY <1>10 DEF new

LEMMA KeptPlaces ==
  ASSUME NEW T, NEW seq \in Seq(T), NEW positions
  PROVE  /\ Kept(seq, positions) \in Seq(T)
         /\ \E g : Places(g, Kept(seq, positions), seq, positions, Len(seq))
<1> DEFINE n == Len(seq)
<1>0. n \in Nat
  OBVIOUS
<1>1. PICK f : /\ Kept(seq, positions) = f[n] /\ f[0] = <<>>
               /\ \A i \in 1..n : f[i] = KeptNext(seq, positions, f[i - 1], i)
  BY KeptSteps
<1> DEFINE S == {i \in 0..n : f[i] \in Seq(T) /\ \E g : Places(g, f[i], seq, positions, i)}
<1>2. 0 \in S
  <2> DEFINE g == [j \in {} |-> 0]
  <2>1. Places(g, <<>>, seq, positions, 0)
    BY DEF Places
  <2>2. \E h : Places(h, f[0], seq, positions, 0)
    <3> HIDE DEF g
    <3> QED BY <1>1, <2>1
  <2>3. f[0] \in Seq(T)
    BY <1>1, EmptySeq
  <2> QED BY <1>0, <2>2, <2>3
<1>3. \A i \in 1..n : i - 1 \in S => i \in S
  <2> SUFFICES ASSUME NEW i \in 1..n, i - 1 \in S PROVE i \in S
    OBVIOUS
  <2>1. f[i - 1] \in Seq(T)
    OBVIOUS
  <2>2. PICK g : Places(g, f[i - 1], seq, positions, i - 1)
    OBVIOUS
  <2>3. f[i] \in Seq(T) /\ \E h : Places(h, f[i], seq, positions, i)
    <3>1. CASE i \in positions
      <4>1. f[i] = Append(f[i - 1], seq[i])
        BY <1>1, <3>1 DEF KeptNext
      <4>2. \E h : Places(h, Append(f[i - 1], seq[i]), seq, positions, i)
        BY <2>1, <2>2, <3>1, PlacesNext
      <4>3. Append(f[i - 1], seq[i]) \in Seq(T)
        BY <2>1, ElementOfSeq, AppendProperties
      <4> QED BY <4>1, <4>2, <4>3
    <3>2. CASE i \notin positions
      <4>1. f[i] = f[i - 1]
        BY <1>1, <3>2 DEF KeptNext
      <4>2. positions \cap (1..i) = positions \cap (1..(i - 1))
        BY <3>2
      <4>3. Places(g, f[i - 1], seq, positions, i)
        BY <2>2, <4>2, Zenon DEF Places
      <4> QED BY <2>1, <4>1, <4>3
    <3> QED BY <3>1, <3>2
  <2> QED BY <1>0, <2>3
<1> HIDE DEF S
<1>4. n \in S
  <2>1. 0..n \subseteq S
    BY <1>0, <1>2, <1>3, IntervalInduction
  <2> QED BY <1>0, <2>1
<1> QED BY <1>1, <1>4 DEF S

\* What remains without some elements, each of which it contains once.
LEMMA WithoutIs ==
  ASSUME NEW T, NEW seq \in Seq(T), NEW gone
  PROVE  /\ Without(seq, gone) \in Seq(T)
         /\ ToSet(Without(seq, gone)) = ToSet(seq) \ gone
         /\ IsInjective(seq) => IsInjective(Without(seq, gone))
<1> DEFINE P == {i \in 1..Len(seq) : seq[i] \notin gone}
           kept == Kept(seq, P)
<1>1. kept \in Seq(T) /\ Len(kept) \in Nat
  BY KeptPlaces
<1>2. PICK g : Places(g, kept, seq, P, Len(seq))
  BY KeptPlaces
<1>3. Without(seq, gone) = kept
  BY DEF Without
<1>4. /\ \A j \in 1..Len(kept) : g[j] \in P /\ kept[j] = seq[g[j]]
      /\ \A j, k \in 1..Len(kept) : j < k => g[j] < g[k]
      /\ \A p \in P : \E j \in 1..Len(kept) : g[j] = p
  BY <1>2 DEF Places
<1> HIDE DEF kept
<1>5. DOMAIN kept = 1..Len(kept) /\ DOMAIN seq = 1..Len(seq)
  BY <1>1
<1>6. ToSet(kept) = ToSet(seq) \ gone
  <2>1. ASSUME NEW x \in ToSet(kept)
        PROVE  x \in ToSet(seq) \ gone
    <3>1. PICK j \in 1..Len(kept) : x = kept[j]
      BY <1>5, <2>1 DEF ToSet
    <3> QED BY <1>4, <1>5, <3>1 DEF ToSet
  <2>2. ASSUME NEW x \in ToSet(seq) \ gone
        PROVE  x \in ToSet(kept)
    <3>1. PICK i \in 1..Len(seq) : x = seq[i]
      BY <1>5, <2>2 DEF ToSet
    <3>2. i \in P
      BY <2>2, <3>1
    <3>3. PICK j \in 1..Len(kept) : g[j] = i
      BY <1>4, <3>2
    <3> QED BY <1>4, <1>5, <3>1, <3>3 DEF ToSet
  <2> QED BY <2>1, <2>2
<1>7. ASSUME IsInjective(seq)
      PROVE  IsInjective(kept)
  <2> SUFFICES ASSUME NEW a \in 1..Len(kept), NEW b \in 1..Len(kept), kept[a] = kept[b]
               PROVE  a = b
    BY <1>5 DEF IsInjective
  <2>1. g[a] \in 1..Len(seq) /\ g[b] \in 1..Len(seq) /\ seq[g[a]] = seq[g[b]]
    BY <1>4
  <2>2. g[a] = g[b]
    BY <1>5, <1>7, <2>1 DEF IsInjective
  <2>3. ~(a < b) /\ ~(b < a)
    BY <1>4, <2>1, <2>2
  <2> QED BY <1>1, <2>3
<1> QED BY <1>1, <1>3, <1>6, <1>7

-----------------------------------------------------------------------------
(* The pages that a client is sent.                                         *)

\* The elements from a position on.
LEMMA KeptTail ==
  ASSUME NEW T, NEW seq \in Seq(T), NEW m \in 0..Len(seq)
  PROVE  Kept(seq, (m + 1)..Len(seq)) = SubSeq(seq, m + 1, Len(seq))
<1> DEFINE n == Len(seq)
           P == (m + 1)..n
<1>0. n \in Nat /\ m \in Nat /\ m <= n
  OBVIOUS
<1>1. PICK f : /\ Kept(seq, P) = f[n] /\ f[0] = <<>>
               /\ \A i \in 1..n : f[i] = KeptNext(seq, P, f[i - 1], i)
  BY KeptSteps
<1> DEFINE S == {i \in 0..n : f[i] = SubSeq(seq, m + 1, i)}
<1>2. \A i \in 0..m : SubSeq(seq, m + 1, i) = <<>>
  BY <1>0, SubSeqEmpty
<1>3. 0 \in S
  <2>1. f[0] = SubSeq(seq, m + 1, 0)
    BY <1>0, <1>1, <1>2
  <2>2. 0 \in 0..n
    BY <1>0
  <2> HIDE DEF n
  <2> QED BY <2>1, <2>2
<1>4. \A i \in 1..n : i - 1 \in S => i \in S
  <2> SUFFICES ASSUME NEW i \in 1..n, f[i - 1] = SubSeq(seq, m + 1, i - 1)
               PROVE  f[i] = SubSeq(seq, m + 1, i)
    BY <1>0
  <2>1. CASE i <= m
    <3>1. i \notin P /\ i \in 0..m /\ i - 1 \in 0..m
      BY <1>0, <2>1
    <3> HIDE DEF P
    <3> QED BY <1>1, <1>2, <3>1 DEF KeptNext
  <2>2. CASE i > m
    <3>1. i \in P /\ m + 1 \in 1..n /\ i \in (m + 1)..n
      BY <1>0, <2>2
    <3>2. f[i] = Append(SubSeq(seq, m + 1, i - 1), seq[i])
      BY <1>1, <3>1 DEF KeptNext
    <3>3. SubSeq(seq, m + 1, i) = SubSeq(seq, m + 1, i - 1) \o <<seq[i]>>
      BY <3>1, SubSeqRecursiveSecond
    <3>4. SubSeq(seq, m + 1, i - 1) \in Seq(T) /\ seq[i] \in T
      <4>1. \A j \in (m + 1)..(i - 1) : seq[j] \in T
        BY <1>0, <3>1, ElementOfSeq
      <4>2. m + 1 \in Int /\ i - 1 \in Int
        BY <1>0
      <4> QED BY <4>1, <4>2, ElementOfSeq, SubSeqProperties
    <3> QED BY <3>2, <3>3, <3>4, AppendIsConcat
  <2> QED BY <1>0, <2>1, <2>2
<1> HIDE DEF S
<1>5. n \in S
  <2>1. 0..n \subseteq S
    BY <1>0, <1>3, <1>4, IntervalInduction
  <2> QED BY <1>0, <2>1
<1> QED BY <1>1, <1>5 DEF S

\* What a buffer retains after a sequence number.
After(b, after) ==
  LET live == Live(b)
  IN  Kept(live, {i \in 1..Len(live) : live[i].seq > after})

\* How many live chunks a client that has after has been sent, or has missed.
Passed(b, after) == IF after + 1 <= b.base THEN 0 ELSE (after + 1) - b.base

LEMMA AfterIs ==
  ASSUME NEW b, BufferOK(b), NEW after \in 0..(b.next - 1)
  PROVE  /\ Passed(b, after) \in 0..Len(Live(b))
         /\ After(b, after) = SubSeq(Live(b), Passed(b, after) + 1, Len(Live(b)))
<1> DEFINE k == Passed(b, after)
           v == Live(b)
           L == Len(v)
<1>1. b.base \in Nat /\ b.base >= 1 /\ b.next \in Nat /\ b.base <= b.next
  BY BufferFields
<1>2. v \in Seq(Chunks) /\ L = b.next - b.base /\ L \in Nat
      /\ \A i \in 1..L : v[i].seq = b.base + (i - 1)
  BY LiveChunks
<1>3. after \in Nat /\ after <= b.next - 1
  BY <1>1
<1>4. k \in Nat /\ k <= L /\ \A i \in Nat : i >= 1 => (b.base + (i - 1) > after <=> i > k)
  <2>1. \A x, y, a \in Nat : x <= y /\ a <= y - 1 =>
           LET j == IF a + 1 <= x THEN 0 ELSE (a + 1) - x
           IN  j \in Nat /\ j <= y - x /\ \A i \in Nat : i >= 1 => (x + (i - 1) > a <=> i > j)
    OBVIOUS
  <2>2. k = IF after + 1 <= b.base THEN 0 ELSE (after + 1) - b.base
    BY DEF Passed
  <2> HIDE DEF v, L, k
  <2> QED BY <1>1, <1>2, <1>3, <2>1, <2>2
<1> HIDE DEF v, L, k
<1>5. {i \in 1..L : v[i].seq > after} = (k + 1)..L
  BY <1>2, <1>4
<1>6. After(b, after) = Kept(v, (k + 1)..L)
  BY <1>5, Zenon DEF After, v, L
<1>7. k \in 0..L
  BY <1>2, <1>4
<1>8. Kept(v, (k + 1)..L) = SubSeq(v, k + 1, L)
  BY <1>2, <1>7, KeptTail DEF L
<1> QED BY <1>6, <1>7, <1>8 DEF k, v, L

\* How many of the first chunks fit in a page.
Fit(rest, limit) == Max({j \in 0..Len(rest) : SizeOf(SubSeq(rest, 1, j)) <= limit})

LEMMA FitIs ==
  ASSUME NEW rest \in Seq(Chunks), NEW limit \in Nat, limit >= ChunkSize
  PROVE  /\ Fit(rest, limit) \in 0..Len(rest)
         /\ SizeOf(SubSeq(rest, 1, Fit(rest, limit))) <= limit
         /\ Fit(rest, limit) < Len(rest) =>
              /\ Fit(rest, limit) > 0
              /\ SizeOf(SubSeq(rest, 1, Fit(rest, limit) + 1)) > limit
<1> DEFINE L == Len(rest)
           S == {j \in 0..L : SizeOf(SubSeq(rest, 1, j)) <= limit}
           n == Fit(rest, limit)
<1>0. L \in Nat
  OBVIOUS
<1>1. 0 \in S
  <2>1. SubSeq(rest, 1, 0) = <<>>
    BY SubSeqEmpty
  <2>2. SizeOf(SubSeq(rest, 1, 0)) = 0
    BY <2>1, SizeOfEmpty, Zenon
  <2>3. 0 <= limit /\ 0 \in 0..L
    BY <1>0
  <2> HIDE DEF L
  <2> QED BY <2>2, <2>3
<1>2. n \in S /\ \A j \in S : n >= j
  <2>1. S \in SUBSET (0..L) /\ S # {} /\ n = Max(S)
    BY <1>1 DEF Fit
  <2> HIDE DEF S
  <2> QED BY <1>0, <2>1, MaxOfBounded
<1>3. L >= 1 => 1 \in S
  <2> SUFFICES ASSUME L >= 1 PROVE 1 \in S
    OBVIOUS
  <2>1. SubSeq(rest, 1, 1) \in Seq(Chunks)
    BY <1>0, SizeOfParts
  <2>2. Len(SubSeq(rest, 1, 1)) = 1 /\ SubSeq(rest, 1, 1)[1] = rest[1]
    <3>1. \A i \in 1..1 : rest[i] \in Chunks
      BY <1>0, ElementOfSeq
    <3> QED BY <3>1, SubSeqProperties
  <2>3. SizeOf(SubSeq(rest, 1, 1)) = rest[1].size
    BY <2>1, <2>2, SizeOfFirst
  <2>4. rest[1].size \in Nat /\ rest[1].size <= ChunkSize /\ ChunkSize \in Nat
    BY <1>0, ChunkFields, OutputAssumption
  <2> QED BY <1>0, <2>3, <2>4
<1>4. n \in 0..L /\ SizeOf(SubSeq(rest, 1, n)) <= limit
  BY <1>2
<1>5. ASSUME n < L
      PROVE  n > 0 /\ SizeOf(SubSeq(rest, 1, n + 1)) > limit
  <2>1. n >= 1
    BY <1>0, <1>2, <1>3, <1>4, <1>5
  <2>2. n + 1 \in 0..L /\ n + 1 \notin S
    <3> HIDE DEF S, n, L
    <3> QED BY <1>0, <1>2, <1>4, <1>5
  <2>3. SizeOf(SubSeq(rest, 1, n + 1)) \in Nat
    <3> HIDE DEF n
    <3> QED BY <2>2, SizeOfParts, SizeType
  <2>4. ~(SizeOf(SubSeq(rest, 1, n + 1)) <= limit)
    <3> HIDE DEF n
    <3> QED BY <2>2
  <2> HIDE DEF n
  <2> QED BY <1>4, <2>1, <2>3, <2>4
<1> QED BY <1>4, <1>5

LEMMA PageLimitIs ==
  ASSUME NEW asked \in ReadSizes
  PROVE  PageLimit(asked) \in Nat /\ PageLimit(asked) >= ChunkSize
<1> DEFINE m == Min({asked, MaxRead})
<1>1. asked \in Nat /\ MaxRead \in Nat /\ ChunkSize \in Nat
  BY OutputAssumption
<1>2. m \in Nat
  BY <1>1, MinOfTwo
<1>3. PageLimit(asked) = Max({ChunkSize, m})
  BY DEF PageLimit
<1> HIDE DEF m
<1>4. PageLimit(asked) = IF ChunkSize >= m THEN ChunkSize ELSE m
  BY <1>1, <1>2, <1>3, MaxOfTwo
<1> QED BY <1>1, <1>2, <1>4

\* A page of the chunks after a sequence number.
PageOf(rest, after, limit) ==
  [chunks |-> SubSeq(rest, 1, Fit(rest, limit)), hasMore |-> Fit(rest, limit) < Len(rest),
   nextSeq |-> IF Fit(rest, limit) = 0 THEN after ELSE rest[Fit(rest, limit)].seq]

LEMMA SelectAfterIs ==
  ASSUME NEW b, BufferOK(b), NEW after \in 0..(b.next - 1), NEW limit
  PROVE  \/ After(b, after) = <<>> /\ SelectAfter(b, after, limit) = NothingAfter(after)
         \/ SelectAfter(b, after, limit) = PageOf(After(b, after), after, limit)
<1> DEFINE k == Passed(b, after)
           v == Live(b)
           L == Len(v)
           m == Len(b.chunks)
           requested == Max({after + 1, b.base})
           rest == SubSeq(b.chunks, b.head + (requested - b.base) + 1, m)
           none == b.head >= m \/ b.next <= after + 1 \/ requested >= b.next
<1>1. /\ b.base \in Nat /\ b.base >= 1 /\ b.next \in Nat /\ b.base <= b.next
      /\ b.head \in Nat /\ m \in Nat /\ b.head <= m /\ b.next = b.base + (m - b.head)
      /\ b.chunks \in Seq(Chunks)
  BY BufferFields
<1>2. v \in Seq(Chunks) /\ L = b.next - b.base /\ L \in Nat
  BY LiveChunks
<1>3. k \in 0..L /\ After(b, after) = SubSeq(v, k + 1, L)
  BY AfterIs
<1>4. requested = IF after + 1 >= b.base THEN after + 1 ELSE b.base
  <2>1. after + 1 \in Int /\ b.base \in Int
    BY <1>1
  <2> QED BY <2>1, MaxOfTwo
<1> HIDE DEF requested, v, L
<1>5. \A x, y, h, n, a \in Nat, r \in Int :
         /\ h <= n /\ y = x + (n - h) /\ a <= y - 1
         /\ r = (IF a + 1 >= x THEN a + 1 ELSE x)
         => /\ r - x = (IF a + 1 <= x THEN 0 ELSE (a + 1) - x)
            /\ (h >= n \/ y <= a + 1 \/ r >= y) => r - x = y - x
  OBVIOUS
<1>6. requested - b.base = k /\ (none => k = L)
  <2>1. k = IF after + 1 <= b.base THEN 0 ELSE (after + 1) - b.base
    BY DEF Passed
  <2>2. after \in Nat /\ after <= b.next - 1 /\ requested \in Int
    BY <1>1, <1>4
  <2>3. requested = IF after + 1 >= b.base THEN after + 1 ELSE b.base
    BY <1>4
  <2> HIDE DEF k, m, none
  <2>4. /\ requested - b.base = (IF after + 1 <= b.base THEN 0 ELSE (after + 1) - b.base)
        /\ (b.head >= m \/ b.next <= after + 1 \/ requested >= b.next) => requested - b.base = b.next - b.base
    BY <1>1, <1>5, <2>2, <2>3
  <2>5. requested - b.base = k
    BY <2>1, <2>4
  <2> QED BY <1>2, <2>4, <2>5 DEF none
<1>7. none => After(b, after) = <<>>
  <2> SUFFICES ASSUME none PROVE After(b, after) = <<>>
    OBVIOUS
  <2>1. L < k + 1 /\ k + 1 \in Int /\ L \in Int
    BY <1>2, <1>3, <1>6
  <2> HIDE DEF k, none
  <2> QED BY <1>3, <2>1, SubSeqEmpty
<1>8. rest = SubSeq(v, k + 1, L)
  <2>1. k \in Nat /\ b.head + k <= m
    <3>1. L = m - b.head
      BY <1>1, <1>2
    <3> HIDE DEF k, m
    <3> QED BY <1>1, <1>3, <3>1
  <2>2. SubSeq(v, k + 1, L) = SubSeq(b.chunks, (b.head + k) + 1, m)
    <3> HIDE DEF k
    <3> QED BY <1>1, <2>1, TailOfTail DEF v, L, Live
  <2>3. rest = SubSeq(b.chunks, (b.head + k) + 1, m)
    <3> HIDE DEF k
    <3> QED BY <1>6, Zenon
  <2> HIDE DEF k, rest, m
  <2> QED BY <2>2, <2>3
<1>9. rest = After(b, after)
  <2> HIDE DEF rest, k
  <2> QED BY <1>3, <1>8
<1>10. SelectAfter(b, after, limit) = IF none THEN NothingAfter(after) ELSE PageOf(rest, after, limit)
  BY Zenon DEF SelectAfter, PageOf, Fit, requested
<1> HIDE DEF none, rest
<1> QED BY <1>7, <1>9, <1>10

\* One page: what it contains, and that it is the longest that fits.
LEMMA PageIsExact ==
  ASSUME NEW rest \in Seq(Chunks), NEW after \in Nat, NEW limit \in Nat, limit >= ChunkSize,
         NEW page, \/ rest = <<>> /\ page = NothingAfter(after)
                   \/ page = PageOf(rest, after, limit)
  PROVE  LET n == Len(page.chunks)
         IN  /\ n \in 0..Len(rest) /\ page.chunks = SubSeq(rest, 1, n)
             /\ page.hasMore <=> n < Len(rest)
             /\ page.hasMore => n > 0 /\ SizeOf(SubSeq(rest, 1, n + 1)) > limit
             /\ page.nextSeq = IF n = 0 THEN after ELSE rest[n].seq
<1>1. CASE rest = <<>> /\ page = NothingAfter(after)
  <2>1. Len(page.chunks) = 0 /\ page.chunks = <<>> /\ page.hasMore = FALSE /\ page.nextSeq = after
    BY <1>1 DEF NothingAfter
  <2>2. Len(rest) = 0
    BY <1>1
  <2>3. SubSeq(rest, 1, 0) = <<>>
    BY SubSeqEmpty
  <2> QED BY <2>1, <2>2, <2>3
<1>2. CASE page = PageOf(rest, after, limit)
  <2> DEFINE f == Fit(rest, limit)
  <2>1. /\ page.chunks = SubSeq(rest, 1, f) /\ page.hasMore = (f < Len(rest))
        /\ page.nextSeq = IF f = 0 THEN after ELSE rest[f].seq
    BY <1>2 DEF PageOf
  <2>2. /\ f \in 0..Len(rest)
        /\ f < Len(rest) => f > 0 /\ SizeOf(SubSeq(rest, 1, f + 1)) > limit
    BY FitIs
  <2> HIDE DEF f
  <2>3. Len(page.chunks) = f
    <3>1. \A i \in 1..f : rest[i] \in Chunks
      BY <2>2, ElementOfSeq
    <3>2. Len(SubSeq(rest, 1, f)) = IF 1 <= f THEN f - 1 + 1 ELSE 0
      BY <2>2, <3>1, SubSeqProperties
    <3> QED BY <2>1, <2>2, <3>2
  <2> QED BY <2>1, <2>2, <2>3
<1> QED BY <1>1, <1>2

\* The arithmetic of a page: x is the base, y the next, a the cursor before and
\* p the one after, j the chunks that are passed and m those that are sent.
PageBounds(x, y, a, j, m, p) ==
  /\ x \in Nat /\ y \in Nat /\ a \in Nat /\ j \in Nat /\ m \in Nat
  /\ a <= y - 1 /\ j + m <= y - x /\ j = (IF a + 1 <= x THEN 0 ELSE (a + 1) - x)
  /\ p = (IF m = 0 THEN a ELSE x + (j + m - 1))

InPage(x, j, m) == {x + (j + i - 1) : i \in 1..m}

LEMMA PageNumbers ==
  ASSUME NEW x, NEW y, NEW a, NEW j, NEW m, NEW p, PageBounds(x, y, a, j, m, p)
  PROVE  /\ p \in Nat /\ p >= a /\ p <= y - 1
         /\ InPage(x, j, m) \subseteq Nat
         /\ \A q \in InPage(x, j, m) : q <= p
         /\ \A q \in (a + 1)..p : q \in InPage(x, j, m) \/ q < x
<1>1. /\ p \in Nat /\ p >= a /\ p <= y - 1
      /\ \A i \in 1..m : x + (j + i - 1) \in Nat /\ x + (j + i - 1) <= p
  BY DEF PageBounds
<1>2. ASSUME NEW q \in (a + 1)..p, ~(q < x)
      PROVE  \E i \in 1..m : q = x + (j + i - 1)
  <2> DEFINE i == (q - (x + j)) + 1
  <2>1. i \in 1..m /\ q = x + (j + i - 1)
    BY <1>2 DEF PageBounds
  <2> QED BY <2>1
<1> QED BY <1>1, <1>2 DEF InPage

\* The sequence numbers of a page: the next of those that the buffer retains.
LEMMA PageSeqs ==
  ASSUME NEW b, BufferOK(b), NEW after \in 0..(b.next - 1), NEW asked \in ReadSizes,
         NEW page, page = SelectAfter(b, after, PageLimit(asked))
  PROVE  /\ page.nextSeq \in Nat /\ page.nextSeq >= after /\ page.nextSeq <= b.next - 1
         /\ SeqsOf(page.chunks) \subseteq Nat
         /\ \A q \in SeqsOf(page.chunks) : q <= page.nextSeq
         /\ \A q \in (after + 1)..page.nextSeq : q \in SeqsOf(page.chunks) \/ q < b.base
<1> DEFINE rest == After(b, after)
           k == Passed(b, after)
           L == Len(Live(b))
           n == Len(page.chunks)
           R == Len(rest)
<1>1. b.base \in Nat /\ b.base >= 1 /\ b.next \in Nat /\ b.base <= b.next
  BY BufferFields
<1>2. /\ Live(b) \in Seq(Chunks) /\ L = b.next - b.base /\ L \in Nat
      /\ \A i \in 1..L : Live(b)[i].seq = b.base + (i - 1)
  BY LiveChunks
<1>3. k \in 0..L /\ rest = SubSeq(Live(b), k + 1, L)
  BY AfterIs
<1>4. rest \in Seq(Chunks) /\ R = L - k /\ \A i \in 1..(L - k) : rest[i] = Live(b)[k + i]
  <2>1. k \in Nat /\ k <= L
    BY <1>2, <1>3
  <2> HIDE DEF k
  <2> QED BY <1>2, <1>3, <2>1, Tails
<1>5. after \in Nat /\ after <= b.next - 1
  BY <1>1
<1>6. /\ n \in 0..R /\ page.chunks = SubSeq(rest, 1, n)
      /\ page.nextSeq = IF n = 0 THEN after ELSE rest[n].seq
  <2>1. PageLimit(asked) \in Nat /\ PageLimit(asked) >= ChunkSize
    BY PageLimitIs
  <2>2. \/ rest = <<>> /\ page = NothingAfter(after)
        \/ page = PageOf(rest, after, PageLimit(asked))
    BY SelectAfterIs
  <2> HIDE DEF rest
  <2> QED BY <1>4, <1>5, <2>1, <2>2, PageIsExact
<1>k. k = IF after + 1 <= b.base THEN 0 ELSE (after + 1) - b.base
  BY DEF Passed
<1>r. R \in Nat
  BY <1>4
<1> HIDE DEF rest, k, L, n, R
<1>n. k \in Nat /\ n \in Nat /\ n <= R /\ k + n <= L
  BY <1>2, <1>3, <1>4, <1>6, <1>r
<1>7. \A i \in 1..R : rest[i].seq = b.base + (k + i - 1)
  <2> SUFFICES ASSUME NEW i \in 1..R PROVE rest[i].seq = b.base + (k + i - 1)
    OBVIOUS
  <2>1. i \in 1..(L - k) /\ k + i \in 1..L /\ (k + i) - 1 = k + i - 1
    <3>1. R = L - k
      BY <1>4
    <3> QED BY <1>2, <1>n, <3>1
  <2> QED BY <1>2, <1>4, <2>1
<1>8. SeqsOf(page.chunks) = InPage(b.base, k, n)
  <2>3. \A i \in 1..n : i \in 1..R
    BY <1>n, <1>r
  <2>1. \A i \in 1..n : page.chunks[i] = rest[i]
    <3>1. \A i \in 1..n : rest[i] \in Chunks
      BY <1>4, <2>3, ElementOfSeq DEF R
    <3> QED BY <1>6, <1>n, <3>1, SubSeqProperties
  <2>2. DOMAIN page.chunks = 1..n
    <3>1. page.chunks \in Seq(Chunks)
      BY <1>4, <1>6, SizeOfParts DEF R
    <3> QED BY <3>1 DEF n
  <2>4. \A i \in 1..n : page.chunks[i].seq = b.base + (k + i - 1)
    BY <1>7, <2>1, <2>3
  <2> QED BY <2>2, <2>4 DEF SeqsOf, ToSet, InPage
<1>9. page.nextSeq = IF n = 0 THEN after ELSE b.base + (k + n - 1)
  <2>1. n # 0 => n \in 1..R
    BY <1>n, <1>r
  <2> QED BY <1>6, <1>7, <2>1
<1>10. after <= b.next - 1 /\ k + n <= b.next - b.base
  BY <1>1, <1>2, <1>5, <1>n
<1>11. /\ page.nextSeq \in Nat /\ page.nextSeq >= after /\ page.nextSeq <= b.next - 1
       /\ InPage(b.base, k, n) \subseteq Nat
       /\ \A q \in InPage(b.base, k, n) : q <= page.nextSeq
       /\ \A q \in (after + 1)..page.nextSeq : q \in InPage(b.base, k, n) \/ q < b.base
  <2>1. PageBounds(b.base, b.next, after, k, n, page.nextSeq)
    BY <1>1, <1>5, <1>k, <1>n, <1>9, <1>10 DEF PageBounds
  <2> QED BY <2>1, PageNumbers
<1> QED BY <1>8, <1>11

LEMMA AppendedOnce ==
  ASSUME NEW T, NEW seq \in Seq(T), NEW x \in T
  PROVE  /\ Append(seq, x) \in Seq(T)
         /\ ToSet(Append(seq, x)) = ToSet(seq) \cup {x}
         /\ IsInjective(seq) /\ x \notin ToSet(seq) => IsInjective(Append(seq, x))
<1> DEFINE n == Len(seq)
           new == Append(seq, x)
<1>1. n \in Nat /\ DOMAIN seq = 1..n
  OBVIOUS
<1>2. /\ new \in Seq(T) /\ Len(new) = n + 1
      /\ \A i \in 1..n : new[i] = seq[i]
      /\ new[n + 1] = x
  BY AppendProperties
<1>3. DOMAIN new = 1..(n + 1)
  BY <1>2
<1> HIDE DEF new, n
<1>4. ToSet(new) = ToSet(seq) \cup {x}
  <2>1. \A i \in 1..(n + 1) : i \in 1..n \/ i = n + 1
    BY <1>1
  <2>2. \A i \in 1..n : i \in 1..(n + 1)
    BY <1>1
  <2>3. n + 1 \in 1..(n + 1)
    BY <1>1
  <2> QED BY <1>1, <1>2, <1>3, <2>1, <2>2, <2>3 DEF ToSet
<1>5. ASSUME IsInjective(seq), x \notin ToSet(seq)
      PROVE  IsInjective(new)
  <2>1. \A i \in 1..n : seq[i] # x
    BY <1>1, <1>5 DEF ToSet
  <2>2. \A i, j \in 1..n : seq[i] = seq[j] => i = j
    BY <1>1, <1>5 DEF IsInjective
  <2>3. \A i \in 1..(n + 1) : i \in 1..n \/ i = n + 1
    BY <1>1
  <2>4. \A i, j \in 1..(n + 1) : new[i] = new[j] => i = j
    BY <1>2, <2>1, <2>2, <2>3
  <2> QED BY <1>3, <2>4 DEF IsInjective
<1> QED BY <1>2, <1>4, <1>5 DEF new

-----------------------------------------------------------------------------
(* The store: the buffers, what they retain in total and their recency.     *)

Stores == [buffer : [Sessions -> Buffers], retained : Nat, recency : Seq(Sessions)]

WithOutput(st, M) == {s \in M : st.buffer[s].retained > 0}

\* Only the sessions of M retain output: as much as the total says, and those
\* that do are each once in the recency.
StoreOK(st, M) ==
  /\ st \in Stores /\ M \subseteq Sessions /\ IsFiniteSet(M)
  /\ \A s \in Sessions : BufferOK(st.buffer[s])
  /\ \A s \in Sessions \ M : st.buffer[s].retained = 0
  /\ st.retained = RetainedBy(st, M)
  /\ IsInjective(st.recency)
  /\ ToSet(st.recency) = WithOutput(st, M)

LEMMA StoreFields ==
  ASSUME NEW st, NEW M, StoreOK(st, M)
  PROVE  /\ M \subseteq Sessions /\ IsFiniteSet(M)
         /\ st.buffer \in [Sessions -> Buffers] /\ st.retained \in Nat /\ st.recency \in Seq(Sessions)
         /\ \A s \in Sessions : /\ BufferOK(st.buffer[s])
                                /\ st.buffer[s].retained \in Nat /\ st.buffer[s].dropped \in Nat
                                /\ st.buffer[s].base \in Nat /\ st.buffer[s].next \in Nat
         /\ Counted(st, M)
<1>1. M \subseteq Sessions /\ IsFiniteSet(M) /\ \A s \in Sessions : BufferOK(st.buffer[s])
  BY DEF StoreOK
<1>2. st.buffer \in [Sessions -> Buffers] /\ st.retained \in Nat /\ st.recency \in Seq(Sessions)
  <2>1. st \in Stores
    BY DEF StoreOK
  <2> QED BY <2>1 DEF Stores
<1>3. \A s \in Sessions : /\ st.buffer[s].retained \in Nat /\ st.buffer[s].dropped \in Nat
                          /\ st.buffer[s].base \in Nat /\ st.buffer[s].next \in Nat
  BY <1>1, BufferFields
<1>4. Counted(st, M)
  BY <1>1, <1>3 DEF Counted
<1> QED BY <1>1, <1>2, <1>3, <1>4

\* The recency of a session that was touched.
TouchedRecency(st, s) ==
  LET others == Without(st.recency, {s})
  IN  IF st.buffer[s].retained > 0 THEN Append(others, s) ELSE others

LEMMA TouchedRecencyIs ==
  ASSUME NEW st, NEW M, M \subseteq Sessions, NEW s \in M,
         st.recency \in Seq(Sessions), IsInjective(st.recency),
         ToSet(st.recency) \ {s} = WithOutput(st, M) \ {s}
  PROVE  /\ TouchedRecency(st, s) \in Seq(Sessions)
         /\ IsInjective(TouchedRecency(st, s))
         /\ ToSet(TouchedRecency(st, s)) = WithOutput(st, M)
<1> DEFINE others == Without(st.recency, {s})
           r == TouchedRecency(st, s)
<1>1. others \in Seq(Sessions) /\ ToSet(others) = ToSet(st.recency) \ {s} /\ IsInjective(others)
  BY WithoutIs
<1>2. ToSet(others) = WithOutput(st, M) \ {s}
  BY <1>1, Zenon
<1>3. r = IF st.buffer[s].retained > 0 THEN Append(others, s) ELSE others
  BY DEF TouchedRecency
<1> HIDE DEF others, r
<1>4. CASE ~(st.buffer[s].retained > 0)
  <2>1. WithOutput(st, M) \ {s} = WithOutput(st, M)
    BY <1>4 DEF WithOutput
  <2>2. r = others
    BY <1>3, <1>4
  <2> QED BY <1>1, <1>2, <2>1, <2>2, Zenon DEF r
<1>5. CASE st.buffer[s].retained > 0
  <2>1. r = Append(others, s) /\ s \in WithOutput(st, M) /\ s \in Sessions
    BY <1>3, <1>5 DEF WithOutput
  <2>2. s \notin ToSet(others)
    BY <1>2
  <2>3. r \in Seq(Sessions) /\ IsInjective(r) /\ ToSet(r) = ToSet(others) \cup {s}
    BY <1>1, <2>1, <2>2, AppendedOnce
  <2>4. ToSet(r) = WithOutput(st, M)
    <3>1. (WithOutput(st, M) \ {s}) \cup {s} = WithOutput(st, M)
      BY <2>1
    <3> QED BY <1>2, <2>3, <3>1, Zenon
  <2> QED BY <2>3, <2>4 DEF r
<1> QED BY <1>4, <1>5

\* One session comes to have another buffer, and is touched.
Changed(st, s, b) ==
  LET nx == [st EXCEPT !.buffer[s] = b, !.retained = (st.retained - st.buffer[s].retained) + b.retained]
  IN  Touched(nx, s)

LEMMA ChangedOK ==
  ASSUME NEW st, NEW M, StoreOK(st, M), NEW s \in M, NEW b, BufferOK(b),
         NEW new, new = Changed(st, s, b)
  PROVE  /\ StoreOK(new, M) /\ st.buffer[s].retained <= st.retained
         /\ new.buffer = [st.buffer EXCEPT ![s] = b]
         /\ new.retained = (st.retained - st.buffer[s].retained) + b.retained
<1> DEFINE r == (st.retained - st.buffer[s].retained) + b.retained
           nx == [st EXCEPT !.buffer[s] = b, !.retained = r]
<1>1. /\ M \subseteq Sessions /\ IsFiniteSet(M) /\ s \in Sessions
      /\ st.buffer \in [Sessions -> Buffers] /\ st.retained \in Nat /\ st.recency \in Seq(Sessions)
      /\ \A t \in Sessions : BufferOK(st.buffer[t]) /\ st.buffer[t].retained \in Nat
      /\ Counted(st, M)
  BY StoreFields
<1>2. b \in Buffers /\ b.retained \in Nat
  BY BufferFields DEF BufferOK
<1>3. st.buffer[s].retained <= st.retained /\ r \in Nat
  <2>1. /\ RetainedBy(st, M \ {s}) \in Nat
        /\ RetainedBy(st, M) = st.buffer[s].retained + RetainedBy(st, M \ {s})
    BY <1>1, RetainedByOne
  <2>2. st.retained = RetainedBy(st, M)
    BY DEF StoreOK
  <2>3. \A x, y, z \in Nat : y <= x => (x - y) + z \in Nat
    OBVIOUS
  <2>4. st.buffer[s].retained <= st.retained
    BY <1>1, <2>1, <2>2
  <2> QED BY <1>1, <1>2, <2>3, <2>4
<1>4. st \in Stores
  BY DEF StoreOK
<1>5. new = Touched(nx, s)
  BY DEF Changed
<1>6. /\ nx \in Stores /\ nx.buffer = [st.buffer EXCEPT ![s] = b]
      /\ nx.retained = r /\ nx.recency = st.recency
  <2> HIDE DEF r
  <2> QED BY <1>1, <1>2, <1>3, <1>4 DEF Stores
<1> HIDE DEF nx, r
<1>7. new = [nx EXCEPT !.recency = TouchedRecency(nx, s)]
  <2>1. Touched(nx, s) = [nx EXCEPT !.recency = TouchedRecency(nx, s)]
    BY <1>6, Zenon DEF Touched, TouchedRecency
  <2> QED BY <1>5, <2>1
<1>8. \A t \in Sessions : nx.buffer[t] = IF t = s THEN b ELSE st.buffer[t]
  BY <1>1, <1>6
<1>9. ToSet(nx.recency) \ {s} = WithOutput(nx, M) \ {s} /\ IsInjective(nx.recency)
  <2>1. ToSet(st.recency) = WithOutput(st, M) /\ IsInjective(st.recency)
    BY DEF StoreOK
  <2>2. WithOutput(st, M) \ {s} = WithOutput(nx, M) \ {s}
    BY <1>1, <1>8 DEF WithOutput
  <2> QED BY <1>6, <2>1, <2>2
<1>10. /\ TouchedRecency(nx, s) \in Seq(Sessions)
       /\ IsInjective(TouchedRecency(nx, s))
       /\ ToSet(TouchedRecency(nx, s)) = WithOutput(nx, M)
  <2>1. nx.recency \in Seq(Sessions)
    BY <1>1, <1>6
  <2> QED BY <1>1, <1>9, <2>1, TouchedRecencyIs
<1>11. /\ new \in Stores /\ new.buffer = nx.buffer /\ new.retained = r
       /\ new.recency = TouchedRecency(nx, s)
  BY <1>6, <1>7, <1>10 DEF Stores
<1>12. \A t \in Sessions : new.buffer[t] = IF t = s THEN b ELSE st.buffer[t]
  BY <1>8, <1>11
<1>13. WithOutput(new, M) = WithOutput(nx, M)
  BY <1>11 DEF WithOutput
<1>14. r = RetainedBy(new, M)
  <2>1. Counted(new, M) /\ \A t \in M \ {s} : new.buffer[t].retained = st.buffer[t].retained
    BY <1>1, <1>2, <1>12 DEF Counted
  <2>2. RetainedBy(new, M) = (RetainedBy(st, M) - st.buffer[s].retained) + new.buffer[s].retained
    BY <1>1, <2>1, RetainedByOther
  <2>3. new.buffer[s].retained = b.retained /\ RetainedBy(st, M) = st.retained
    BY <1>1, <1>12 DEF StoreOK
  <2> QED BY <2>2, <2>3 DEF r
<1>15. StoreOK(new, M)
  <2>1. \A t \in Sessions : BufferOK(new.buffer[t])
    BY <1>1, <1>12
  <2>2. \A t \in Sessions \ M : new.buffer[t].retained = 0
    BY <1>12 DEF StoreOK
  <2>3. IsInjective(new.recency) /\ ToSet(new.recency) = WithOutput(new, M)
    BY <1>10, <1>11, <1>13
  <2>4. new.retained = RetainedBy(new, M)
    BY <1>11, <1>14
  <2> QED BY <1>1, <1>11, <2>1, <2>2, <2>3, <2>4, Zenon DEF StoreOK
<1> QED BY <1>3, <1>6, <1>11, <1>15 DEF r

LEMMA StoredOK ==
  ASSUME NEW st, NEW M, StoreOK(st, M), NEW s \in M, NEW sizes \in Seq(1..ChunkSize),
         NEW new, new = Stored(st, s, sizes)
  PROVE  /\ StoreOK(new, M)
         /\ new.buffer = [st.buffer EXCEPT ![s] = Appended(@, sizes)]
<1> DEFINE b == Appended(st.buffer[s], sizes)
<1>1. /\ s \in Sessions /\ BufferOK(st.buffer[s]) /\ st.buffer[s].retained \in Nat /\ st.retained \in Nat
  BY StoreFields
<1>2. BufferOK(b)
  BY <1>1, AppendedOK
<1>3. b.retained \in Nat
  <2> HIDE DEF b
  <2> QED BY <1>2, BufferFields
<1> HIDE DEF b
<1>4. st.retained + (b.retained - st.buffer[s].retained) = (st.retained - st.buffer[s].retained) + b.retained
  <2>1. \A x, y, z \in Nat : x + (y - z) = (x - z) + y
    OBVIOUS
  <2> QED BY <1>1, <1>3, <2>1
<1>5. new = Touched([st EXCEPT !.buffer[s] = b, !.retained = st.retained + (b.retained - st.buffer[s].retained)], s)
  BY DEF Stored, b
<1>6. new = Changed(st, s, b)
  BY <1>4, <1>5 DEF Changed
<1>7. StoreOK(new, M) /\ new.buffer = [st.buffer EXCEPT ![s] = b]
  BY <1>2, <1>6, ChangedOK
<1> QED BY <1>7 DEF b

LEMMA TrimmedOK ==
  ASSUME NEW st, NEW M, StoreOK(st, M), NEW s \in M, NEW limit \in Nat,
         NEW new, new = Trimmed(st, s, limit)
  PROVE  /\ StoreOK(new, M)
         /\ new.buffer = [st.buffer EXCEPT ![s] = TrimTo(@, limit)]
         /\ new.retained = (st.retained - st.buffer[s].retained) + new.buffer[s].retained
         /\ st.buffer[s].retained <= st.retained
<1> DEFINE b == TrimTo(st.buffer[s], limit)
<1>1. /\ s \in Sessions /\ BufferOK(st.buffer[s]) /\ st.buffer[s].retained \in Nat /\ st.retained \in Nat
      /\ st.buffer \in [Sessions -> Buffers]
  BY StoreFields
<1>2. BufferOK(b) /\ b.retained <= st.buffer[s].retained
  BY <1>1, TrimToOK
<1>3. b.retained \in Nat
  <2> HIDE DEF b
  <2> QED BY <1>2, BufferFields
<1> HIDE DEF b
<1>4. st.buffer[s].retained <= st.retained
  BY <1>2, ChangedOK
<1>5. Minus(st.retained, st.buffer[s].retained - b.retained) = (st.retained - st.buffer[s].retained) + b.retained
  <2>1. ASSUME NEW x \in Nat, NEW y \in Nat, NEW z \in Nat, z <= y, y <= x
        PROVE  Minus(x, y - z) = (x - y) + z
    <3>1. y - z \in Int /\ x >= y - z /\ x - (y - z) = (x - y) + z
      BY <2>1
    <3> QED BY <3>1, MinusIs
  <2> QED BY <1>1, <1>2, <1>3, <1>4, <2>1
<1>6. new = Touched([st EXCEPT !.buffer[s] = b,
                               !.retained = Minus(st.retained, st.buffer[s].retained - b.retained)], s)
  BY DEF Trimmed, b
<1>7. new = Changed(st, s, b)
  BY <1>5, <1>6 DEF Changed
<1>8. /\ StoreOK(new, M) /\ new.buffer = [st.buffer EXCEPT ![s] = b]
      /\ new.retained = (st.retained - st.buffer[s].retained) + b.retained
  BY <1>2, <1>7, ChangedOK
<1>9. new.buffer[s] = b
  BY <1>1, <1>8
<1> QED BY <1>4, <1>8, <1>9 DEF b

-----------------------------------------------------------------------------
(* The budgets.                                                             *)

\* How one buffer follows from another: n more units of output came, and
\* anything that is retained may have been dropped.
BufferFollows(n, b, more) ==
  /\ n.base >= b.base /\ n.next >= b.next
  /\ n.retained + n.dropped = (b.retained + b.dropped) + more
  /\ more = 0 => n.next = b.next /\ n.retained <= b.retained

\* A store follows from another, and more of the output of session s came.
Follows(nx, st, s, more) ==
  \A t \in Sessions : BufferFollows(nx.buffer[t], st.buffer[t], IF t = s THEN more ELSE 0)

LEMMA FollowsItself ==
  ASSUME NEW st, NEW M, StoreOK(st, M), NEW s
  PROVE  Follows(st, st, s, 0)
<1>1. ASSUME NEW t \in Sessions
      PROVE  BufferFollows(st.buffer[t], st.buffer[t], 0)
  <2>1. /\ st.buffer[t].retained \in Nat /\ st.buffer[t].dropped \in Nat
        /\ st.buffer[t].base \in Nat /\ st.buffer[t].next \in Nat
    BY StoreFields
  <2>2. \A x, y \in Nat : x >= x /\ x <= x /\ x + y = (x + y) + 0
    OBVIOUS
  <2> QED BY <2>1, <2>2 DEF BufferFollows
<1> QED BY <1>1 DEF Follows

LEMMA BuffersFollow ==
  ASSUME NEW a, NEW b, NEW c, BufferOK(a), BufferOK(b), BufferOK(c), NEW m \in Nat, NEW n \in Nat,
         BufferFollows(b, a, m), BufferFollows(c, b, n)
  PROVE  BufferFollows(c, a, m + n)
<1>1. /\ a.retained \in Nat /\ a.dropped \in Nat /\ a.base \in Nat /\ a.next \in Nat
      /\ b.retained \in Nat /\ b.dropped \in Nat /\ b.base \in Nat /\ b.next \in Nat
      /\ c.retained \in Nat /\ c.dropped \in Nat /\ c.base \in Nat /\ c.next \in Nat
  BY BufferFields
<1>2. c.base >= a.base /\ c.next >= a.next
  BY <1>1 DEF BufferFollows
<1>3. c.retained + c.dropped = (a.retained + a.dropped) + (m + n)
  <2>1. \A x, y, z \in Nat : y = x + m /\ z = y + n => z = x + (m + n)
    OBVIOUS
  <2>2. a.retained + a.dropped \in Nat /\ b.retained + b.dropped \in Nat /\ c.retained + c.dropped \in Nat
    BY <1>1
  <2> QED BY <2>1, <2>2 DEF BufferFollows
<1>4. m + n = 0 => c.next = a.next /\ c.retained <= a.retained
  <2>1. m + n = 0 => m = 0 /\ n = 0
    OBVIOUS
  <2> QED BY <1>1, <2>1 DEF BufferFollows
<1> QED BY <1>2, <1>3, <1>4 DEF BufferFollows

LEMMA StoresFollow ==
  ASSUME NEW x, NEW y, NEW z, NEW M, StoreOK(x, M), StoreOK(y, M), StoreOK(z, M), NEW s,
         NEW m \in Nat, NEW n \in Nat, Follows(y, x, s, m), Follows(z, y, s, n)
  PROVE  Follows(z, x, s, m + n)
<1> SUFFICES ASSUME NEW t \in Sessions
             PROVE  BufferFollows(z.buffer[t], x.buffer[t], IF t = s THEN m + n ELSE 0)
  BY DEF Follows
<1> DEFINE p == IF t = s THEN m ELSE 0
           q == IF t = s THEN n ELSE 0
<1>1. p \in Nat /\ q \in Nat /\ p + q = IF t = s THEN m + n ELSE 0
  OBVIOUS
<1>2. BufferFollows(y.buffer[t], x.buffer[t], p) /\ BufferFollows(z.buffer[t], y.buffer[t], q)
  BY DEF Follows
<1>3. BufferOK(x.buffer[t]) /\ BufferOK(y.buffer[t]) /\ BufferOK(z.buffer[t])
  BY StoreFields
<1> HIDE DEF p, q
<1>4. BufferFollows(z.buffer[t], x.buffer[t], p + q)
  BY <1>1, <1>2, <1>3, BuffersFollow
<1> QED BY <1>1, <1>4

\* Only the output of one session changed.
LEMMA OneFollows ==
  ASSUME NEW st, NEW M, StoreOK(st, M), NEW s \in M, NEW b, NEW more,
         BufferFollows(b, st.buffer[s], more), NEW nx, nx.buffer = [st.buffer EXCEPT ![s] = b]
  PROVE  Follows(nx, st, s, more)
<1> SUFFICES ASSUME NEW t \in Sessions
             PROVE  BufferFollows(nx.buffer[t], st.buffer[t], IF t = s THEN more ELSE 0)
  BY DEF Follows
<1>1. nx.buffer[t] = IF t = s THEN b ELSE st.buffer[t]
  BY StoreFields
<1>2. CASE t = s
  BY <1>1, <1>2
<1>3. CASE t # s
  <2>1. BufferFollows(st.buffer[t], st.buffer[t], 0)
    <3>1. Follows(st, st, s, 0)
      BY FollowsItself
    <3> QED BY <1>3, <3>1 DEF Follows
  <2> QED BY <1>1, <1>3, <2>1
<1> QED BY <1>2, <1>3

LEMMA StoredFollows ==
  ASSUME NEW st, NEW M, StoreOK(st, M), NEW s \in M, NEW n \in Nat,
         NEW new, new = Stored(st, s, Split(n))
  PROVE  StoreOK(new, M) /\ Follows(new, st, s, n)
<1> DEFINE b == st.buffer[s]
           c == Appended(b, Split(n))
<1>1. s \in Sessions /\ BufferOK(b)
  BY StoreFields
<1> HIDE DEF b
<1>2. b.next \in Nat /\ b.base \in Nat /\ b.retained \in Nat /\ b.dropped \in Nat /\ b.next >= 1
  BY <1>1, BufferFields
<1>3. /\ Split(n) \in Seq(1..ChunkSize) /\ Len(Split(n)) \in Nat
      /\ SizeOf(NewChunks(b.next, Split(n))) = n
      /\ n = 0 => Len(Split(n)) = 0
  <2>1. Split(n) \in Seq(1..ChunkSize) /\ SizeOf(NewChunks(b.next, Split(n))) = n
    BY <1>2, SplitOK
  <2>2. Len(Split(n)) \in Nat
    BY <2>1, LenProperties
  <2>3. /\ NewChunks(b.next, Split(n)) \in Seq(Chunks)
        /\ Len(NewChunks(b.next, Split(n))) = Len(Split(n))
    BY <1>2, <2>1, NewChunksAre
  <2>4. n = 0 => NewChunks(b.next, Split(n)) = <<>>
    BY <2>1, <2>3, SizeOfSome
  <2>5. n = 0 => Len(Split(n)) = 0
    BY <2>3, <2>4
  <2> QED BY <2>1, <2>2, <2>5
<1>4. /\ c.next = b.next + Len(Split(n)) /\ c.base = b.base /\ c.dropped = b.dropped
      /\ c.retained = b.retained + SizeOf(NewChunks(b.next, Split(n)))
  BY <1>1, <1>3, AppendedOK
<1> HIDE DEF c
<1>5. BufferFollows(c, b, n)
  <2>1. c.retained = b.retained + n
    BY <1>3, <1>4
  <2>2. \A x, y, l \in Nat : x >= x /\ x + l >= x /\ (x + n) + y = (x + y) + n
    OBVIOUS
  <2>3. c.retained + c.dropped = (b.retained + b.dropped) + n
    BY <1>2, <1>4, <2>1, <2>2
  <2>4. c.base >= b.base /\ c.next >= b.next
    BY <1>2, <1>3, <1>4, <2>2
  <2>5. n = 0 => c.next = b.next /\ c.retained <= b.retained
    BY <1>2, <1>3, <1>4, <2>1
  <2> QED BY <2>3, <2>4, <2>5 DEF BufferFollows
<1>6. StoreOK(new, M) /\ new.buffer = [st.buffer EXCEPT ![s] = c]
  BY <1>3, StoredOK DEF c, b
<1> QED BY <1>5, <1>6, OneFollows DEF b

LEMMA TrimmedFollows ==
  ASSUME NEW st, NEW M, StoreOK(st, M), NEW s \in M, NEW limit \in Nat,
         NEW new, new = Trimmed(st, s, limit)
  PROVE  /\ StoreOK(new, M) /\ Follows(new, st, s, 0)
         /\ new.buffer[s].retained <= limit
         /\ new.retained = (st.retained - st.buffer[s].retained) + new.buffer[s].retained
         /\ st.buffer[s].retained <= st.retained
<1> DEFINE b == st.buffer[s]
           c == TrimTo(b, limit)
<1>1. s \in Sessions /\ BufferOK(b) /\ st.buffer \in [Sessions -> Buffers]
  BY StoreFields
<1> HIDE DEF b
<1>2. /\ BufferOK(c) /\ c.next = b.next /\ c.base >= b.base
      /\ c.retained <= b.retained /\ c.retained <= limit
      /\ c.retained + c.dropped = b.retained + b.dropped
  BY <1>1, TrimToOK
<1>3. b.retained + b.dropped = (b.retained + b.dropped) + 0 /\ b.next >= b.next
  BY <1>1, BufferFields
<1> HIDE DEF c
<1>4. BufferFollows(c, b, 0)
  BY <1>2, <1>3 DEF BufferFollows
<1>5. /\ StoreOK(new, M) /\ new.buffer = [st.buffer EXCEPT ![s] = c]
      /\ new.retained = (st.retained - st.buffer[s].retained) + new.buffer[s].retained
      /\ st.buffer[s].retained <= st.retained
  BY TrimmedOK DEF c, b
<1>6. new.buffer[s] = c
  BY <1>1, <1>5
<1> QED BY <1>2, <1>4, <1>5, <1>6, OneFollows DEF b

\* One step of the loop: the total fits, or the session retains nothing any more.
LEMMA TrimmedToTotalOK ==
  ASSUME NEW st, NEW M, StoreOK(st, M), NEW s \in M,
         NEW new, new = TrimmedToTotal(st, s)
  PROVE  /\ StoreOK(new, M) /\ Follows(new, st, s, 0)
         /\ new.retained <= MaxTotal \/ new.buffer[s].retained = 0
         /\ st.retained <= MaxTotal => new = st
<1>1. st.retained \in Nat /\ s \in Sessions /\ st.buffer[s].retained \in Nat /\ MaxTotal \in Nat
  BY StoreFields, OutputAssumption
<1>2. CASE st.retained <= MaxTotal
  <2>1. new = st
    BY <1>2 DEF TrimmedToTotal
  <2> QED BY <1>2, <2>1, FollowsItself
<1>3. CASE ~(st.retained <= MaxTotal)
  <2> DEFINE limit == Minus(st.buffer[s].retained, st.retained - MaxTotal)
  <2>1. new = Trimmed(st, s, limit)
    BY <1>3 DEF TrimmedToTotal
  <2>2. st.retained - MaxTotal \in Int /\ st.buffer[s].retained \in Int
    BY <1>1
  <2>3. /\ limit \in Nat
        /\ limit = IF st.buffer[s].retained >= st.retained - MaxTotal
                   THEN st.buffer[s].retained - (st.retained - MaxTotal) ELSE 0
    BY <2>2, MinusIs, Zenon
  <2> HIDE DEF limit
  <2>4. /\ StoreOK(new, M) /\ Follows(new, st, s, 0) /\ new.buffer[s].retained <= limit
        /\ new.retained = (st.retained - st.buffer[s].retained) + new.buffer[s].retained
        /\ st.buffer[s].retained <= st.retained
    BY <2>1, <2>3, TrimmedFollows
  <2>6. new.buffer[s].retained \in Nat
    BY <1>1, <2>4, StoreFields
  <2>7. ASSUME NEW x \in Nat, NEW y \in Nat, NEW z \in Nat, NEW most \in Nat, NEW l \in Nat,
               y <= x, z <= l, l = IF y >= x - most THEN y - (x - most) ELSE 0
        PROVE  (x - y) + z <= most \/ z = 0
    BY <2>7
  <2>8. new.retained <= MaxTotal \/ new.buffer[s].retained = 0
    BY <1>1, <2>3, <2>4, <2>6, <2>7
  <2> QED BY <1>3, <2>4, <2>8
<1> QED BY <1>2, <1>3

\* The stores that the loop passes through.
TrimFrom(st, f, i) == IF i = 0 THEN st ELSE TrimmedToTotal(f[i - 1], st.recency[i])

LEMMA TrimExists ==
  ASSUME NEW st, NEW n \in Nat
  PROVE  \E f : f = [i \in 0..n |-> TrimFrom(st, f, i)]
<1> DEFINE S == {k \in Nat : \E f : f = [i \in 0..k |-> TrimFrom(st, f, i)]}
<1>1. 0 \in S
  <2> DEFINE f == [i \in 0..0 |-> st]
  <2>1. \A i \in 0..0 : f[i] = TrimFrom(st, f, i)
    BY DEF TrimFrom
  <2>2. f = [i \in 0..0 |-> TrimFrom(st, f, i)]
    BY <2>1
  <2>3. \E h : h = [i \in 0..0 |-> TrimFrom(st, h, i)]
    <3> HIDE DEF f
    <3> QED BY <2>2, Zenon
  <2> QED BY <2>3
<1>2. \A k \in Nat : k \in S => k + 1 \in S
  <2> SUFFICES ASSUME NEW k \in Nat, k \in S PROVE k + 1 \in S
    OBVIOUS
  <2>1. PICK f : f = [i \in 0..k |-> TrimFrom(st, f, i)]
    OBVIOUS
  <2> DEFINE g == [i \in 0..(k + 1) |-> IF i <= k THEN f[i] ELSE TrimmedToTotal(f[k], st.recency[k + 1])]
  <2>2. \A i \in 0..(k + 1) : g[i] = TrimFrom(st, g, i)
    <3> SUFFICES ASSUME NEW i \in 0..(k + 1) PROVE g[i] = TrimFrom(st, g, i)
      OBVIOUS
    <3>1. CASE i = 0
      <4>1. g[i] = f[i] /\ f[i] = TrimFrom(st, f, i)
        BY <2>1, <3>1
      <4> HIDE DEF g
      <4> QED BY <3>1, <4>1 DEF TrimFrom
    <3>2. CASE i \in 1..k
      <4>1. g[i] = f[i] /\ g[i - 1] = f[i - 1] /\ i # 0
        BY <3>2
      <4>2. f[i] = TrimFrom(st, f, i)
        BY <2>1, <3>2
      <4> HIDE DEF g
      <4> QED BY <4>1, <4>2 DEF TrimFrom
    <3>3. CASE i = k + 1
      <4>1. g[i - 1] = f[k] /\ i # 0
        BY <3>3
      <4>2. g[i] = TrimmedToTotal(f[k], st.recency[i])
        BY <3>3
      <4> HIDE DEF g
      <4> QED BY <4>1, <4>2 DEF TrimFrom
    <3> QED BY <3>1, <3>2, <3>3
  <2>3. g = [i \in 0..(k + 1) |-> TrimFrom(st, g, i)]
    BY <2>2
  <2>4. \E h : h = [i \in 0..(k + 1) |-> TrimFrom(st, h, i)]
    <3> HIDE DEF g
    <3> QED BY <2>3, Zenon
  <2> QED BY <2>4
<1>3. Nat \subseteq S
  <2> HIDE DEF S
  <2> QED BY <1>1, <1>2, NatSetInduction
<1> QED BY <1>3

LEMMA TrimSteps ==
  ASSUME NEW st, st.recency \in Seq(Sessions)
  PROVE  \E f : /\ TrimTotal(st) = f[Len(st.recency)] /\ f[0] = st
                /\ \A i \in 1..Len(st.recency) : f[i] = TrimmedToTotal(f[i - 1], st.recency[i])
<1> DEFINE n == Len(st.recency)
           f == CHOOSE h : h = [i \in 0..n |-> TrimFrom(st, h, i)]
<1>1. n \in Nat
  OBVIOUS
<1>2. f = [i \in 0..n |-> TrimFrom(st, f, i)]
  <2> HIDE DEF n
  <2> QED BY <1>1, TrimExists, Zenon
<1>3. TrimTotal(st) = f[n]
  BY Zenon DEF TrimTotal, TrimFrom
<1> HIDE DEF f, n
<1>4. f[0] = st
  BY <1>1, <1>2 DEF TrimFrom
<1>5. \A i \in 1..n : f[i] = TrimmedToTotal(f[i - 1], st.recency[i])
  BY <1>1, <1>2 DEF TrimFrom
<1> QED BY <1>3, <1>4, <1>5 DEF n

\* Nothing comes for any session: whose output is meant does not matter.
LEMMA FollowsForAny ==
  ASSUME NEW nx, NEW st, NEW s, NEW t, Follows(nx, st, s, 0)
  PROVE  Follows(nx, st, t, 0)
BY DEF Follows

\* What retains nothing cannot come to retain anything.
LEMMA StaysEmpty ==
  ASSUME NEW nx, NEW st, NEW M, StoreOK(st, M), StoreOK(nx, M), NEW s, Follows(nx, st, s, 0),
         NEW t \in Sessions, st.buffer[t].retained = 0
  PROVE  nx.buffer[t].retained = 0
<1>1. BufferFollows(nx.buffer[t], st.buffer[t], 0)
  BY DEF Follows
<1>2. nx.buffer[t].retained \in Nat
  BY StoreFields
<1> QED BY <1>1, <1>2 DEF BufferFollows

LEMMA TrimTotalOK ==
  ASSUME NEW st, NEW M, StoreOK(st, M), NEW s, NEW new, new = TrimTotal(st)
  PROVE  StoreOK(new, M) /\ Follows(new, st, s, 0) /\ new.retained <= MaxTotal
<1> DEFINE n == Len(st.recency)
           Done(x, i) == x.retained <= MaxTotal \/ \A j \in 1..i : x.buffer[st.recency[j]].retained = 0
<1>1. /\ st.recency \in Seq(Sessions) /\ n \in Nat /\ M \subseteq Sessions /\ IsFiniteSet(M)
      /\ ToSet(st.recency) = WithOutput(st, M)
      /\ \A t \in Sessions : st.buffer[t].retained \in Nat
  <2>1. st.recency \in Seq(Sessions)
    BY StoreFields
  <2>2. n \in Nat
    BY <2>1
  <2> QED BY <2>1, <2>2, StoreFields DEF StoreOK
<1>2. \A i \in 1..n : st.recency[i] \in M /\ st.recency[i] \in Sessions
  <2>1. \A i \in 1..n : st.recency[i] \in ToSet(st.recency)
    BY <1>1 DEF ToSet
  <2> QED BY <1>1, <2>1 DEF WithOutput
<1>3. PICK f : /\ new = f[n] /\ f[0] = st
               /\ \A i \in 1..n : f[i] = TrimmedToTotal(f[i - 1], st.recency[i])
  BY <1>1, TrimSteps
<1> DEFINE S == {i \in 0..n : StoreOK(f[i], M) /\ Follows(f[i], st, s, 0) /\ Done(f[i], i)}
<1>4. 0 \in S
  <2>1. Done(st, 0)
    OBVIOUS
  <2> HIDE DEF Done
  <2> QED BY <1>1, <1>3, <2>1, FollowsItself
<1>5. \A i \in 1..n : i - 1 \in S => i \in S
  <2> SUFFICES ASSUME NEW i \in 1..n, StoreOK(f[i - 1], M), Follows(f[i - 1], st, s, 0), Done(f[i - 1], i - 1)
               PROVE  StoreOK(f[i], M) /\ Follows(f[i], st, s, 0) /\ Done(f[i], i)
    OBVIOUS
  <2> DEFINE t == st.recency[i]
             x == f[i - 1]
             y == f[i]
  <2>1. t \in M /\ y = TrimmedToTotal(x, t)
    BY <1>2, <1>3
  <2>2. /\ StoreOK(y, M) /\ Follows(y, x, t, 0)
        /\ y.retained <= MaxTotal \/ y.buffer[t].retained = 0
        /\ x.retained <= MaxTotal => y = x
    <3> HIDE DEF x, y, t
    <3> QED BY <2>1, TrimmedToTotalOK DEF x
  <2>3. Follows(y, x, s, 0)
    BY <2>2, FollowsForAny
  <2>4. Follows(y, st, s, 0 + 0)
    <3> HIDE DEF x, y
    <3> QED BY <2>2, <2>3, StoresFollow DEF x
  <2>5. Done(y, i)
    <3>1. CASE x.retained <= MaxTotal
      BY <2>2, <3>1
    <3>2. CASE y.retained <= MaxTotal
      BY <3>2
    <3>3. CASE ~(x.retained <= MaxTotal) /\ y.buffer[t].retained = 0
      <4> SUFFICES ASSUME NEW j \in 1..i PROVE y.buffer[st.recency[j]].retained = 0
        OBVIOUS
      <4>1. CASE j = i
        BY <3>3, <4>1
      <4>2. CASE j # i
        <5>1. j \in 1..(i - 1) /\ j \in 1..n
          BY <4>2
        <5>2. x.buffer[st.recency[j]].retained = 0
          BY <3>3, <5>1
        <5>3. st.recency[j] \in Sessions
          BY <1>2, <5>1
        <5> HIDE DEF x, y
        <5> QED BY <2>2, <2>3, <5>2, <5>3, StaysEmpty DEF x
      <4> QED BY <4>1, <4>2
    <3> QED BY <2>2, <3>1, <3>2, <3>3
  <2> QED BY <2>2, <2>4, <2>5
<1> HIDE DEF S
<1>6. n \in S
  <2>1. 0..n \subseteq S
    BY <1>1, <1>4, <1>5, IntervalInduction
  <2> QED BY <1>1, <2>1
<1>7. StoreOK(new, M) /\ Follows(new, st, s, 0) /\ Done(new, n)
  BY <1>3, <1>6 DEF S
<1>8. ASSUME \A j \in 1..n : new.buffer[st.recency[j]].retained = 0
      PROVE  new.retained <= MaxTotal
  <2>1. \A t \in M : new.buffer[t].retained = 0
    <3> SUFFICES ASSUME NEW t \in M PROVE new.buffer[t].retained = 0
      OBVIOUS
    <3>1. t \in Sessions
      BY <1>1
    <3>2. CASE st.buffer[t].retained > 0
      <4>1. t \in ToSet(st.recency)
        BY <1>1, <3>2 DEF WithOutput
      <4>2. PICK j \in 1..n : t = st.recency[j]
        BY <1>1, <4>1 DEF ToSet
      <4> QED BY <1>8, <4>2
    <3>3. CASE ~(st.buffer[t].retained > 0)
      <4>1. st.buffer[t].retained = 0
        BY <1>1, <3>1, <3>3
      <4> QED BY <1>7, <3>1, <4>1, StaysEmpty
    <3> QED BY <3>2, <3>3
  <2>2. RetainedBy(new, M) = 0
    BY <1>1, <2>1, RetainedByZero
  <2>3. new.retained = 0
    BY <1>7, <2>2 DEF StoreOK
  <2> QED BY <2>3, OutputAssumption
<1> QED BY <1>7, <1>8

LEMMA TrimRetainedOK ==
  ASSUME NEW st, NEW M, StoreOK(st, M), NEW s \in M, NEW new, new = TrimRetained(st, s)
  PROVE  /\ StoreOK(new, M) /\ Follows(new, st, s, 0)
         /\ new.retained <= MaxTotal /\ new.buffer[s].retained <= MaxRetained
<1> DEFINE x == Trimmed(st, s, MaxRetained)
<1>0. MaxRetained \in Nat
  BY OutputAssumption
<1>1. StoreOK(x, M) /\ Follows(x, st, s, 0) /\ x.buffer[s].retained <= MaxRetained
  BY <1>0, TrimmedFollows
<1>2. new = TrimTotal(x)
  BY DEF TrimRetained
<1> HIDE DEF x
<1>3. StoreOK(new, M) /\ Follows(new, x, s, 0) /\ new.retained <= MaxTotal
  BY <1>1, <1>2, TrimTotalOK
<1>4. Follows(new, st, s, 0 + 0)
  BY <1>1, <1>3, StoresFollow
<1>5. new.buffer[s].retained <= MaxRetained
  <2>1. /\ x.buffer[s].retained \in Nat /\ new.buffer[s].retained \in Nat /\ s \in Sessions
    BY <1>1, <1>3, StoreFields
  <2>2. BufferFollows(new.buffer[s], x.buffer[s], 0)
    BY <1>3, <2>1 DEF Follows
  <2>3. new.buffer[s].retained <= x.buffer[s].retained
    BY <2>2 DEF BufferFollows
  <2> QED BY <1>0, <1>1, <2>1, <2>3
<1> QED BY <1>3, <1>4, <1>5

\* The output of an event is stored, and the budgets are applied.
LEMMA DataOK ==
  ASSUME NEW st, NEW M, StoreOK(st, M), NEW s \in M, NEW n \in Nat,
         NEW x, x = IF n > 0 THEN Stored(st, s, Split(n)) ELSE st,
         NEW new, new = TrimRetained(x, s)
  PROVE  /\ StoreOK(new, M) /\ Follows(new, st, s, n)
         /\ new.retained <= MaxTotal /\ new.buffer[s].retained <= MaxRetained
<1>1. StoreOK(x, M) /\ Follows(x, st, s, n)
  <2>1. CASE n > 0
    BY <2>1, StoredFollows
  <2>2. CASE ~(n > 0)
    <3>1. n = 0 /\ x = st
      BY <2>2
    <3> QED BY <3>1, FollowsItself
  <2> QED BY <2>1, <2>2
<1>2. /\ StoreOK(new, M) /\ Follows(new, x, s, 0)
      /\ new.retained <= MaxTotal /\ new.buffer[s].retained <= MaxRetained
  BY <1>1, TrimRetainedOK
<1>3. Follows(new, st, s, n + 0)
  BY <1>1, <1>2, StoresFollow
<1> QED BY <1>2, <1>3

LEMMA FlushPendingOK ==
  ASSUME NEW st, NEW M, StoreOK(st, M), NEW s \in M,
         pending[s].stdout \in Nat, pending[s].stderr \in Nat,
         NEW new, new = FlushPending(st, s)
  PROVE  /\ StoreOK(new, M) /\ Follows(new, st, s, pending[s].stdout + pending[s].stderr)
         /\ new.retained <= MaxTotal /\ new.buffer[s].retained <= MaxRetained
<1> DEFINE m == pending[s].stdout
           n == pending[s].stderr
           x == IF m > 0 THEN Stored(st, s, Split(m)) ELSE st
           y == IF n > 0 THEN Stored(x, s, Split(n)) ELSE x
<1>1. m \in Nat /\ n \in Nat
  OBVIOUS
<1>2. new = TrimRetained(y, s)
  BY <1>1 DEF FlushPending
<1> HIDE DEF m, n
<1>3. StoreOK(x, M) /\ Follows(x, st, s, m)
  <2>1. CASE m > 0
    BY <1>1, <2>1, StoredFollows
  <2>2. CASE ~(m > 0)
    <3>1. m = 0 /\ x = st
      BY <1>1, <2>2
    <3> QED BY <3>1, FollowsItself
  <2> QED BY <2>1, <2>2
<1> HIDE DEF x
<1>4. /\ StoreOK(new, M) /\ Follows(new, x, s, n)
      /\ new.retained <= MaxTotal /\ new.buffer[s].retained <= MaxRetained
  BY <1>1, <1>2, <1>3, DataOK
<1>5. Follows(new, st, s, m + n)
  BY <1>1, <1>3, <1>4, StoresFollow
<1> QED BY <1>4, <1>5 DEF m, n

LEMMA ForgetOutputOK ==
  ASSUME NEW st, NEW M, StoreOK(st, M), NEW gone, gone \subseteq M,
         NEW new, new = ForgetOutput(st, gone)
  PROVE  /\ StoreOK(new, M \ gone)
         /\ new.buffer = [s \in Sessions |-> IF s \in gone THEN EmptyBuffer ELSE st.buffer[s]]
         /\ new.retained <= st.retained
<1> DEFINE R == M \ gone
<1>1. /\ M \subseteq Sessions /\ IsFiniteSet(M) /\ Counted(st, M)
      /\ st.buffer \in [Sessions -> Buffers] /\ st.retained \in Nat /\ st.recency \in Seq(Sessions)
      /\ \A s \in Sessions : BufferOK(st.buffer[s])
      /\ \A s \in Sessions : st.buffer[s].retained \in Nat
  BY StoreFields
<1>2. /\ new.buffer = [s \in Sessions |-> IF s \in gone THEN EmptyBuffer ELSE st.buffer[s]]
      /\ new.retained = Minus(st.retained, RetainedBy(st, gone))
      /\ new.recency = Without(st.recency, gone)
      /\ new = [buffer |-> new.buffer, retained |-> new.retained, recency |-> new.recency]
  BY DEF ForgetOutput
<1>3. BufferOK(EmptyBuffer) /\ EmptyBuffer.retained = 0
  BY EmptyBufferOK DEF EmptyBuffer
<1>4. \A s \in Sessions : /\ new.buffer[s] = IF s \in gone THEN EmptyBuffer ELSE st.buffer[s]
                          /\ BufferOK(new.buffer[s])
                          /\ new.buffer[s].retained = IF s \in gone THEN 0 ELSE st.buffer[s].retained
  <2>1. \A s \in Sessions : new.buffer[s] = IF s \in gone THEN EmptyBuffer ELSE st.buffer[s]
    BY <1>2
  <2> QED BY <1>1, <1>3, <2>1
<1>5. R \subseteq Sessions /\ IsFiniteSet(R) /\ R \subseteq M
  BY <1>1, FS_Subset
<1>6. /\ RetainedBy(st, gone) \in Nat /\ RetainedBy(st, R) \in Nat
      /\ st.retained = RetainedBy(st, gone) + RetainedBy(st, R)
  <2>1. IsFiniteSet(gone) /\ Counted(st, gone) /\ Counted(st, R)
    BY <1>1, FS_Subset DEF Counted
  <2>2. RetainedBy(st, gone) \in Nat /\ RetainedBy(st, R) \in Nat
    <3> HIDE DEF R
    <3> QED BY <1>5, <2>1, RetainedByType
  <2>3. RetainedBy(st, M) = RetainedBy(st, gone) + RetainedBy(st, M \ gone)
    BY <1>1, RetainedByParts
  <2> QED BY <2>2, <2>3 DEF StoreOK
<1>7. new.retained = RetainedBy(st, R) /\ new.retained \in Nat /\ new.retained <= st.retained
  <2>1. ASSUME NEW x \in Nat, NEW y \in Nat, NEW z \in Nat, x = y + z
        PROVE  Minus(x, y) = z /\ z <= x
    <3>1. x >= y /\ x - y = z
      BY <2>1
    <3> QED BY <2>1, <3>1, MinusIs
  <2> HIDE DEF R
  <2> QED BY <1>1, <1>2, <1>6, <2>1
<1>8. RetainedBy(new, R) = RetainedBy(st, R)
  <2>1. Counted(st, R) /\ \A s \in R : new.buffer[s].retained = st.buffer[s].retained
    BY <1>1, <1>4, <1>5 DEF Counted
  <2> HIDE DEF R
  <2> QED BY <1>5, <2>1, RetainedBySame
<1>9. /\ new.recency \in Seq(Sessions) /\ IsInjective(new.recency)
      /\ ToSet(new.recency) = WithOutput(new, R)
  <2>1. IsInjective(st.recency) /\ ToSet(st.recency) = WithOutput(st, M)
    BY DEF StoreOK
  <2>2. /\ new.recency \in Seq(Sessions) /\ IsInjective(new.recency)
        /\ ToSet(new.recency) = ToSet(st.recency) \ gone
    BY <1>1, <1>2, <2>1, WithoutIs
  <2>3. WithOutput(st, M) \ gone = WithOutput(new, R)
    BY <1>1, <1>4 DEF WithOutput
  <2> QED BY <2>1, <2>2, <2>3, Zenon
<1>10. new \in Stores
  <2>1. new.buffer \in [Sessions -> Buffers]
    <3>1. \A s \in Sessions : new.buffer[s] \in Buffers
      BY <1>4 DEF BufferOK
    <3> QED BY <1>2, <1>4, <3>1
  <2> QED BY <1>2, <1>7, <1>9, <2>1 DEF Stores
<1>11. \A s \in Sessions \ R : new.buffer[s].retained = 0
  BY <1>4 DEF StoreOK
<1>12. new.retained = RetainedBy(new, R)
  BY <1>7, <1>8
<1>13. \A s \in Sessions : BufferOK(new.buffer[s])
  BY <1>4
<1>14. StoreOK(new, R)
  <2> HIDE DEF R
  <2> QED BY <1>5, <1>9, <1>10, <1>11, <1>12, <1>13, Zenon DEF StoreOK
<1> QED BY <1>2, <1>7, <1>14

-----------------------------------------------------------------------------
(* The inductive invariant.                                                 *)

Types ==
  /\ status \in [Sessions -> {"new", "managed", "forgotten"}]
  /\ ended \in Seq(Sessions) /\ running \in Nat
  /\ pending \in [Sessions -> [Streams -> {0, 1}]]
  /\ total \in [Sessions -> Nat]
  /\ fired \in [Sessions -> SUBSET {"error", "close"}]
  /\ waiter \in [Sessions -> {Idle, "output", "terminal", "woken"}]
  /\ cursor \in [Sessions -> Nat] /\ seen \in [Sessions -> SUBSET Nat]
  /\ touched \in Seq(Sessions) /\ events \in 0..MaxEvents

\* An ended session has had an event: it gets no more data.
Counts ==
  /\ IsFiniteSet(Managed) /\ CountsAreExact
  /\ \A s \in ToSet(ended) : fired[s] # {}

StoreFits == StoreOK(store, Managed) /\ store.retained <= MaxTotal

NoPending == [stdout |-> 0, stderr |-> 0]

Pending(p) == p.stdout + p.stderr

Accounts ==
  \A s \in Sessions :
    /\ store.buffer[s].retained <= MaxRetained
    /\ total[s] = (store.buffer[s].retained + store.buffer[s].dropped) + Pending(pending[s])
    /\ ~ IsRunning(s) => pending[s] = NoPending

\* What a client was sent, of a session that retains what follows base.
Sent(b, upTo, chunks) ==
  /\ \A q \in 1..upTo : q \in chunks \/ q < b.base
  /\ \A q \in chunks : q <= upTo
  /\ upTo < b.next

Cursors == \A s \in Sessions : Sent(store.buffer[s], cursor[s], seen[s])

IInv == Types /\ Counts /\ StoreFits /\ Accounts /\ Cursors /\ NoLostWakeup

LEMMA ContainsIs ==
  ASSUME NEW e \in Seq(Sessions), NEW s
  PROVE  Contains(e, s) <=> s \in ToSet(e)
BY DEF Contains, ToSet

LEMMA NoPendingIs ==
  /\ NoPending \in [Streams -> {0, 1}] /\ Pending(NoPending) = 0
  /\ \A p \in [Streams -> {0, 1}] : /\ p.stdout \in {0, 1} /\ p.stderr \in {0, 1}
                                    /\ p["stdout"] = p.stdout /\ p["stderr"] = p.stderr
BY DEF NoPending, Pending, Streams

\* The store, the accounts and the cursors of a session are those of its buffer.
AccountOK(b, bytes, p) == b.retained <= MaxRetained /\ bytes = (b.retained + b.dropped) + Pending(p)

LEMMA AccountOfNone ==
  AccountOK(EmptyBuffer, 0, NoPending) /\ Sent(EmptyBuffer, 0, {})
BY OutputAssumption, NoPendingIs DEF AccountOK, Sent, EmptyBuffer

LEMMA InitOK ==
  ASSUME Init
  PROVE  IInv
<1>1. Managed = {}
  BY DEF Init, Managed
<1>2. /\ store.buffer = [s \in Sessions |-> EmptyBuffer] /\ store.retained = 0 /\ store.recency = <<>>
      /\ store = [buffer |-> store.buffer, retained |-> store.retained, recency |-> store.recency]
  BY DEF Init
<1>3. BufferOK(EmptyBuffer) /\ EmptyBuffer \in Buffers /\ EmptyBuffer.retained = 0
  BY EmptyBufferOK DEF EmptyBuffer, BufferOK
<1>4. \A s \in Sessions : store.buffer[s] = EmptyBuffer
  BY <1>2
<1>5. Types
  <2>1. <<>> \in Seq(Sessions) /\ 0 \in 0..MaxEvents
    BY OutputAssumption, EmptySeq
  <2> QED BY <2>1, NoPendingIs DEF Init, Types, NoPending, Idle
<1>6. ToSet(<<>>) = {} /\ IsInjective(<<>>)
  BY DEF ToSet, IsInjective
<1>7. StoreFits
  <2>1. store \in Stores
    <3>1. store.buffer \in [Sessions -> Buffers] /\ store.recency \in Seq(Sessions) /\ store.retained \in Nat
      BY <1>2, <1>3, EmptySeq
    <3>2. ASSUME NEW x \in [Sessions -> Buffers], NEW y \in Nat, NEW z \in Seq(Sessions)
          PROVE  [buffer |-> x, retained |-> y, recency |-> z] \in Stores
      BY DEF Stores
    <3>3. [buffer |-> store.buffer, retained |-> store.retained, recency |-> store.recency] \in Stores
      BY <3>1, <3>2
    <3> QED BY <1>2, <3>3, Zenon
  <2>2. RetainedBy(store, {}) = 0
    BY RetainedByNone
  <2>3. WithOutput(store, {}) = {}
    BY DEF WithOutput
  <2>4. StoreOK(store, {})
    <3>1. \A s \in Sessions : BufferOK(store.buffer[s])
      BY <1>3, <1>4
    <3>2. \A s \in Sessions : store.buffer[s].retained = 0
      BY <1>3, <1>4
    <3>3. IsInjective(store.recency) /\ ToSet(store.recency) = WithOutput(store, {})
      BY <1>2, <1>6, <2>3
    <3> QED BY <1>2, <2>1, <2>2, <3>1, <3>2, <3>3, FS_EmptySet DEF StoreOK
  <2> QED BY <1>1, <1>2, <2>4, OutputAssumption DEF StoreFits
<1>8. Counts
  <2>1. ended = <<>> /\ running = 0
    BY DEF Init
  <2>2. {s \in Sessions : IsRunning(s)} = {}
    BY <1>1 DEF IsRunning
  <2>3. CountsAreExact
    <3>1. Cardinality({}) = 0
      BY FS_EmptySet
    <3>2. Cardinality(Managed) = 0 /\ Cardinality({s \in Sessions : IsRunning(s)}) = 0
      BY <1>1, <2>2, <3>1, Zenon
    <3>3. 0 <= MaxRunning /\ 0 <= MaxProcesses
      BY OutputAssumption
    <3>4. IsInjective(ended) /\ ToSet(ended) \subseteq Managed
      BY <1>6, <2>1
    <3> QED BY <2>1, <3>2, <3>3, <3>4 DEF CountsAreExact
  <2>4. \A s \in ToSet(ended) : fired[s] # {}
    BY <1>6, <2>1
  <2> QED BY <1>1, <2>3, <2>4, FS_EmptySet DEF Counts
<1>9. Accounts
  <2> SUFFICES ASSUME NEW s \in Sessions
               PROVE  AccountOK(store.buffer[s], total[s], pending[s]) /\ pending[s] = NoPending
    BY DEF Accounts, AccountOK
  <2>1. total[s] = 0 /\ pending[s] = NoPending
    BY DEF Init, NoPending
  <2> QED BY <1>4, <2>1, AccountOfNone
<1>10. Cursors
  <2> SUFFICES ASSUME NEW s \in Sessions PROVE Sent(store.buffer[s], cursor[s], seen[s])
    BY DEF Cursors
  <2>1. cursor[s] = 0 /\ seen[s] = {}
    BY DEF Init
  <2> QED BY <1>4, <2>1, AccountOfNone
<1>11. NoLostWakeup
  BY DEF Init, NoLostWakeup, Idle
<1> QED BY <1>5, <1>7, <1>8, <1>9, <1>10, <1>11 DEF IInv

LEMMA ForgetKeeps ==
  ASSUME IInv, NEW gone, gone \subseteq ToSet(ended), Forget(gone)
  PROVE  /\ gone \subseteq Managed
         /\ StoreOK(store', Managed \ gone) /\ store'.retained <= MaxTotal
         /\ ended' \in Seq(Sessions) /\ IsInjective(ended') /\ ToSet(ended') = ToSet(ended) \ gone
         /\ pending' \in [Sessions -> [Streams -> {0, 1}]] /\ total' \in [Sessions -> Nat]
         /\ fired' \in [Sessions -> SUBSET {"error", "close"}]
         /\ cursor' \in [Sessions -> Nat] /\ seen' \in [Sessions -> SUBSET Nat]
         /\ touched' \in Seq(Sessions)
         /\ \A s \in ToSet(ended') : fired'[s] # {}
         /\ \A s \in Sessions : AccountOK(store'.buffer[s], total'[s], pending'[s])
         /\ \A s \in Sessions : pending'[s] = IF s \in gone THEN NoPending ELSE pending[s]
         /\ Cursors'
         /\ \A s \in Sessions \ gone : cursor'[s] = cursor[s] /\ store'.buffer[s] = store.buffer[s]
<1>1. Types /\ Counts /\ StoreFits /\ Accounts /\ Cursors
  BY DEF IInv
<1>2. gone \subseteq Managed /\ IsInjective(ended)
  BY <1>1 DEF Counts, CountsAreExact
<1>3. /\ StoreOK(store', Managed \ gone) /\ store'.retained <= store.retained
      /\ store'.buffer = [s \in Sessions |-> IF s \in gone THEN EmptyBuffer ELSE store.buffer[s]]
  <2>1. StoreOK(store, Managed)
    BY <1>1 DEF StoreFits
  <2>2. store' = ForgetOutput(store, gone)
    BY DEF Forget
  <2> QED BY <1>2, <2>1, <2>2, ForgetOutputOK
<1>4. store'.retained <= MaxTotal
  <2>1. store'.retained \in Nat /\ store.retained \in Nat /\ store.retained <= MaxTotal /\ MaxTotal \in Nat
    BY <1>1, <1>3, StoreFields, OutputAssumption DEF StoreFits
  <2> QED BY <1>3, <2>1
<1>5. ended' \in Seq(Sessions) /\ IsInjective(ended') /\ ToSet(ended') = ToSet(ended) \ gone
  BY <1>1, <1>2, WithoutIs DEF Forget, Types
<1>6. touched' \in Seq(Sessions)
  BY <1>1, WithoutIs DEF Forget, Types
<1>7. /\ pending' = [s \in Sessions |-> IF s \in gone THEN NoPending ELSE pending[s]]
      /\ total' = [s \in Sessions |-> IF s \in gone THEN 0 ELSE total[s]]
      /\ fired' = [s \in Sessions |-> IF s \in gone THEN {} ELSE fired[s]]
      /\ cursor' = [s \in Sessions |-> IF s \in gone THEN 0 ELSE cursor[s]]
      /\ seen' = [s \in Sessions |-> IF s \in gone THEN {} ELSE seen[s]]
  BY DEF Forget, NoPending
<1>8. /\ pending' \in [Sessions -> [Streams -> {0, 1}]] /\ total' \in [Sessions -> Nat]
      /\ fired' \in [Sessions -> SUBSET {"error", "close"}]
      /\ cursor' \in [Sessions -> Nat] /\ seen' \in [Sessions -> SUBSET Nat]
  BY <1>1, <1>7, NoPendingIs DEF Types
<1>9. \A s \in ToSet(ended') : fired'[s] # {}
  <2> SUFFICES ASSUME NEW s \in ToSet(ended') PROVE fired'[s] # {}
    OBVIOUS
  <2>1. s \in ToSet(ended) /\ s \notin gone /\ fired[s] # {}
    BY <1>1, <1>5 DEF Counts
  <2>2. s \in Sessions
    BY <1>1, <2>1 DEF Counts, CountsAreExact, Managed
  <2> QED BY <1>7, <2>1, <2>2
<1>10. ASSUME NEW s \in Sessions
       PROVE  /\ AccountOK(store'.buffer[s], total'[s], pending'[s])
              /\ Sent(store'.buffer[s], cursor'[s], seen'[s])
              /\ pending'[s] = IF s \in gone THEN NoPending ELSE pending[s]
              /\ s \notin gone => cursor'[s] = cursor[s] /\ store'.buffer[s] = store.buffer[s]
  <2>1. CASE s \in gone
    <3>1. /\ store'.buffer[s] = EmptyBuffer /\ total'[s] = 0 /\ pending'[s] = NoPending
          /\ cursor'[s] = 0 /\ seen'[s] = {}
      BY <1>3, <1>7, <2>1
    <3> QED BY <2>1, <3>1, AccountOfNone
  <2>2. CASE s \notin gone
    <3>1. /\ store'.buffer[s] = store.buffer[s] /\ total'[s] = total[s] /\ pending'[s] = pending[s]
          /\ cursor'[s] = cursor[s] /\ seen'[s] = seen[s]
      BY <1>3, <1>7, <2>2
    <3>2. AccountOK(store.buffer[s], total[s], pending[s]) /\ Sent(store.buffer[s], cursor[s], seen[s])
      BY <1>1 DEF Accounts, AccountOK, Cursors
    <3> QED BY <2>2, <3>1, <3>2
  <2> QED BY <2>1, <2>2
<1>11. Cursors'
  BY <1>10 DEF Cursors
<1> QED BY <1>2, <1>3, <1>4, <1>5, <1>6, <1>8, <1>9, <1>10, <1>11

LEMMA StoreWithAnother ==
  ASSUME NEW st, NEW M, StoreOK(st, M), NEW s \in Sessions \ M
  PROVE  StoreOK(st, M \cup {s})
<1> DEFINE N == M \cup {s}
<1>1. M \subseteq Sessions /\ IsFiniteSet(M) /\ st.buffer[s].retained = 0 /\ st.retained \in Nat
  BY StoreFields DEF StoreOK
<1>2. N \subseteq Sessions /\ IsFiniteSet(N) /\ s \in N /\ M = N \ {s}
  BY <1>1, FS_AddElement
<1>3. Counted(st, N)
  BY <1>2, StoreFields DEF Counted
<1>4. \A t \in Sessions \ N : st.buffer[t].retained = 0
  BY DEF StoreOK
<1>5. WithOutput(st, N) = WithOutput(st, M)
  BY <1>1 DEF WithOutput
<1> HIDE DEF N
<1>6. st.retained = RetainedBy(st, N)
  <2>1. RetainedBy(st, N) = st.buffer[s].retained + RetainedBy(st, M)
    BY <1>2, <1>3, RetainedByRest
  <2>2. RetainedBy(st, M) = st.retained
    BY DEF StoreOK
  <2> QED BY <1>1, <2>1, <2>2
<1>7. StoreOK(st, N)
  BY <1>2, <1>4, <1>5, <1>6, Zenon DEF StoreOK
<1> QED BY <1>7 DEF N

RunningSet == {s \in Sessions : IsRunning(s)}

LEMMA RunningSetIs ==
  ASSUME IInv
  PROVE  /\ RunningSet = Managed \ ToSet(ended)
         /\ \A s : IsRunning(s) <=> s \in RunningSet
         /\ IsFiniteSet(RunningSet) /\ running = Cardinality(RunningSet)
<1>1. ended \in Seq(Sessions) /\ IsFiniteSet(Managed) /\ running = Cardinality(RunningSet)
  BY DEF IInv, Types, Counts, CountsAreExact, RunningSet
<1>2. \A s : Contains(ended, s) <=> s \in ToSet(ended)
  BY <1>1, ContainsIs
<1>3. Managed \subseteq Sessions
  BY DEF Managed
<1>4. RunningSet = Managed \ ToSet(ended) /\ \A s : IsRunning(s) <=> s \in RunningSet
  BY <1>2, <1>3 DEF RunningSet, IsRunning
<1>5. IsFiniteSet(Managed \ ToSet(ended))
  BY <1>1, FS_Difference
<1> QED BY <1>1, <1>4, <1>5

LEMMA RunningSetNext ==
  ASSUME ended' \in Seq(Sessions)
  PROVE  /\ RunningSet' = Managed' \ ToSet(ended')
         /\ \A s : IsRunning(s)' <=> s \in RunningSet'
<1>1. \A s : Contains(ended', s) <=> s \in ToSet(ended')
  BY ContainsIs
<1>2. Managed' \subseteq Sessions
  BY DEF Managed
<1> QED BY <1>1, <1>2 DEF RunningSet, IsRunning

\* Sessions are forgotten, and perhaps one is started.
LEMMA AdmissionKeeps ==
  ASSUME IInv, NEW gone, gone \subseteq ToSet(ended), Forget(gone),
         status' \in [Sessions -> {"new", "managed", "forgotten"}],
         NEW new, \/ new = {} /\ running' = running
                  \/ /\ \E s \in Sessions : status[s] = "new" /\ new = {s}
                     /\ Admitted(gone) /\ running' = running + 1,
         Managed' = (Managed \ gone) \cup new,
         waiter' = waiter, events' = events
  PROVE  IInv'
<1> DEFINE M == Managed \ gone
           R == RunningSet
<1>0. Types /\ Counts /\ NoLostWakeup
  BY DEF IInv
<1>1. /\ gone \subseteq Managed
      /\ StoreOK(store', M) /\ store'.retained <= MaxTotal
      /\ ended' \in Seq(Sessions) /\ IsInjective(ended') /\ ToSet(ended') = ToSet(ended) \ gone
      /\ \A s \in ToSet(ended') : fired'[s] # {}
      /\ \A s \in Sessions : AccountOK(store'.buffer[s], total'[s], pending'[s])
      /\ \A s \in Sessions : pending'[s] = IF s \in gone THEN NoPending ELSE pending[s]
      /\ Cursors'
      /\ \A s \in Sessions \ gone : cursor'[s] = cursor[s] /\ store'.buffer[s] = store.buffer[s]
  BY ForgetKeeps, Zenon
<1>2. /\ pending' \in [Sessions -> [Streams -> {0, 1}]] /\ total' \in [Sessions -> Nat]
      /\ fired' \in [Sessions -> SUBSET {"error", "close"}]
      /\ cursor' \in [Sessions -> Nat] /\ seen' \in [Sessions -> SUBSET Nat]
      /\ touched' \in Seq(Sessions)
  BY ForgetKeeps, Zenon
<1>3. /\ ToSet(ended) \subseteq Managed /\ IsFiniteSet(Managed) /\ IsFiniteSet(M)
      /\ Cardinality(M) \in Nat /\ Cardinality(M) <= Cardinality(Managed) /\ Cardinality(Managed) \in Nat
  <2>1. ToSet(ended) \subseteq Managed /\ IsFiniteSet(Managed)
    BY <1>0 DEF Counts, CountsAreExact
  <2> QED BY <2>1, FS_Subset, FS_CardinalityType
<1>4. /\ R = Managed \ ToSet(ended) /\ IsFiniteSet(R) /\ running = Cardinality(R)
      /\ \A s : IsRunning(s) <=> s \in R
  BY RunningSetIs
<1>5. RunningSet' = Managed' \ ToSet(ended') /\ \A s : IsRunning(s)' <=> s \in RunningSet'
  BY <1>1, RunningSetNext
<1>6. new \cap Managed = {}
  BY DEF Managed
<1>7. RunningSet' = R \cup new
  BY <1>1, <1>3, <1>4, <1>5, <1>6
<1> HIDE DEF R, M
<1>8. Types'
  <2>1. running' \in Nat
    BY <1>0 DEF Types
  <2> QED BY <1>0, <1>1, <1>2, <2>1 DEF Types
<1>9. /\ IsFiniteSet(M \cup new) /\ Cardinality(M \cup new) <= MaxProcesses
      /\ running' = Cardinality(R \cup new) /\ running' <= MaxRunning
      /\ StoreOK(store', M \cup new)
  <2>1. /\ Cardinality(Managed) <= MaxProcesses /\ running <= MaxRunning /\ running \in Nat
        /\ MaxProcesses \in Nat /\ MaxRunning \in Nat
    BY <1>0, OutputAssumption DEF Types, Counts, CountsAreExact
  <2>2. CASE new = {} /\ running' = running
    <3>1. M \cup new = M /\ R \cup new = R
      BY <2>2
    <3>2. Cardinality(M) <= MaxProcesses
      BY <1>3, <2>1
    <3> QED BY <1>1, <1>3, <1>4, <2>1, <2>2, <3>1, <3>2, Zenon
  <2>3. CASE /\ \E s \in Sessions : status[s] = "new" /\ new = {s}
             /\ Admitted(gone) /\ running' = running + 1
    <3>1. PICK s \in Sessions : status[s] = "new" /\ new = {s}
      BY <2>3
    <3>2. s \notin M /\ s \notin R
      BY <1>4, <1>6, <3>1 DEF M
    <3>3. Cardinality(M) < MaxProcesses /\ running < MaxRunning
      BY <2>3 DEF Admitted, M
    <3>4. IsFiniteSet(M \cup {s}) /\ Cardinality(M \cup {s}) = Cardinality(M) + 1
      BY <1>3, <3>2, FS_AddElement
    <3>5. Cardinality(R \cup {s}) = Cardinality(R) + 1
      BY <1>4, <3>2, FS_AddElement
    <3>6. StoreOK(store', M \cup {s})
      BY <1>1, <3>2, StoreWithAnother
    <3>7. Cardinality(M \cup {s}) <= MaxProcesses /\ running' <= MaxRunning /\ running' = Cardinality(R \cup {s})
      BY <1>3, <1>4, <2>1, <2>3, <3>3, <3>4, <3>5
    <3> QED BY <3>1, <3>4, <3>6, <3>7, Zenon
  <2> QED BY <2>2, <2>3
<1>10. Counts'
  <2>1. Managed' = M \cup new
    BY DEF M
  <2>2. ToSet(ended') \subseteq Managed'
    BY <1>1, <1>3, <2>1 DEF M
  <2>3. running' = Cardinality(RunningSet')
    BY <1>7, <1>9, Zenon
  <2>4. CountsAreExact'
    BY <1>1, <1>9, <2>1, <2>2, <2>3, Zenon DEF CountsAreExact, RunningSet
  <2> QED BY <1>1, <1>9, <2>1, <2>4 DEF Counts
<1>11. StoreFits'
  <2>1. Managed' = M \cup new
    BY DEF M
  <2> QED BY <1>1, <1>9, <2>1, Zenon DEF StoreFits
<1>12. Accounts'
  <2> SUFFICES ASSUME NEW s \in Sessions
               PROVE  /\ AccountOK(store'.buffer[s], total'[s], pending'[s])
                      /\ ~ IsRunning(s)' => pending'[s] = NoPending
    BY DEF Accounts, AccountOK
  <2>1. s \notin RunningSet' => s \notin R
    BY <1>7
  <2>2. s \notin R => pending[s] = NoPending
    BY <1>4 DEF IInv, Accounts
  <2> QED BY <1>1, <1>5, <2>1, <2>2
<1>13. NoLostWakeup'
  <2> SUFFICES ASSUME NEW s \in Sessions
               PROVE  /\ waiter[s] \in {"output", "terminal"} => IsRunning(s)'
                      /\ waiter[s] = "output" => store'.buffer[s].next - 1 <= cursor'[s]
    BY DEF NoLostWakeup
  <2>1. CASE waiter[s] \in {"output", "terminal"}
    <3>1. s \in R /\ (waiter[s] = "output" => store.buffer[s].next - 1 <= cursor[s])
      BY <1>0, <1>4, <2>1 DEF NoLostWakeup
    <3>2. s \notin gone
      BY <1>4, <3>1
    <3> QED BY <1>1, <1>5, <1>7, <3>1, <3>2
  <2>2. CASE waiter[s] \notin {"output", "terminal"}
    BY <2>2
  <2> QED BY <2>1, <2>2
<1> QED BY <1>1, <1>8, <1>10, <1>11, <1>12, <1>13 DEF IInv

LEMMA OldestIs ==
  ASSUME NEW n \in 0..Len(ended), ended \in Seq(Sessions)
  PROVE  Oldest(n) \subseteq ToSet(ended)
BY DEF Oldest, ToSet

LEMMA PruneKeeps ==
  ASSUME IInv, Prune
  PROVE  IInv'
<1>1. PICK expired \in 1..Len(ended) :
        /\ Forget(Oldest(expired))
        /\ status' = [t \in Sessions |-> IF t \in Oldest(expired) THEN "forgotten" ELSE status[t]]
  BY DEF Prune
<1> DEFINE gone == Oldest(expired)
<1>2. ended \in Seq(Sessions) /\ status \in [Sessions -> {"new", "managed", "forgotten"}]
  BY DEF IInv, Types
<1>3. gone \subseteq ToSet(ended)
  BY <1>2, OldestIs
<1>4. running' = running /\ waiter' = waiter /\ events' = events
  BY DEF Prune
<1> HIDE DEF gone
<1>5. status' = [t \in Sessions |-> IF t \in gone THEN "forgotten" ELSE status[t]]
  BY <1>1 DEF gone
<1>6. status' \in [Sessions -> {"new", "managed", "forgotten"}]
  BY <1>2, <1>5
<1>7. Managed' = (Managed \ gone) \cup {}
  BY <1>5 DEF Managed
<1>8. Forget(gone)
  BY <1>1 DEF gone
<1> QED BY <1>3, <1>4, <1>6, <1>7, <1>8, AdmissionKeeps

LEMMA StartKeeps ==
  ASSUME IInv, NEW s \in Sessions, Start(s)
  PROVE  IInv'
<1>1. PICK expired \in 0..Len(ended) :
        /\ Forget(Evicted(expired))
        /\ status' = [t \in Sessions |-> IF t \in Evicted(expired) THEN "forgotten"
                                         ELSE IF t = s /\ Admitted(Evicted(expired)) THEN "managed"
                                         ELSE status[t]]
        /\ running' = IF Admitted(Evicted(expired)) THEN running + 1 ELSE running
  BY DEF Start
<1> DEFINE gone == Evicted(expired)
<1>2. /\ ended \in Seq(Sessions) /\ Len(ended) \in Nat
      /\ status \in [Sessions -> {"new", "managed", "forgotten"}]
      /\ ToSet(ended) \subseteq Managed /\ IsFiniteSet(Managed)
  <2>1. ended \in Seq(Sessions)
    BY DEF IInv, Types
  <2> QED BY <2>1, LenProperties DEF IInv, Types, Counts, CountsAreExact
<1>3. gone \subseteq ToSet(ended)
  <2> DEFINE needed == Minus(Cardinality(Managed) + 1, MaxProcesses)
             wanted == Max({expired, needed})
             n == Min({Len(ended), wanted})
  <2>1. needed \in Nat
    <3>1. Cardinality(Managed) + 1 \in Int /\ MaxProcesses \in Int
      BY <1>2, FS_CardinalityType, OutputAssumption
    <3> QED BY <3>1, MinusIs
  <2> HIDE DEF needed
  <2>2. expired \in Int /\ expired >= 0
    BY <1>2
  <2>3. wanted = IF expired >= needed THEN expired ELSE needed
    BY <2>1, <2>2, MaxOfTwo
  <2>4. wanted \in Nat
    BY <2>1, <2>2, <2>3
  <2> HIDE DEF wanted
  <2>5. n = IF Len(ended) <= wanted THEN Len(ended) ELSE wanted
    BY <1>2, <2>4, MinOfTwo
  <2>6. n \in 0..Len(ended)
    BY <1>2, <2>4, <2>5
  <2>7. gone = Oldest(n)
    BY DEF Evicted, needed, wanted
  <2> HIDE DEF n, gone
  <2> QED BY <1>2, <2>6, <2>7, OldestIs
<1>4. status[s] = "new" /\ waiter' = waiter /\ events' = events
  BY DEF Start
<1>5. s \notin gone
  BY <1>2, <1>3, <1>4 DEF Managed
<1> HIDE DEF gone
<1>6. /\ status' = [t \in Sessions |-> IF t \in gone THEN "forgotten"
                                       ELSE IF t = s /\ Admitted(gone) THEN "managed" ELSE status[t]]
      /\ running' = IF Admitted(gone) THEN running + 1 ELSE running
      /\ Forget(gone)
  BY <1>1 DEF gone
<1>7. status' \in [Sessions -> {"new", "managed", "forgotten"}]
  BY <1>2, <1>6
<1>8. CASE Admitted(gone)
  <2>1. Managed' = (Managed \ gone) \cup {s}
    BY <1>5, <1>6, <1>8 DEF Managed
  <2>2. running' = running + 1 /\ \E t \in Sessions : status[t] = "new" /\ {s} = {t}
    BY <1>4, <1>6, <1>8
  <2> QED BY <1>3, <1>4, <1>6, <1>7, <1>8, <2>1, <2>2, AdmissionKeeps
<1>9. CASE ~ Admitted(gone)
  <2>1. Managed' = (Managed \ gone) \cup {}
    BY <1>6, <1>9 DEF Managed
  <2>2. running' = running
    BY <1>6, <1>9
  <2> QED BY <1>3, <1>4, <1>6, <1>7, <2>1, <2>2, AdmissionKeeps
<1> QED BY <1>8, <1>9

\* What n more units of the output of s do to the sessions.
LEMMA OutputKeeps ==
  ASSUME IInv, NEW s \in Managed, NEW n \in Nat, NEW new, StoreOK(new, Managed), Follows(new, store, s, n),
         new.buffer[s].retained <= MaxRetained
  PROVE  \A t \in Sessions :
           /\ new.buffer[t].retained <= MaxRetained
           /\ new.buffer[t].retained \in Nat /\ new.buffer[t].dropped \in Nat
           /\ store.buffer[t].retained \in Nat /\ store.buffer[t].dropped \in Nat
           /\ new.buffer[t].retained + new.buffer[t].dropped
                = (store.buffer[t].retained + store.buffer[t].dropped) + (IF t = s THEN n ELSE 0)
           /\ Sent(new.buffer[t], cursor[t], seen[t])
           /\ t # s => new.buffer[t].next = store.buffer[t].next
<1> SUFFICES ASSUME NEW t \in Sessions
             PROVE  /\ new.buffer[t].retained <= MaxRetained
                    /\ new.buffer[t].retained \in Nat /\ new.buffer[t].dropped \in Nat
                    /\ store.buffer[t].retained \in Nat /\ store.buffer[t].dropped \in Nat
                    /\ new.buffer[t].retained + new.buffer[t].dropped
                         = (store.buffer[t].retained + store.buffer[t].dropped) + (IF t = s THEN n ELSE 0)
                    /\ Sent(new.buffer[t], cursor[t], seen[t])
                    /\ t # s => new.buffer[t].next = store.buffer[t].next
  OBVIOUS
<1>1. StoreOK(store, Managed)
  BY DEF IInv, StoreFits
<1>2. /\ new.buffer[t].retained \in Nat /\ new.buffer[t].dropped \in Nat
      /\ new.buffer[t].base \in Nat /\ new.buffer[t].next \in Nat
      /\ store.buffer[t].retained \in Nat /\ store.buffer[t].dropped \in Nat
      /\ store.buffer[t].base \in Nat /\ store.buffer[t].next \in Nat
  BY <1>1, StoreFields
<1>3. BufferFollows(new.buffer[t], store.buffer[t], IF t = s THEN n ELSE 0)
  BY DEF Follows
<1>4. new.buffer[t].retained <= MaxRetained
  <2>1. CASE t = s
    BY <2>1
  <2>2. CASE t # s
    <3>1. BufferFollows(new.buffer[t], store.buffer[t], 0)
      BY <1>3, <2>2
    <3>2. new.buffer[t].retained <= store.buffer[t].retained
      BY <3>1 DEF BufferFollows
    <3>3. store.buffer[t].retained <= MaxRetained /\ MaxRetained \in Nat
      BY OutputAssumption DEF IInv, Accounts
    <3> QED BY <1>2, <3>2, <3>3
  <2> QED BY <2>1, <2>2
<1>5. Sent(new.buffer[t], cursor[t], seen[t])
  <2>1. Sent(store.buffer[t], cursor[t], seen[t]) /\ cursor[t] \in Nat
    BY DEF IInv, Cursors, Types
  <2>2. new.buffer[t].base >= store.buffer[t].base /\ new.buffer[t].next >= store.buffer[t].next
    BY <1>3 DEF BufferFollows
  <2>3. \A q \in 1..cursor[t] : q < store.buffer[t].base => q < new.buffer[t].base
    BY <1>2, <2>1, <2>2
  <2>4. cursor[t] < new.buffer[t].next
    BY <1>2, <2>1, <2>2 DEF Sent
  <2> QED BY <2>1, <2>3, <2>4 DEF Sent
<1>6. t # s => new.buffer[t].next = store.buffer[t].next
  BY <1>3 DEF BufferFollows
<1>7. new.buffer[t].retained + new.buffer[t].dropped
        = (store.buffer[t].retained + store.buffer[t].dropped) + (IF t = s THEN n ELSE 0)
  BY <1>3 DEF BufferFollows
<1> QED BY <1>2, <1>4, <1>5, <1>6, <1>7

LEMMA TouchedLastIs ==
  ASSUME touched \in Seq(Sessions), NEW s \in Sessions
  PROVE  TouchedLast(s) \in Seq(Sessions)
<1>1. Without(touched, {s}) \in Seq(Sessions)
  BY WithoutIs
<1> QED BY <1>1, AppendProperties DEF TouchedLast

LEMMA WokenIs ==
  ASSUME waiter \in [Sessions -> {Idle, "output", "terminal", "woken"}], NEW s \in Sessions, NEW waits
  PROVE  /\ Woken(s, waits) \in [Sessions -> {Idle, "output", "terminal", "woken"}]
         /\ \A t \in Sessions : t # s => Woken(s, waits)[t] = waiter[t]
         /\ Woken(s, waits)[s] = IF waiter[s] \in waits THEN "woken" ELSE waiter[s]
BY DEF Woken

LEMMA DataKeeps ==
  ASSUME IInv, NEW s \in Sessions, NEW stream \in Streams, NEW size \in EventSizes, Data(s, stream, size)
  PROVE  IInv'
<1>0. Types /\ Counts /\ StoreFits /\ Accounts /\ NoLostWakeup
  BY DEF IInv
<1>1. /\ s \in Managed /\ fired[s] = {} /\ events < MaxEvents /\ events' = events + 1
      /\ total' = [total EXCEPT ![s] = @ + size]
      /\ touched' = TouchedLast(s) /\ waiter' = Woken(s, {"output"})
      /\ status' = status /\ ended' = ended /\ running' = running /\ fired' = fired
      /\ cursor' = cursor /\ seen' = seen
  BY DEF Data
<1>2. PICK tail \in {0, 1} :
        /\ pending' = [pending EXCEPT ![s][stream] = tail]
        /\ store' = TrimRetained(Stored(store, s, Split(pending[s][stream] + size - tail)), s)
  BY DEF Data
<1> DEFINE p == pending[s]
           n == p[stream] + size - tail
<1>3. size \in Nat /\ size >= 1 /\ p \in [Streams -> {0, 1}] /\ p[stream] \in {0, 1}
  BY <1>0, OutputAssumption DEF Types
<1>4. n \in Nat /\ n + tail = p[stream] + size
  BY <1>3
<1>5. /\ pending'[s] = [p EXCEPT ![stream] = tail]
      /\ \A t \in Sessions : t # s => pending'[t] = pending[t]
      /\ pending' \in [Sessions -> [Streams -> {0, 1}]]
  BY <1>0, <1>2 DEF Types
<1>6. Pending(pending'[s]) + n = Pending(p) + size
  <2>1. /\ p.stdout \in {0, 1} /\ p.stderr \in {0, 1}
        /\ p["stdout"] = p.stdout /\ p["stderr"] = p.stderr
    BY <1>3, NoPendingIs
  <2> DEFINE r == [p EXCEPT ![stream] = tail]
  <2>2. r \in [Streams -> {0, 1}] /\ r[stream] = tail /\ \A x \in Streams : x # stream => r[x] = p[x]
    BY <1>3
  <2> HIDE DEF r
  <2>3. r["stdout"] = r.stdout /\ r["stderr"] = r.stderr
    BY <2>2, NoPendingIs
  <2>4. Pending(r) + p[stream] = Pending(p) + tail
    <3>1. CASE stream = "stdout"
      <4>1. r.stdout = tail /\ r.stderr = p.stderr /\ p[stream] = p.stdout
        BY <2>1, <2>2, <2>3, <3>1 DEF Streams
      <4>2. \A x, y, z \in {0, 1} : (z + y) + x = (x + y) + z
        OBVIOUS
      <4> QED BY <2>1, <4>1, <4>2 DEF Pending
    <3>2. CASE stream = "stderr"
      <4>1. r.stderr = tail /\ r.stdout = p.stdout /\ p[stream] = p.stderr
        BY <2>1, <2>2, <2>3, <3>2 DEF Streams
      <4>2. \A x, y, z \in {0, 1} : (x + z) + y = (x + y) + z
        OBVIOUS
      <4> QED BY <2>1, <4>1, <4>2 DEF Pending
    <3> QED BY <3>1, <3>2 DEF Streams
  <2>5. Pending(r) \in Nat /\ Pending(p) \in Nat
    BY <2>1, <2>2, NoPendingIs DEF Pending
  <2>6. \A x, y, z, w \in Nat : x + z = y + tail /\ w + tail = z + size => x + w = y + size
    BY <1>3
  <2>7. p[stream] \in Nat
    BY <1>3
  <2> HIDE DEF p, n
  <2> QED BY <1>4, <1>5, <2>4, <2>5, <2>6, <2>7 DEF r
<1> HIDE DEF n
<1>7. /\ StoreOK(store', Managed) /\ Follows(store', store, s, n)
      /\ store'.retained <= MaxTotal /\ store'.buffer[s].retained <= MaxRetained
  <2> DEFINE x == Stored(store, s, Split(n))
  <2>1. StoreOK(store, Managed)
    BY <1>0 DEF StoreFits
  <2>2. StoreOK(x, Managed) /\ Follows(x, store, s, n)
    BY <1>1, <1>4, <2>1, StoredFollows
  <2>3. store' = TrimRetained(x, s)
    BY <1>2 DEF n
  <2> HIDE DEF x
  <2>4. /\ StoreOK(store', Managed) /\ Follows(store', x, s, 0)
        /\ store'.retained <= MaxTotal /\ store'.buffer[s].retained <= MaxRetained
    BY <1>1, <2>2, <2>3, TrimRetainedOK
  <2>5. Follows(store', store, s, n + 0)
    BY <1>4, <2>1, <2>2, <2>4, StoresFollow
  <2> QED BY <1>4, <2>4, <2>5
<1>8. \A t \in Sessions :
        /\ store'.buffer[t].retained <= MaxRetained
        /\ store'.buffer[t].retained \in Nat /\ store'.buffer[t].dropped \in Nat
        /\ store.buffer[t].retained \in Nat /\ store.buffer[t].dropped \in Nat
        /\ store'.buffer[t].retained + store'.buffer[t].dropped
             = (store.buffer[t].retained + store.buffer[t].dropped) + (IF t = s THEN n ELSE 0)
        /\ Sent(store'.buffer[t], cursor[t], seen[t])
        /\ t # s => store'.buffer[t].next = store.buffer[t].next
  BY <1>1, <1>4, <1>7, OutputKeeps
<1>9. Types'
  <2>1. touched' \in Seq(Sessions)
    BY <1>0, <1>1, TouchedLastIs DEF Types
  <2>2. waiter' \in [Sessions -> {Idle, "output", "terminal", "woken"}]
    BY <1>0, <1>1, WokenIs DEF Types
  <2>3. total' \in [Sessions -> Nat]
    BY <1>0, <1>1, <1>3 DEF Types
  <2>4. events' \in 0..MaxEvents
    BY <1>0, <1>1, OutputAssumption DEF Types
  <2> QED BY <1>0, <1>1, <1>5, <2>1, <2>2, <2>3, <2>4 DEF Types
<1>10. Managed' = Managed /\ \A t : IsRunning(t)' <=> IsRunning(t)
  BY <1>1 DEF Managed, IsRunning
<1>11. Counts'
  BY <1>0, <1>1 DEF Counts, CountsAreExact, Managed, IsRunning
<1>12. StoreFits'
  BY <1>7, <1>10, Zenon DEF StoreFits
<1>13. Accounts'
  <2> SUFFICES ASSUME NEW t \in Sessions
               PROVE  /\ store'.buffer[t].retained <= MaxRetained
                      /\ total'[t] = (store'.buffer[t].retained + store'.buffer[t].dropped) + Pending(pending'[t])
                      /\ ~ IsRunning(t)' => pending'[t] = NoPending
    BY DEF Accounts
  <2>1. total[t] = (store.buffer[t].retained + store.buffer[t].dropped) + Pending(pending[t])
    BY <1>0 DEF Accounts
  <2>2. CASE t = s
    <3>1. IsRunning(s)
      <4>1. s \notin ToSet(ended)
        BY <1>0, <1>1 DEF Counts
      <4>2. ended \in Seq(Sessions)
        BY <1>0 DEF Types
      <4> QED BY <1>1, <4>1, <4>2, ContainsIs DEF IsRunning
    <3>2. total'[s] = total[s] + size
      BY <1>0, <1>1 DEF Types
    <3>3. \A a, b, x, y \in Nat : x + n = y + size /\ b = a + n => (a + y) + size = b + x
      BY <1>3, <1>4
    <3>4. Pending(p) \in Nat /\ Pending(pending'[s]) \in Nat
      <4>1. pending'[s] \in [Streams -> {0, 1}]
        BY <1>5
      <4> HIDE DEF p
      <4> QED BY <1>3, <4>1, NoPendingIs DEF Pending
    <3> DEFINE a == store.buffer[s].retained + store.buffer[s].dropped
               b == store'.buffer[s].retained + store'.buffer[s].dropped
    <3>5. a \in Nat /\ b \in Nat /\ b = a + n
      BY <1>8
    <3>6. total[s] = a + Pending(p)
      BY <2>1, <2>2
    <3> HIDE DEF a, b, p
    <3>7. total'[s] = b + Pending(pending'[s])
      BY <1>6, <3>2, <3>3, <3>4, <3>5, <3>6
    <3> QED BY <1>8, <1>10, <2>2, <3>1, <3>7 DEF b
  <2>3. CASE t # s
    <3>1. total'[t] = total[t] /\ pending'[t] = pending[t]
      BY <1>0, <1>1, <1>5, <2>3 DEF Types
    <3>2. store'.buffer[t].retained + store'.buffer[t].dropped
            = store.buffer[t].retained + store.buffer[t].dropped
      BY <1>8, <2>3
    <3>3. ~ IsRunning(t) => pending[t] = NoPending
      BY <1>0 DEF Accounts
    <3> QED BY <1>8, <1>10, <2>1, <3>1, <3>2, <3>3
  <2> QED BY <2>2, <2>3
<1>14. Cursors'
  BY <1>1, <1>8 DEF Cursors
<1>15. NoLostWakeup'
  <2> SUFFICES ASSUME NEW t \in Sessions
               PROVE  /\ waiter'[t] \in {"output", "terminal"} => IsRunning(t)'
                      /\ waiter'[t] = "output" => store'.buffer[t].next - 1 <= cursor'[t]
    BY DEF NoLostWakeup
  <2>1. /\ waiter[t] \in {"output", "terminal"} => IsRunning(t)
        /\ waiter[t] = "output" => store.buffer[t].next - 1 <= cursor[t]
    BY <1>0 DEF NoLostWakeup
  <2>2. CASE t = s
    <3>1. waiter'[t] = IF waiter[t] = "output" THEN "woken" ELSE waiter[t]
      BY <1>0, <1>1, <2>2, WokenIs DEF Types
    <3> QED BY <1>10, <2>1, <3>1
  <2>3. CASE t # s
    <3>1. waiter'[t] = waiter[t]
      BY <1>0, <1>1, <2>3, WokenIs DEF Types
    <3> QED BY <1>1, <1>8, <1>10, <2>1, <2>3, <3>1
  <2> QED BY <2>2, <2>3
<1> QED BY <1>9, <1>11, <1>12, <1>13, <1>14, <1>15 DEF IInv

LEMMA FinishKeeps ==
  ASSUME IInv, NEW s \in Sessions, NEW event \in {"error", "close"}, Finish(s, event)
  PROVE  IInv'
<1>0. Types /\ Counts /\ StoreFits /\ Accounts /\ Cursors /\ NoLostWakeup
  BY DEF IInv
<1>1. /\ s \in Managed /\ fired' = [fired EXCEPT ![s] = @ \cup {event}]
      /\ status' = status /\ total' = total /\ cursor' = cursor /\ seen' = seen /\ events' = events
  BY DEF Finish
<1>2. /\ fired' \in [Sessions -> SUBSET {"error", "close"}]
      /\ fired'[s] # {} /\ \A t \in Sessions : t # s => fired'[t] = fired[t]
  BY <1>0, <1>1 DEF Types
<1>3. Managed' = Managed /\ ToSet(ended) \subseteq Managed /\ Managed \subseteq Sessions
  BY <1>0, <1>1 DEF Managed, Counts, CountsAreExact
<1>4. ended \in Seq(Sessions) /\ (Contains(ended, s) <=> s \in ToSet(ended))
  BY <1>0, ContainsIs DEF Types
<1>5. CASE AlreadyEnded(s)
  <2>1. /\ ended' = ended /\ running' = running /\ store' = store /\ pending' = pending
        /\ touched' = touched /\ waiter' = waiter
    BY <1>5 DEF Finish
  <2>2. \A t : IsRunning(t)' <=> IsRunning(t)
    BY <1>3, <2>1 DEF IsRunning
  <2>3. Types'
    BY <1>0, <1>1, <1>2, <2>1 DEF Types
  <2>4. Counts'
    <3>1. \A t \in ToSet(ended) : fired'[t] # {}
      BY <1>0, <1>2, <1>3 DEF Counts
    <3>2. CountsAreExact'
      BY <1>0, <1>3, <2>1, <2>2 DEF Counts, CountsAreExact
    <3> QED BY <1>0, <1>3, <2>1, <3>1, <3>2 DEF Counts
  <2>5. StoreFits'
    BY <1>0, <1>3, <2>1, Zenon DEF StoreFits
  <2>6. Accounts' /\ Cursors' /\ NoLostWakeup'
    BY <1>0, <1>1, <2>1, <2>2 DEF Accounts, Cursors, NoLostWakeup
  <2> QED BY <2>3, <2>4, <2>5, <2>6 DEF IInv
<1>6. CASE ~ AlreadyEnded(s)
  <2>1. /\ store' = FlushPending(store, s)
        /\ pending' = [pending EXCEPT ![s] = NoPending]
        /\ ended' = Append(ended, s) /\ running' = Minus(running, 1)
        /\ touched' = TouchedLast(s) /\ waiter' = Woken(s, {"output", "terminal"})
    BY <1>6 DEF Finish, NoPending
  <2> DEFINE n == pending[s].stdout + pending[s].stderr
  <2>2. pending[s].stdout \in Nat /\ pending[s].stderr \in Nat /\ n = Pending(pending[s]) /\ n \in Nat
    <3>1. pending[s] \in [Streams -> {0, 1}]
      BY <1>0 DEF Types
    <3> QED BY <3>1, NoPendingIs DEF Pending
  <2>3. /\ StoreOK(store', Managed) /\ Follows(store', store, s, n)
        /\ store'.retained <= MaxTotal /\ store'.buffer[s].retained <= MaxRetained
    <3>1. StoreOK(store, Managed)
      BY <1>0 DEF StoreFits
    <3> QED BY <1>1, <2>1, <2>2, <3>1, FlushPendingOK
  <2> HIDE DEF n
  <2>4. \A t \in Sessions :
          /\ store'.buffer[t].retained <= MaxRetained
          /\ store'.buffer[t].retained \in Nat /\ store'.buffer[t].dropped \in Nat
          /\ store.buffer[t].retained \in Nat /\ store.buffer[t].dropped \in Nat
          /\ store'.buffer[t].retained + store'.buffer[t].dropped
               = (store.buffer[t].retained + store.buffer[t].dropped) + (IF t = s THEN n ELSE 0)
          /\ Sent(store'.buffer[t], cursor[t], seen[t])
          /\ t # s => store'.buffer[t].next = store.buffer[t].next
    BY <1>1, <2>2, <2>3, OutputKeeps
  <2>5. s \notin ToSet(ended) /\ IsInjective(ended)
    BY <1>0, <1>4, <1>6 DEF AlreadyEnded, Counts, CountsAreExact
  <2>6. ended' \in Seq(Sessions) /\ IsInjective(ended') /\ ToSet(ended') = ToSet(ended) \cup {s}
    BY <1>4, <2>1, <2>5, AppendedOnce
  <2>7. /\ RunningSet = Managed \ ToSet(ended) /\ IsFiniteSet(RunningSet) /\ running = Cardinality(RunningSet)
        /\ \A t : IsRunning(t) <=> t \in RunningSet
    BY RunningSetIs
  <2>8. RunningSet' = Managed' \ ToSet(ended') /\ \A t : IsRunning(t)' <=> t \in RunningSet'
    BY <2>6, RunningSetNext
  <2>9. RunningSet' = RunningSet \ {s} /\ s \in RunningSet
    BY <1>1, <1>3, <2>5, <2>6, <2>7, <2>8
  <2>10. running' = Cardinality(RunningSet \ {s}) /\ running' <= MaxRunning /\ running' \in Nat
    <3>1. IsFiniteSet(RunningSet \ {s}) /\ Cardinality(RunningSet \ {s}) = Cardinality(RunningSet) - 1
      BY <2>7, <2>9, FS_RemoveElement
    <3>2. Cardinality(RunningSet \ {s}) \in Nat /\ running \in Nat /\ running <= MaxRunning /\ MaxRunning \in Nat
      BY <1>0, <3>1, FS_CardinalityType, OutputAssumption DEF Types, Counts, CountsAreExact
    <3>3. running >= 1 /\ running - 1 = Cardinality(RunningSet \ {s})
      BY <2>7, <3>1, <3>2
    <3>4. Minus(running, 1) = running - 1
      BY <3>2, <3>3, MinusIs
    <3> QED BY <2>1, <3>2, <3>3, <3>4
  <2>11. Types'
    <3>1. touched' \in Seq(Sessions)
      BY <1>0, <2>1, TouchedLastIs DEF Types
    <3>2. waiter' \in [Sessions -> {Idle, "output", "terminal", "woken"}]
      BY <1>0, <2>1, WokenIs DEF Types
    <3>3. pending' \in [Sessions -> [Streams -> {0, 1}]]
      BY <1>0, <2>1, NoPendingIs DEF Types
    <3> QED BY <1>0, <1>1, <1>2, <2>6, <2>10, <3>1, <3>2, <3>3 DEF Types
  <2>12. Counts'
    <3>1. \A t \in ToSet(ended') : fired'[t] # {}
      <4> SUFFICES ASSUME NEW t \in ToSet(ended') PROVE fired'[t] # {}
        OBVIOUS
      <4>1. CASE t = s
        BY <1>2, <4>1
      <4>2. CASE t # s
        <5>1. t \in ToSet(ended) /\ t \in Sessions
          BY <1>3, <2>6, <4>2
        <5> QED BY <1>0, <1>2, <4>2, <5>1 DEF Counts
      <4> QED BY <4>1, <4>2
    <3>2. running' = Cardinality(RunningSet')
      BY <2>9, <2>10, Zenon
    <3>3. ToSet(ended') \subseteq Managed' /\ Cardinality(Managed') <= MaxProcesses
      BY <1>0, <1>1, <1>3, <2>6 DEF Counts, CountsAreExact
    <3>4. CountsAreExact'
      BY <2>6, <2>10, <3>2, <3>3, Zenon DEF CountsAreExact, RunningSet
    <3> QED BY <1>0, <1>3, <3>1, <3>4 DEF Counts
  <2>13. StoreFits'
    BY <1>3, <2>3, Zenon DEF StoreFits
  <2>14. Accounts'
    <3> SUFFICES ASSUME NEW t \in Sessions
                 PROVE  /\ store'.buffer[t].retained <= MaxRetained
                        /\ total'[t] = (store'.buffer[t].retained + store'.buffer[t].dropped) + Pending(pending'[t])
                        /\ ~ IsRunning(t)' => pending'[t] = NoPending
      BY DEF Accounts
    <3>1. /\ total[t] = (store.buffer[t].retained + store.buffer[t].dropped) + Pending(pending[t])
          /\ ~ IsRunning(t) => pending[t] = NoPending
      BY <1>0 DEF Accounts
    <3>2. CASE t = s
      <4>1. pending'[s] = NoPending
        BY <1>0, <2>1 DEF Types
      <4>2. store'.buffer[s].retained + store'.buffer[s].dropped
              = (store.buffer[s].retained + store.buffer[s].dropped) + n
        BY <2>4
      <4>3. total'[s] = (store'.buffer[s].retained + store'.buffer[s].dropped) + 0
        <5>1. store'.buffer[s].retained + store'.buffer[s].dropped \in Nat
          BY <2>4
        <5> QED BY <1>1, <2>2, <3>1, <3>2, <4>2, <5>1
      <4> QED BY <2>4, <3>2, <4>1, <4>3, NoPendingIs
    <3>3. CASE t # s
      <4>1. total'[t] = total[t] /\ pending'[t] = pending[t]
        BY <1>0, <1>1, <2>1, <3>3 DEF Types
      <4>2. store'.buffer[t].retained + store'.buffer[t].dropped
              = store.buffer[t].retained + store.buffer[t].dropped
        BY <2>4, <3>3
      <4>3. IsRunning(t)' <=> IsRunning(t)
        BY <2>7, <2>8, <2>9, <3>3
      <4> QED BY <2>4, <3>1, <4>1, <4>2, <4>3
    <3> QED BY <3>2, <3>3
  <2>15. Cursors'
    BY <1>1, <2>4 DEF Cursors
  <2>16. NoLostWakeup'
    <3> SUFFICES ASSUME NEW t \in Sessions
                 PROVE  /\ waiter'[t] \in {"output", "terminal"} => IsRunning(t)'
                        /\ waiter'[t] = "output" => store'.buffer[t].next - 1 <= cursor'[t]
      BY DEF NoLostWakeup
    <3>1. /\ waiter[t] \in {"output", "terminal"} => IsRunning(t)
          /\ waiter[t] = "output" => store.buffer[t].next - 1 <= cursor[t]
      BY <1>0 DEF NoLostWakeup
    <3>2. CASE t = s
      <4>1. waiter'[t] = IF waiter[t] \in {"output", "terminal"} THEN "woken" ELSE waiter[t]
        BY <1>0, <2>1, <3>2, WokenIs DEF Types
      <4> QED BY <4>1
    <3>3. CASE t # s
      <4>1. waiter'[t] = waiter[t]
        BY <1>0, <2>1, <3>3, WokenIs DEF Types
      <4>2. IsRunning(t)' <=> IsRunning(t)
        BY <2>7, <2>8, <2>9, <3>3
      <4> QED BY <1>1, <2>4, <3>1, <3>3, <4>1, <4>2
    <3> QED BY <3>2, <3>3
  <2> QED BY <2>11, <2>12, <2>13, <2>14, <2>15, <2>16 DEF IInv
<1> QED BY <1>5, <1>6

\* Only what clients wait for and were sent changes.
LEMMA ClientKeeps ==
  ASSUME IInv, UNCHANGED <<status, ended, running, store, pending, total, fired, touched, events>>,
         waiter' \in [Sessions -> {Idle, "output", "terminal", "woken"}],
         cursor' \in [Sessions -> Nat], seen' \in [Sessions -> SUBSET Nat],
         \A t \in Sessions : Sent(store.buffer[t], cursor'[t], seen'[t]),
         \A t \in Sessions : waiter'[t] \in {"output", "terminal"} => IsRunning(t),
         \A t \in Sessions : waiter'[t] = "output" => store.buffer[t].next - 1 <= cursor'[t]
  PROVE  IInv'
<1>0. Types /\ Counts /\ StoreFits /\ Accounts
  BY DEF IInv
<1>1. Managed' = Managed /\ \A t : IsRunning(t)' <=> IsRunning(t)
  BY DEF Managed, IsRunning
<1>2. Types'
  BY <1>0 DEF Types
<1>3. Counts'
  BY <1>0, <1>1 DEF Counts, CountsAreExact
<1>4. StoreFits'
  BY <1>0, <1>1, Zenon DEF StoreFits
<1>5. Accounts'
  BY <1>0, <1>1 DEF Accounts
<1>6. Cursors'
  BY DEF Cursors
<1>7. NoLostWakeup'
  BY <1>1 DEF NoLostWakeup
<1> QED BY <1>2, <1>3, <1>4, <1>5, <1>6, <1>7 DEF IInv

\* A page is sent to a client that has been sent everything up to after.
LEMMA DeliverIs ==
  ASSUME IInv, NEW s \in Sessions, NEW after, NEW sent \in SUBSET Nat,
         after \in Nat, Sent(store.buffer[s], after, sent), Deliver(s, after, sent)
  PROVE  /\ cursor' \in [Sessions -> Nat] /\ seen' \in [Sessions -> SUBSET Nat]
         /\ \A t \in Sessions : Sent(store.buffer[t], cursor'[t], seen'[t])
         /\ \A t \in Sessions : t # s => cursor'[t] = cursor[t]
<1>0. Types /\ Cursors /\ BufferOK(store.buffer[s])
  <2>1. StoreOK(store, Managed)
    BY DEF IInv, StoreFits
  <2> QED BY <2>1, StoreFields DEF IInv
<1>1. PICK asked \in ReadSizes :
        LET page == SelectAfter(store.buffer[s], after, PageLimit(asked))
        IN  /\ cursor' = [cursor EXCEPT ![s] = page.nextSeq]
            /\ seen' = [seen EXCEPT ![s] = sent \cup SeqsOf(page.chunks)]
  BY DEF Deliver
<1> DEFINE b == store.buffer[s]
           page == SelectAfter(b, after, PageLimit(asked))
           p == page.nextSeq
           chunks == SeqsOf(page.chunks)
<1>2. after \in 0..(b.next - 1) /\ b.next \in Nat
  BY <1>0, BufferFields DEF Sent
<1>3. /\ p \in Nat /\ p >= after /\ p <= b.next - 1
      /\ chunks \subseteq Nat
      /\ \A q \in chunks : q <= p
      /\ \A q \in (after + 1)..p : q \in chunks \/ q < b.base
  <2> HIDE DEF b
  <2> QED BY <1>0, <1>2, PageSeqs DEF b
<1>4. cursor' = [cursor EXCEPT ![s] = p] /\ seen' = [seen EXCEPT ![s] = sent \cup chunks]
  BY <1>1
<1> HIDE DEF page, p, chunks
<1>5. cursor' \in [Sessions -> Nat] /\ seen' \in [Sessions -> SUBSET Nat]
  BY <1>0, <1>3, <1>4 DEF Types
<1>6. Sent(b, p, sent \cup chunks)
  <2>1. \A q \in 1..p : q \in sent \cup chunks \/ q < b.base
    <3> SUFFICES ASSUME NEW q \in 1..p PROVE q \in sent \cup chunks \/ q < b.base
      OBVIOUS
    <3>1. CASE q \in 1..after
      BY <3>1 DEF Sent
    <3>2. CASE q \notin 1..after
      <4>1. q \in (after + 1)..p
        BY <1>3, <3>2
      <4> QED BY <1>3, <4>1
    <3> QED BY <3>1, <3>2
  <2>2. \A q \in sent \cup chunks : q <= p
    <3>1. \A q \in sent : q <= after /\ q \in Nat
      BY DEF Sent
    <3>2. \A q \in sent : q <= p
      BY <1>3, <3>1
    <3> QED BY <1>3, <3>2
  <2>3. p < b.next
    BY <1>2, <1>3
  <2> HIDE DEF b
  <2> QED BY <2>1, <2>2, <2>3 DEF Sent
<1>7. \A t \in Sessions : Sent(store.buffer[t], cursor'[t], seen'[t])
  <2> SUFFICES ASSUME NEW t \in Sessions PROVE Sent(store.buffer[t], cursor'[t], seen'[t])
    OBVIOUS
  <2>1. CASE t = s
    <3>1. cursor'[t] = p /\ seen'[t] = sent \cup chunks
      BY <1>0, <1>4, <2>1 DEF Types
    <3> QED BY <1>6, <2>1, <3>1
  <2>2. CASE t # s
    <3>1. cursor'[t] = cursor[t] /\ seen'[t] = seen[t]
      BY <1>0, <1>4, <2>2 DEF Types
    <3> QED BY <1>0, <3>1 DEF Cursors
  <2> QED BY <2>1, <2>2
<1>8. \A t \in Sessions : t # s => cursor'[t] = cursor[t]
  BY <1>0, <1>4 DEF Types
<1> QED BY <1>5, <1>7, <1>8

LEMMA ReadKeeps ==
  ASSUME IInv, NEW s \in Sessions, NEW restart \in BOOLEAN, NEW mode \in {"none", "output", "terminal"},
         Read(s, restart, mode)
  PROVE  IInv'
<1> DEFINE after == IF restart THEN 0 ELSE cursor[s]
           sent  == IF restart THEN {} ELSE seen[s]
<1>0. Types /\ Cursors /\ NoLostWakeup /\ StoreOK(store, Managed)
  BY DEF IInv, StoreFits
<1>1. /\ waiter[s] = Idle
      /\ UNCHANGED <<status, ended, running, store, pending, total, fired, touched, events>>
      /\ \/ /\ MustWait(s, after, mode)
            /\ waiter' = [waiter EXCEPT ![s] = mode]
            /\ cursor' = [cursor EXCEPT ![s] = after]
            /\ seen' = [seen EXCEPT ![s] = sent]
         \/ Deliver(s, after, sent) /\ waiter' = waiter
  BY DEF Read
<1>2. after \in Nat /\ sent \in SUBSET Nat /\ Sent(store.buffer[s], after, sent)
  <2>1. CASE restart
    <3>1. 0 < store.buffer[s].next
      <4>1. /\ store.buffer[s].next \in Nat /\ store.buffer[s].base \in Nat /\ store.buffer[s].base >= 1
            /\ store.buffer[s].base <= store.buffer[s].next
        <5>1. BufferOK(store.buffer[s])
          BY <1>0, StoreFields
        <5> QED BY <5>1, BufferFields
      <4> QED BY <4>1
    <3> QED BY <2>1, <3>1 DEF Sent
  <2>2. CASE ~ restart
    BY <1>0, <2>2 DEF Types, Cursors
  <2> QED BY <2>1, <2>2
<1> HIDE DEF after, sent
<1>3. \A t \in Sessions : /\ waiter[t] \in {"output", "terminal"} => IsRunning(t)
                          /\ waiter[t] = "output" => store.buffer[t].next - 1 <= cursor[t]
  BY <1>0 DEF NoLostWakeup
<1>4. CASE /\ MustWait(s, after, mode)
           /\ waiter' = [waiter EXCEPT ![s] = mode]
           /\ cursor' = [cursor EXCEPT ![s] = after]
           /\ seen' = [seen EXCEPT ![s] = sent]
  <2>1. /\ mode \in {"output", "terminal"} /\ IsRunning(s)
        /\ mode = "output" => store.buffer[s].next - 1 <= after
    <3>1. CASE mode = "output"
      BY <1>4, <3>1 DEF MustWait
    <3>2. CASE mode = "terminal"
      BY <1>4, <3>2 DEF MustWait
    <3>3. CASE mode = "none"
      BY <1>4, <3>3 DEF MustWait
    <3> QED BY <3>1, <3>2, <3>3
  <2>2. /\ waiter' \in [Sessions -> {Idle, "output", "terminal", "woken"}]
        /\ cursor' \in [Sessions -> Nat] /\ seen' \in [Sessions -> SUBSET Nat]
    BY <1>0, <1>2, <1>4, <2>1 DEF Types
  <2>3. /\ waiter'[s] = mode /\ cursor'[s] = after /\ seen'[s] = sent
        /\ \A t \in Sessions : t # s => waiter'[t] = waiter[t] /\ cursor'[t] = cursor[t] /\ seen'[t] = seen[t]
    BY <1>0, <1>4 DEF Types
  <2>4. \A t \in Sessions : Sent(store.buffer[t], cursor'[t], seen'[t])
    BY <1>0, <1>2, <2>3 DEF Cursors
  <2>5. \A t \in Sessions : waiter'[t] \in {"output", "terminal"} => IsRunning(t)
    BY <1>3, <2>1, <2>3
  <2>6. \A t \in Sessions : waiter'[t] = "output" => store.buffer[t].next - 1 <= cursor'[t]
    BY <1>3, <2>1, <2>3
  <2> QED BY <1>1, <2>2, <2>4, <2>5, <2>6, ClientKeeps
<1>5. CASE Deliver(s, after, sent) /\ waiter' = waiter
  <2>1. /\ cursor' \in [Sessions -> Nat] /\ seen' \in [Sessions -> SUBSET Nat]
        /\ \A t \in Sessions : Sent(store.buffer[t], cursor'[t], seen'[t])
        /\ \A t \in Sessions : t # s => cursor'[t] = cursor[t]
    BY <1>2, <1>5, DeliverIs
  <2>2. waiter' \in [Sessions -> {Idle, "output", "terminal", "woken"}] /\ waiter'[s] = Idle
    BY <1>0, <1>1, <1>5 DEF Types
  <2>3. \A t \in Sessions : waiter'[t] \in {"output", "terminal"} => IsRunning(t)
    BY <1>3, <1>5
  <2>4. \A t \in Sessions : waiter'[t] = "output" => store.buffer[t].next - 1 <= cursor'[t]
    BY <1>3, <1>5, <2>1, <2>2 DEF Idle
  <2> QED BY <1>1, <2>1, <2>2, <2>3, <2>4, ClientKeeps
<1> QED BY <1>1, <1>4, <1>5

LEMMA ResumeKeeps ==
  ASSUME IInv, NEW s \in Sessions, Resume(s)
  PROVE  IInv'
<1>0. Types /\ Cursors /\ NoLostWakeup
  BY DEF IInv
<1>1. /\ waiter' = [waiter EXCEPT ![s] = Idle] /\ Deliver(s, cursor[s], seen[s])
      /\ UNCHANGED <<status, ended, running, store, pending, total, fired, touched, events>>
  BY DEF Resume
<1>2. /\ cursor' \in [Sessions -> Nat] /\ seen' \in [Sessions -> SUBSET Nat]
      /\ \A t \in Sessions : Sent(store.buffer[t], cursor'[t], seen'[t])
      /\ \A t \in Sessions : t # s => cursor'[t] = cursor[t]
  <2>1. cursor[s] \in Nat /\ seen[s] \in SUBSET Nat /\ Sent(store.buffer[s], cursor[s], seen[s])
    BY <1>0 DEF Types, Cursors
  <2> QED BY <1>1, <2>1, DeliverIs
<1>3. /\ waiter' \in [Sessions -> {Idle, "output", "terminal", "woken"}] /\ waiter'[s] = Idle
      /\ \A t \in Sessions : t # s => waiter'[t] = waiter[t]
  BY <1>0, <1>1 DEF Types
<1>4. \A t \in Sessions : waiter'[t] \in {"output", "terminal"} => IsRunning(t)
  BY <1>0, <1>3 DEF NoLostWakeup, Idle
<1>5. \A t \in Sessions : waiter'[t] = "output" => store.buffer[t].next - 1 <= cursor'[t]
  BY <1>0, <1>2, <1>3 DEF NoLostWakeup, Idle
<1> QED BY <1>1, <1>2, <1>3, <1>4, <1>5, ClientKeeps

\* A client no longer waits, and has got no page.
LEMMA WaitEnds ==
  ASSUME IInv, NEW s \in Sessions, NEW state \in {Idle, "woken"}, waiter' = [waiter EXCEPT ![s] = state],
         UNCHANGED <<status, ended, running, store, pending, total, fired, cursor, seen, touched, events>>
  PROVE  IInv'
<1>0. Types /\ Cursors /\ NoLostWakeup
  BY DEF IInv
<1>1. /\ waiter' \in [Sessions -> {Idle, "output", "terminal", "woken"}] /\ waiter'[s] = state
      /\ \A t \in Sessions : t # s => waiter'[t] = waiter[t]
  BY <1>0 DEF Types
<1>2. \A t \in Sessions : waiter'[t] \in {"output", "terminal"} => IsRunning(t)
  BY <1>0, <1>1 DEF NoLostWakeup, Idle
<1>3. \A t \in Sessions : waiter'[t] = "output" => store.buffer[t].next - 1 <= cursor'[t]
  BY <1>0, <1>1 DEF NoLostWakeup, Idle
<1>4. /\ cursor' \in [Sessions -> Nat] /\ seen' \in [Sessions -> SUBSET Nat]
      /\ \A t \in Sessions : Sent(store.buffer[t], cursor'[t], seen'[t])
  BY <1>0 DEF Types, Cursors
<1> QED BY <1>1, <1>2, <1>3, <1>4, ClientKeeps

LEMMA StepKeeps ==
  ASSUME IInv, [Next]_vars
  PROVE  IInv'
<1>1. CASE Prune
  BY <1>1, PruneKeeps
<1>2. ASSUME NEW s \in Sessions, Start(s)
      PROVE  IInv'
  BY <1>2, StartKeeps
<1>3. ASSUME NEW s \in Sessions, StdinError(s)
      PROVE  IInv'
  <2>1. /\ waiter' = [waiter EXCEPT ![s] = "woken"]
        /\ UNCHANGED <<status, ended, running, store, pending, total, fired, cursor, seen, touched, events>>
    BY <1>3 DEF StdinError, Woken
  <2> QED BY <2>1, WaitEnds
<1>4. ASSUME NEW s \in Sessions, Resume(s)
      PROVE  IInv'
  BY <1>4, ResumeKeeps
<1>5. ASSUME NEW s \in Sessions, Abort(s)
      PROVE  IInv'
  <2>1. /\ waiter' = [waiter EXCEPT ![s] = Idle]
        /\ UNCHANGED <<status, ended, running, store, pending, total, fired, cursor, seen, touched, events>>
    BY <1>5 DEF Abort
  <2> QED BY <2>1, WaitEnds
<1>6. ASSUME NEW s \in Sessions, NEW stream \in Streams, NEW size \in EventSizes, Data(s, stream, size)
      PROVE  IInv'
  BY <1>6, DataKeeps
<1>7. ASSUME NEW s \in Sessions, NEW event \in {"error", "close"}, Finish(s, event)
      PROVE  IInv'
  BY <1>7, FinishKeeps
<1>8. ASSUME NEW s \in Sessions, NEW restart \in BOOLEAN, NEW mode \in {"none", "output", "terminal"},
             Read(s, restart, mode)
      PROVE  IInv'
  BY <1>8, ReadKeeps
<1>9. CASE UNCHANGED vars
  <2>1. /\ UNCHANGED <<status, ended, running, store, pending, total, fired, touched, events>>
        /\ waiter' = waiter /\ cursor' = cursor /\ seen' = seen
    BY <1>9 DEF vars
  <2>2. Types /\ Cursors /\ NoLostWakeup
    BY DEF IInv
  <2>3. /\ waiter' \in [Sessions -> {Idle, "output", "terminal", "woken"}]
        /\ cursor' \in [Sessions -> Nat] /\ seen' \in [Sessions -> SUBSET Nat]
    BY <2>1, <2>2 DEF Types
  <2>4. \A t \in Sessions : Sent(store.buffer[t], cursor'[t], seen'[t])
    BY <2>1, <2>2 DEF Cursors
  <2>5. \A t \in Sessions : /\ waiter'[t] \in {"output", "terminal"} => IsRunning(t)
                            /\ waiter'[t] = "output" => store.buffer[t].next - 1 <= cursor'[t]
    BY <2>1, <2>2 DEF NoLostWakeup
  <2> QED BY <2>1, <2>3, <2>4, <2>5, ClientKeeps
<1> QED BY <1>1, <1>2, <1>3, <1>4, <1>5, <1>6, <1>7, <1>8, <1>9 DEF Next

LEMMA SpecKeeps == Spec => []IInv
<1>1. Init => IInv
  BY InitOK
<1>2. IInv /\ [Next]_vars => IInv'
  BY StepKeeps
<1> QED BY <1>1, <1>2, PTL DEF Spec

-----------------------------------------------------------------------------
(* The theorems.                                                            *)

LEMMA AccountingFollows ==
  ASSUME IInv
  PROVE  OutputAccounting
<1>0. Types /\ Counts /\ Accounts /\ StoreOK(store, Managed) /\ store.retained <= MaxTotal
  BY DEF IInv, StoreFits
<1>1. /\ store.retained \in Nat /\ store.recency \in Seq(Sessions)
      /\ \A s \in Sessions : BufferOK(store.buffer[s])
  BY <1>0, StoreFields
<1>2. TypeOK
  <2>1. ASSUME NEW s \in Sessions
        PROVE  LET b == store.buffer[s]
               IN  /\ b.chunks \in Seq([seq : Nat, size : 1..ChunkSize])
                   /\ b.head \in 0..Len(b.chunks) /\ b.base \in 1..b.next
                   /\ b.retained \in Nat /\ b.dropped \in Nat
    <3> DEFINE b == store.buffer[s]
    <3>1. BufferOK(b)
      BY <1>1
    <3> HIDE DEF b
    <3>2. /\ b.chunks \in Seq(Chunks) /\ Len(b.chunks) \in Nat /\ b.head \in Nat /\ b.base \in Nat
          /\ b.next \in Nat /\ b.retained \in Nat /\ b.dropped \in Nat
          /\ b.head <= Len(b.chunks) /\ b.base >= 1 /\ b.base <= b.next
      BY <3>1, BufferFields
    <3>3. b.chunks \in Seq([seq : Nat, size : 1..ChunkSize])
      BY <3>2, Zenon DEF Chunks
    <3>4. b.head \in 0..Len(b.chunks) /\ b.base \in 1..b.next
      BY <3>2
    <3> QED BY <3>2, <3>3, <3>4 DEF b
  <2> QED BY <1>0, <1>1, <2>1 DEF TypeOK, Types
<1>3. ASSUME NEW s \in Managed
      PROVE  LET b == store.buffer[s]
             IN  /\ b.retained = SizeOf(Live(b)) /\ b.retained <= MaxRetained
                 /\ total[s] = b.retained + b.dropped + pending[s].stdout + pending[s].stderr
                 /\ ~ IsRunning(s) => pending[s] = [stdout |-> 0, stderr |-> 0]
  <2> DEFINE b == store.buffer[s]
  <2>1. s \in Sessions
    BY DEF Managed
  <2>2. /\ b.retained <= MaxRetained /\ total[s] = (b.retained + b.dropped) + (pending[s].stdout + pending[s].stderr)
        /\ ~ IsRunning(s) => pending[s] = [stdout |-> 0, stderr |-> 0]
    BY <1>0, <2>1 DEF Accounts, Pending, NoPending
  <2>3. b.retained = SizeOf(Live(b)) /\ b.retained \in Nat /\ b.dropped \in Nat
    <3>1. BufferOK(b)
      BY <1>1, <2>1
    <3> HIDE DEF b
    <3> QED BY <3>1, LiveChunks, BufferFields
  <2>4. pending[s].stdout \in Nat /\ pending[s].stderr \in Nat
    <3>1. pending[s] \in [Streams -> {0, 1}]
      BY <1>0, <2>1 DEF Types
    <3> QED BY <3>1, NoPendingIs
  <2>5. \A w, x, y, z \in Nat : (w + x) + (y + z) = w + x + y + z
    OBVIOUS
  <2>6. (b.retained + b.dropped) + (pending[s].stdout + pending[s].stderr)
          = b.retained + b.dropped + pending[s].stdout + pending[s].stderr
    <3> HIDE DEF b
    <3> QED BY <2>3, <2>4, <2>5
  <2> HIDE DEF b
  <2>7. total[s] = b.retained + b.dropped + pending[s].stdout + pending[s].stderr
    BY <2>2, <2>6, Zenon
  <2> QED BY <2>2, <2>3, <2>7 DEF b
<1>4. /\ store.retained = RetainedBy(store, Managed) /\ IsInjective(store.recency)
      /\ ToSet(store.recency) = {s \in Managed : store.buffer[s].retained > 0}
  BY <1>0, Zenon DEF StoreOK, WithOutput
<1>5. CountsAreExact
  BY <1>0 DEF Counts
<1> QED BY <1>0, <1>2, <1>3, <1>4, <1>5, Zenon DEF OutputAccounting

LEMMA SelectionFollows ==
  ASSUME IInv
  PROVE  SelectionIsExact
<1> SUFFICES ASSUME NEW s \in Managed, NEW after \in 0..(store.buffer[s].next - 1), NEW asked \in ReadSizes
             PROVE  LET live     == Live(store.buffer[s])
                        retained == Kept(live, {i \in 1..Len(live) : live[i].seq > after})
                        page     == SelectAfter(store.buffer[s], after, PageLimit(asked))
                        n        == Len(page.chunks)
                    IN  /\ page.chunks = SubSeq(retained, 1, n)
                        /\ page.hasMore <=> n < Len(retained)
                        /\ page.hasMore => n > 0 /\ SizeOf(SubSeq(retained, 1, n + 1)) > PageLimit(asked)
  BY DEF SelectionIsExact
<1> DEFINE b == store.buffer[s]
           rest == After(b, after)
           limit == PageLimit(asked)
           page == SelectAfter(b, after, limit)
<1>1. BufferOK(b)
  <2>1. StoreOK(store, Managed) /\ s \in Sessions
    BY DEF IInv, StoreFits, Managed
  <2> QED BY <2>1, StoreFields
<1> HIDE DEF b
<1>a. after \in 0..(b.next - 1)
  BY DEF b
<1>2. after \in Nat
  BY <1>1, <1>a, BufferFields
<1>3. limit \in Nat /\ limit >= ChunkSize
  BY PageLimitIs
<1>4. rest \in Seq(Chunks)
  <2>1. rest = SubSeq(Live(b), Passed(b, after) + 1, Len(Live(b))) /\ Passed(b, after) \in 0..Len(Live(b))
    BY <1>1, <1>a, AfterIs
  <2>2. Live(b) \in Seq(Chunks)
    BY <1>1, LiveChunks
  <2> HIDE DEF rest
  <2> QED BY <2>1, <2>2, SizeOfParts
<1>5. \/ rest = <<>> /\ page = NothingAfter(after)
      \/ page = PageOf(rest, after, limit)
  BY <1>1, <1>a, SelectAfterIs
<1> HIDE DEF rest, limit, page
<1>6. LET n == Len(page.chunks)
      IN  /\ n \in 0..Len(rest) /\ page.chunks = SubSeq(rest, 1, n)
          /\ page.hasMore <=> n < Len(rest)
          /\ page.hasMore => n > 0 /\ SizeOf(SubSeq(rest, 1, n + 1)) > limit
          /\ page.nextSeq = IF n = 0 THEN after ELSE rest[n].seq
  BY <1>2, <1>3, <1>4, <1>5, PageIsExact
<1> QED BY <1>6, Zenon DEF page, rest, limit, b, After

\* What the manager counts is what there is: the sessions that run, the bytes
\* of each buffer and the total over all of them, within both budgets, through
\* every interleaving of events, starts that evict, exits and retention timers,
\* for any limits and any number of sessions and events.
THEOREM OutputAccountingThm == Spec => []OutputAccounting
BY SpecKeeps, AccountingFollows, PTL

\* The offsets of selectAfter() into a buffer that trims and compacts are
\* exact: a page holds the longest run of retained chunks after the cursor that
\* fits, and is never empty while there is more, for every chunk and page size.
THEOREM SelectionIsExactThm == Spec => []SelectionIsExact
BY SpecKeeps, SelectionFollows, PTL

\* A client that follows nextSeq misses only what the budgets had dropped.
THEOREM NothingSkippedThm == Spec => []NothingSkipped
<1>1. ASSUME IInv
      PROVE  NothingSkipped
  <2>1. Cursors
    BY <1>1 DEF IInv
  <2> QED BY <2>1 DEF NothingSkipped, Cursors, Sent, Managed
<1> QED BY <1>1, SpecKeeps, PTL

\* No client waits for output that is there, or for a session that has ended.
THEOREM NoLostWakeupThm == Spec => []NoLostWakeup
<1>1. IInv => NoLostWakeup
  BY DEF IInv
<1> QED BY <1>1, SpecKeeps, PTL
=============================================================================
