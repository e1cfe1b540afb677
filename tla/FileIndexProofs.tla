-------------------------- MODULE FileIndexProofs --------------------------
(***************************************************************************)
(* Lemmas about the operators of FileIndex, for every index, for the       *)
(* proofs about FileStore and about FileStoreSteps.                        *)
(***************************************************************************)
EXTENDS FileIndex, TLAPS, WellFoundedInduction, SequenceTheorems

-----------------------------------------------------------------------------
(* The names read *)

\* As many names are read as the count announces, Junk for those missing.
LEMMA NamesReadSeq ==
    ASSUME NEW ix, ix.total \in Int, NEW S, Junk \in S, ix.names \in Seq(S)
    PROVE  /\ NamesRead(ix) \in Seq(S)
           /\ Len(NamesRead(ix)) = IF ix.total <= 0 THEN 0 ELSE ix.total
<1>1. CASE ix.total <= 0
  BY <1>1 DEF NamesRead
<1>2. CASE ix.total > 0
  <2> DEFINE ns == [i \in 1..ix.total |->
                       IF i <= Len(ix.names) THEN ix.names[i] ELSE Junk]
  <2>1. NamesRead(ix) = ns
    BY <1>2 DEF NamesRead
  <2>2. ns \in [1..ix.total -> S]
    BY <1>2
  <2>3. ns \in Seq(S) /\ Len(ns) = ix.total
    BY <1>2, <2>2
  <2> QED BY <1>2, <2>1, <2>3
<1> QED BY <1>1, <1>2

\* The same of the names an index file may hold.
LEMMA NamesReadType ==
    ASSUME NEW ix, ix.total \in Int, ix.names \in Seq(Name \union {Junk})
    PROVE  /\ NamesRead(ix) \in Seq(Name \union {Junk})
           /\ Len(NamesRead(ix)) = IF ix.total <= 0 THEN 0 ELSE ix.total
           /\ Len(NamesRead(ix)) \in Nat
<1>1. Junk \in Name \union {Junk}
  OBVIOUS
<1>2. /\ NamesRead(ix) \in Seq(Name \union {Junk})
      /\ Len(NamesRead(ix)) = IF ix.total <= 0 THEN 0 ELSE ix.total
  BY <1>1, NamesReadSeq, Zenon
<1> QED BY <1>2

\* An index whose count is its number of names is read in full.
LEMMA NamesReadAll ==
    ASSUME NEW ix, NEW S, ix.names \in Seq(S), ix.total = Len(ix.names)
    PROVE  NamesRead(ix) = ix.names
<1> DEFINE ns == ix.names
<1>1. CASE Len(ns) = 0
  <2>1. ns = <<>>
    BY <1>1, EmptySeq
  <2> QED BY <1>1, <2>1 DEF NamesRead
<1>2. CASE Len(ns) > 0
  <2>1. NamesRead(ix) = [i \in 1..Len(ns) |-> ns[i]]
    BY <1>2 DEF NamesRead
  <2> QED BY <2>1
<1> QED BY <1>1, <1>2

-----------------------------------------------------------------------------
(* Looking a name up *)

(***************************************************************************)
(* A nonempty set of naturals has a least element. The lookups of the code *)
(* stop at the first match, and the recursion over an index has its        *)
(* induction from here.                                                    *)
(***************************************************************************)
LEMMA Least ==
    ASSUME NEW T, T \subseteq Nat, T # {}
    PROVE  \E x \in T : \A y \in T : x <= y
<1> DEFINE R == OpToRel(<, Nat)
<1>1. IsWellFoundedOn(R, Nat)
  BY NatLessThanWellFounded
<1>2. \E x \in T : \A y \in T : ~ (<<y, x>> \in R)
  <2> HIDE DEF R
  <2> QED BY <1>1, WFMin, Zenon
<1>3. \A x, y \in Nat : x < y => <<x, y>> \in R
  BY DEF OpToRel
<1>4. \E x \in T : \A y \in T : ~ (y < x)
  <2> HIDE DEF R
  <2> QED BY <1>2, <1>3, Zenon
<1>5. PICK x \in T : \A y \in T : ~ (y < x)
  BY <1>4, Zenon
<1>6. \A y \in T : x <= y
  BY ONLY <1>5, T \subseteq Nat, x \in T
<1> QED
  BY <1>6, Zenon

(***************************************************************************)
(* GetIndex is the slot of the first name equal to n, or -1.               *)
(***************************************************************************)
LEMMA GetIndexFirst ==
    ASSUME NEW ns, NEW n, Len(ns) \in Nat, Hits(ns, n) # {}
    PROVE  /\ GetIndex(ns, n) \in 0 .. Len(ns)-1
           /\ ns[GetIndex(ns, n) + 1] = n
           /\ \A j \in 1 .. GetIndex(ns, n) : ns[j] # n
<1> DEFINE H == Hits(ns, n)
<1>1. H \subseteq Nat
  BY DEF Hits
<1>2. \E i \in H : \A j \in H : i <= j
  BY <1>1, Least
<1>3. PICK i : i = CHOOSE x \in H : \A j \in H : x <= j
  OBVIOUS
<1>4. i \in H /\ \A j \in H : i <= j
  BY <1>2, <1>3
<1>5. GetIndex(ns, n) = i - 1
  BY <1>3 DEF GetIndex
<1> QED
  BY <1>4, <1>5 DEF Hits

LEMMA GetIndexIs ==
    ASSUME NEW ns, NEW n, Len(ns) \in Nat, NEW i \in 1..Len(ns),
           ns[i] = n, \A j \in 1 .. i-1 : ns[j] # n
    PROVE  GetIndex(ns, n) = i - 1
<1>1. Hits(ns, n) # {}
  BY DEF Hits
<1> DEFINE g == GetIndex(ns, n)
<1>2. /\ g \in 0 .. Len(ns)-1
      /\ ns[g+1] = n
      /\ \A j \in 1..g : ns[j] # n
  BY <1>1, GetIndexFirst
<1> HIDE DEF g
<1>3. ~ (g + 1 < i) /\ ~ (i < g + 1)
  BY <1>2
<1>4. g = i - 1
  BY <1>2, <1>3
<1> QED
  BY <1>4 DEF g

LEMMA GetIndexNone ==
    ASSUME NEW ns, NEW n, Hits(ns, n) = {}
    PROVE  GetIndex(ns, n) = -1
BY DEF GetIndex

(***************************************************************************)
(* Appending a name leaves the slots of the names already there.           *)
(***************************************************************************)
LEMMA AppendIndex ==
    ASSUME NEW S, NEW ns \in Seq(S), NEW n \in S, NEW m
    PROVE  /\ Hits(ns, m) # {} => /\ Hits(Append(ns, n), m) # {}
                                  /\ GetIndex(Append(ns, n), m) = GetIndex(ns, m)
           /\ m # n => (Hits(Append(ns, n), m) = {} <=> Hits(ns, m) = {})
           /\ Hits(Append(ns, n), n) # {}
           /\ Hits(ns, n) = {} => GetIndex(Append(ns, n), n) = Len(ns)
<1> DEFINE a == Append(ns, n)
           N == Len(ns)
<1>1. /\ N \in Nat
      /\ a \in Seq(S)
      /\ Len(a) = N + 1
      /\ \A j \in 1..N : a[j] = ns[j]
      /\ a[N+1] = n
  BY AppendProperties
<1> HIDE DEF a
<1>2. \A x : Hits(ns, x) \subseteq Hits(a, x)
  BY <1>1 DEF Hits
<1>3. ASSUME Hits(ns, m) # {} PROVE GetIndex(a, m) = GetIndex(ns, m)
  <2> DEFINE g == GetIndex(ns, m)
  <2>1. g \in 0..N-1 /\ ns[g+1] = m /\ \A j \in 1..g : ns[j] # m
    BY <1>1, <1>3, GetIndexFirst
  <2> HIDE DEF g
  <2>2. g+1 \in 1..Len(a) /\ a[g+1] = m /\ \A j \in 1..(g+1)-1 : a[j] # m
    BY <1>1, <2>1
  <2>3. GetIndex(a, m) = (g+1)-1
    BY <1>1, <2>2, GetIndexIs
  <2> QED BY <2>1, <2>3 DEF g
<1>4. m # n => (Hits(a, m) = {} <=> Hits(ns, m) = {})
  BY <1>1 DEF Hits
<1>5. N+1 \in Hits(a, n)
  BY <1>1 DEF Hits
<1>6. ASSUME Hits(ns, n) = {} PROVE GetIndex(a, n) = N
  <2>1. N+1 \in 1..Len(a) /\ a[N+1] = n /\ \A j \in 1..(N+1)-1 : a[j] # n
    BY <1>1, <1>6 DEF Hits
  <2>2. GetIndex(a, n) = (N+1)-1
    BY <1>1, <2>1, GetIndexIs
  <2> QED BY <1>1, <2>2
<1> QED BY <1>2, <1>3, <1>4, <1>5, <1>6 DEF a

-----------------------------------------------------------------------------
(* The loop of _remove_index *)

\* One round of the loop: k holds what each earlier round kept.
Round(ns, n, k, i) ==
    IF i = 0 THEN <<>>
    ELSE IF ns[i] = n THEN k[i-1]
    ELSE Append(k[i-1], ns[i])

(***************************************************************************)
(* The rounds define a function: each round has a value once the one       *)
(* before it has.                                                          *)
(***************************************************************************)
LEMMA RoundsExist ==
    ASSUME NEW ns, NEW n, NEW N \in Nat
    PROVE  \E f : f = [i \in 0..N |-> Round(ns, n, f, i)]
<1> DEFINE Ok(m) == \E f : f = [i \in 0..m |-> Round(ns, n, f, i)]
           T == {m \in 0..N : ~ Ok(m)}
<1>1. Ok(0)
  <2> DEFINE f == [i \in 0..0 |-> <<>>]
  <2>1. f = [i \in 0..0 |-> Round(ns, n, f, i)]
    BY DEF Round
  <2> HIDE DEF f
  <2> QED BY <2>1
<1>2. ASSUME NEW m \in Nat, Ok(m) PROVE Ok(m+1)
  <2>1. PICK f : f = [i \in 0..m |-> Round(ns, n, f, i)]
    BY <1>2
  <2> DEFINE g == [i \in 0..m+1 |-> IF i <= m THEN f[i]
                                               ELSE Round(ns, n, f, m+1)]
  <2>2. \A i \in 0..m+1 : g[i] = Round(ns, n, g, i)
    <3>1. ASSUME NEW i \in 0..m PROVE g[i] = Round(ns, n, g, i)
      <4>1. f[i] = Round(ns, n, f, i)
        BY <2>1
      <4>2. Round(ns, n, f, i) = Round(ns, n, g, i)
        BY DEF Round
      <4> QED BY <4>1, <4>2
    <3>2. g[m+1] = Round(ns, n, g, m+1)
      BY DEF Round
    <3> QED BY <3>1, <3>2
  <2>3. g = [i \in 0..m+1 |-> Round(ns, n, g, i)]
    <3>1. \A i \in 0..m+1 : g[i] = [j \in 0..m+1 |-> Round(ns, n, g, j)][i]
      BY <2>2
    <3> HIDE DEF Round
    <3> QED BY <3>1
  <2> HIDE DEF g
  <2> QED BY <2>3
<1>3. T = {}
  <2> SUFFICES ASSUME T # {} PROVE FALSE
    OBVIOUS
  <2>1. PICK m \in T : \A j \in T : m <= j
    <3>1. T \subseteq Nat
      OBVIOUS
    <3> HIDE DEF T
    <3> QED BY <3>1, Least
  <2>2. m # 0
    BY <1>1
  <2>3. m-1 \in 0..N /\ m-1 \notin T /\ m-1 \in Nat
    BY <2>1, <2>2
  <2>4. Ok(m-1)
    BY <2>3
  <2> HIDE DEF Ok
  <2>5. Ok((m-1)+1)
    BY <2>3, <2>4, <1>2
  <2>6. (m-1)+1 = m
    BY <2>1
  <2> QED BY <2>1, <2>5, <2>6
<1> QED
  BY <1>3

LEMMA WithoutIsLastRound ==
    ASSUME NEW ns, NEW n, Len(ns) \in Nat
    PROVE  \E f : /\ f = [i \in 0..Len(ns) |-> Round(ns, n, f, i)]
                  /\ Without(ns, n) = f[Len(ns)]
<1> DEFINE f == CHOOSE g : g = [i \in 0..Len(ns) |-> Round(ns, n, g, i)]
<1>1. f = [i \in 0..Len(ns) |-> Round(ns, n, f, i)]
  BY RoundsExist
<1>2. Without(ns, n) = f[Len(ns)]
  BY DEF Without, Round
<1> QED
  BY <1>1, <1>2

(***************************************************************************)
(* Dropping a name from an index leaves a sequence of its other names.     *)
(***************************************************************************)
LEMMA WithoutSeq ==
    ASSUME NEW S, NEW ns \in Seq(S), NEW n
    PROVE  Without(ns, n) \in Seq(S)
<1> DEFINE N == Len(ns)
<1>1. PICK f : /\ f = [i \in 0..N |-> Round(ns, n, f, i)]
               /\ Without(ns, n) = f[N]
  <2>1. N \in Nat
    OBVIOUS
  <2> QED BY <2>1, WithoutIsLastRound, Zenon
<1> DEFINE T == {i \in 0..N : f[i] \notin Seq(S)}
<1>2. SUFFICES ASSUME T # {} PROVE FALSE
  BY <1>1
<1>3. PICK m \in T : \A j \in T : m <= j
  <2>1. T \subseteq Nat
    OBVIOUS
  <2> HIDE DEF T
  <2> QED BY <1>2, <2>1, Least
<1>4. f[m] = Round(ns, n, f, m)
  BY <1>1
<1>5. CASE m = 0
  <2>1. f[m] = <<>> /\ <<>> \in Seq(S)
    BY <1>4, <1>5 DEF Round
  <2> QED BY <1>3, <2>1
<1>6. CASE m # 0
  <2>1. f[m-1] \in Seq(S)
    BY <1>3, <1>6
  <2>2. ns[m] \in S
    BY <1>3, <1>6
  <2>3. Append(f[m-1], ns[m]) \in Seq(S)
    BY <2>1, <2>2
  <2> QED BY <1>3, <1>4, <1>6, <2>1, <2>3 DEF Round
<1> QED
  BY <1>5, <1>6

(***************************************************************************)
(* Dropping a name that occurs once, at k, moves the later names down one. *)
(***************************************************************************)
LEMMA WithoutOne ==
    ASSUME NEW S, NEW ns \in Seq(S), NEW n, NEW k \in 1..Len(ns),
           ns[k] = n, \A j \in 1..Len(ns) : j # k => ns[j] # n
    PROVE  /\ Len(Without(ns, n)) = Len(ns) - 1
           /\ \A j \in 1 .. Len(ns)-1 :
                 Without(ns, n)[j] = IF j < k THEN ns[j] ELSE ns[j+1]
<1> DEFINE N == Len(ns)
<1>1. PICK f : /\ f = [i \in 0..N |-> Round(ns, n, f, i)]
               /\ Without(ns, n) = f[N]
  <2>1. N \in Nat
    OBVIOUS
  <2> QED BY <2>1, WithoutIsLastRound, Zenon
<1> DEFINE L(i) == IF i < k THEN i ELSE i-1
           Good(i) == /\ f[i] \in Seq(S)
                      /\ Len(f[i]) = L(i)
                      /\ \A j \in 1..L(i) :
                            f[i][j] = IF j < k THEN ns[j] ELSE ns[j+1]
           T == {i \in 0..N : ~ Good(i)}
<1>2. T = {}
  <2> SUFFICES ASSUME T # {} PROVE FALSE
    OBVIOUS
  <2>1. PICK m \in T : \A j \in T : m <= j
    <3>1. T \subseteq Nat
      OBVIOUS
    <3> HIDE DEF T
    <3> QED BY <3>1, Least
  <2>2. f[m] = Round(ns, n, f, m)
    BY <1>1
  <2>3. CASE m = 0
    <3>1. f[0] = <<>> /\ <<>> \in Seq(S) /\ Len(<<>>) = 0
      BY <2>2, <2>3 DEF Round
    <3>2. L(0) = 0
      BY k \in 1..N, N \in Nat
    <3>3. Good(0)
      BY <3>1, <3>2
    <3> HIDE DEF Good
    <3> QED BY <2>1, <2>3, <3>3
  <2>4. CASE m # 0
    <3>1. Good(m-1)
      BY <2>1, <2>4
    <3>2. CASE m = k
      <4>1. f[m] = f[m-1]
        BY <2>2, <2>4, <3>2 DEF Round
      <4>2. L(m) = L(m-1)
        BY <3>2
      <4> HIDE DEF L
      <4>3. Good(m)
        BY <3>1, <4>1, <4>2
      <4> QED BY <2>1, <4>3
    <3>3. CASE m # k
      <4>1. f[m] = Append(f[m-1], ns[m]) /\ ns[m] \in S
        BY <2>1, <2>2, <2>4, <3>3 DEF Round
      <4>2. L(m) = L(m-1) + 1 /\ L(m-1) \in Nat
        BY <2>1, <2>4, <3>3
      <4>3. ns[m] = IF L(m) < k THEN ns[L(m)] ELSE ns[L(m)+1]
        BY <2>1, <3>3
      <4> HIDE DEF L
      <4>4. /\ f[m] \in Seq(S)
            /\ Len(f[m]) = L(m)
            /\ \A j \in 1..L(m-1) : f[m][j] = f[m-1][j]
            /\ f[m][L(m)] = ns[m]
        BY <3>1, <4>1, <4>2, AppendProperties, SMTT(30)
      <4>5. \A j \in 1..L(m) :
               f[m][j] = IF j < k THEN ns[j] ELSE ns[j+1]
        <5> TAKE j \in 1..L(m)
        <5>1. CASE j = L(m)
          BY <4>3, <4>4, <5>1
        <5>2. CASE j # L(m)
          <6>1. j \in 1..L(m-1)
            BY <4>2, <5>2
          <6> QED BY <3>1, <4>4, <6>1
        <5> QED BY <5>1, <5>2
      <4> QED BY <2>1, <4>4, <4>5
    <3> QED BY <3>2, <3>3
  <2> QED BY <2>3, <2>4
<1>3. Good(N)
  <2>1. N \in 0..N
    OBVIOUS
  <2> HIDE DEF Good
  <2> QED BY <1>2, <2>1
<1>4. L(N) = N - 1
  BY k \in 1..N, N \in Nat
<1> QED
  BY <1>1, <1>3, <1>4

\* Dropping a name leaves what stands in front of its first occurrence.
LEMMA WithoutPrefix ==
    ASSUME NEW S, NEW ns \in Seq(S), NEW n, NEW k \in 0..Len(ns),
           \A j \in 1..k : ns[j] # n
    PROVE  /\ k <= Len(Without(ns, n))
           /\ \A j \in 1..k : Without(ns, n)[j] = ns[j]
<1> DEFINE N == Len(ns)
<1>1. PICK f : /\ f = [i \in 0..N |-> Round(ns, n, f, i)]
               /\ Without(ns, n) = f[N]
  <2>1. N \in Nat
    OBVIOUS
  <2> QED BY <2>1, WithoutIsLastRound, Zenon
<1> DEFINE L(i) == IF i < k THEN i ELSE k
           Good(i) == /\ f[i] \in Seq(S)
                      /\ L(i) <= Len(f[i])
                      /\ i <= k => Len(f[i]) = i
                      /\ \A j \in 1..L(i) : f[i][j] = ns[j]
           T == {i \in 0..N : ~ Good(i)}
<1>2. T = {}
  <2> SUFFICES ASSUME T # {} PROVE FALSE
    OBVIOUS
  <2>1. PICK m \in T : \A j \in T : m <= j
    <3>1. T \subseteq Nat
      OBVIOUS
    <3> HIDE DEF T
    <3> QED BY <3>1, Least
  <2>2. f[m] = Round(ns, n, f, m) /\ m \in 0..N
    BY <1>1, <2>1
  <2>3. CASE m = 0
    <3>1. f[0] = <<>> /\ <<>> \in Seq(S) /\ Len(<<>>) = 0
      BY <2>2, <2>3 DEF Round
    <3>2. L(0) = 0
      BY k \in 0..N, N \in Nat
    <3>3. Good(0)
      BY <3>1, <3>2
    <3> HIDE DEF Good
    <3> QED BY <2>1, <2>3, <3>3
  <2>4. CASE m # 0
    <3>1. Good(m-1) /\ m-1 \in 0..N /\ L(m-1) \in Nat
      BY <2>1, <2>4
    <3>2. f[m-1] \in Seq(S) /\ Len(f[m-1]) \in Nat /\ L(m-1) <= Len(f[m-1])
          /\ \A j \in 1..L(m-1) : f[m-1][j] = ns[j]
      BY <3>1
    <3>3. CASE ns[m] = n
      <4>1. f[m] = f[m-1]
        BY <2>2, <2>4, <3>3 DEF Round
      <4>2. ~ (m <= k)
        BY <2>2, <2>4, <3>3
      <4>3. L(m) = L(m-1)
        BY <2>2, <4>2
      <4> HIDE DEF L
      <4>4. Good(m)
        BY <3>2, <4>1, <4>2, <4>3
      <4> QED BY <2>1, <4>4
    <3>4. CASE ns[m] # n
      <4>1. f[m] = Append(f[m-1], ns[m]) /\ ns[m] \in S
        BY <2>2, <2>4, <3>4 DEF Round
      <4>2. /\ f[m] \in Seq(S)
            /\ Len(f[m]) = Len(f[m-1]) + 1
            /\ \A j \in 1..Len(f[m-1]) : f[m][j] = f[m-1][j]
            /\ f[m][Len(f[m-1]) + 1] = ns[m]
        BY <3>2, <4>1, AppendProperties
      <4>3. \/ m <= k /\ L(m) = m /\ L(m-1) = m-1 /\ Len(f[m-1]) = m-1
            \/ ~ (m <= k) /\ L(m) = L(m-1)
        BY <2>2, <2>4, <3>1
      <4> HIDE DEF L
      <4>4. L(m) <= Len(f[m]) /\ (m <= k => Len(f[m]) = m)
        BY <2>2, <3>1, <3>2, <4>2, <4>3
      <4>5. ASSUME NEW j \in 1..L(m) PROVE f[m][j] = ns[j]
        <5>1. CASE j \in 1..L(m-1)
          <6>1. j \in 1..Len(f[m-1])
            BY <3>1, <3>2, <5>1
          <6> QED BY <3>2, <4>2, <5>1, <6>1
        <5>2. CASE j \notin 1..L(m-1)
          <6>1. j = m /\ Len(f[m-1]) + 1 = m
            BY <2>2, <2>4, <3>1, <4>3, <5>2
          <6> QED BY <4>2, <6>1
        <5> QED BY <5>1, <5>2
      <4>6. Good(m)
        BY <4>2, <4>4, <4>5
      <4> HIDE DEF Good
      <4> QED BY <2>1, <4>6
    <3> QED BY <3>3, <3>4
  <2> QED BY <2>3, <2>4
<1>3. Good(N)
  <2>1. N \in 0..N
    OBVIOUS
  <2> HIDE DEF Good
  <2> QED BY <1>2, <2>1
<1>4. L(N) = k
  BY k \in 0..N, N \in Nat
<1> QED
  BY <1>1, <1>3, <1>4
=============================================================================
