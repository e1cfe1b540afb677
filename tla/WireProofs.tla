------------------------------ MODULE WireProofs ------------------------------
(***************************************************************************)
(* Proofs about Wire, for every size of an int, every limit below 2^31 and *)
(* any lengths of the parts, those that wrap included. The invariant knows *)
(* where each part of a body begins: when k parts have been read, the      *)
(* reader stands where the next part of the message was written.           *)
(***************************************************************************)
EXTENDS WireProps, SequenceTheorems, WellFoundedInduction, TLAPS

-----------------------------------------------------------------------------
(* Bodies put together from their parts *)

\* A nonempty set of naturals has a least element.
LEMMA Least ==
    ASSUME NEW T, T \subseteq Nat, T # {}
    PROVE  \E x \in T : \A y \in T : x <= y
<1> DEFINE R == OpToRel(<, Nat)
<1>1. IsWellFoundedOn(R, Nat)
  BY NatLessThanWellFounded
<1>2. \E x \in T : \A y \in T : ~ (<<y, x>> \in R)
  <2> HIDE DEF R
  <2> QED BY <1>1, WFMin, Zenon
<1>3. \A x, y \in Nat : x < y => <<x, y>> \in R
  BY DEF OpToRel
<1>4. \E x \in T : \A y \in T : ~ (y < x)
  <2> HIDE DEF R
  <2> QED BY <1>2, <1>3, Zenon
<1>5. PICK x \in T : \A y \in T : ~ (y < x)
  BY <1>4
<1>6. \A y \in T : y \in Nat /\ x \in Nat
  OBVIOUS
<1>7. \A y \in T : x <= y
  BY <1>5, <1>6
<1> QED BY <1>7

\* The first i sequences of ss, given what f makes of the first i-1.
Joined(ss, f, i) == IF i = 1 THEN ss[i] ELSE f[i-1] \o ss[i]

LEMMA JoinedExist ==
    ASSUME NEW ss, NEW N \in Nat
    PROVE  \E f : f = [i \in 1..N |-> Joined(ss, f, i)]
<1> DEFINE Ok(m) == \E f : f = [i \in 1..m |-> Joined(ss, f, i)]
           T == {m \in 0..N : ~ Ok(m)}
<1>1. Ok(0)
  <2> DEFINE f == [i \in 1..0 |-> <<>>]
  <2>1. f = [i \in 1..0 |-> Joined(ss, f, i)]
    OBVIOUS
  <2> HIDE DEF f
  <2> QED BY <2>1
<1>2. ASSUME NEW m \in Nat, Ok(m) PROVE Ok(m+1)
  <2>1. PICK f : f = [i \in 1..m |-> Joined(ss, f, i)]
    BY <1>2
  <2> DEFINE g == [i \in 1..m+1 |-> IF i <= m THEN f[i] ELSE Joined(ss, f, m+1)]
  <2>2. \A i \in 1..m+1 : g[i] = Joined(ss, g, i)
    <3>1. ASSUME NEW i \in 1..m PROVE g[i] = Joined(ss, g, i)
      <4>1. f[i] = Joined(ss, f, i)
        BY <2>1
      <4>2. Joined(ss, f, i) = Joined(ss, g, i)
        BY DEF Joined
      <4> QED BY <4>1, <4>2
    <3>2. g[m+1] = Joined(ss, g, m+1)
      BY DEF Joined
    <3> QED BY <3>1, <3>2
  <2>3. g = [i \in 1..m+1 |-> Joined(ss, g, i)]
    <3>1. \A i \in 1..m+1 : g[i] = [j \in 1..m+1 |-> Joined(ss, g, j)][i]
      BY <2>2
    <3> HIDE DEF Joined
    <3> QED BY <3>1
  <2> HIDE DEF g
  <2> QED BY <2>3
<1>3. T = {}
  <2> SUFFICES ASSUME T # {} PROVE FALSE
    OBVIOUS
  <2>1. PICK m \in T : \A j \in T : m <= j
    <3>1. T \subseteq Nat
      OBVIOUS
    <3> HIDE DEF T
    <3> QED BY <3>1, Least
  <2>2. m # 0
    BY <1>1
  <2>3. m-1 \in 0..N /\ m-1 \notin T /\ m-1 \in Nat
    BY <2>1, <2>2
  <2>4. Ok(m-1)
    BY <2>3
  <2> HIDE DEF Ok
  <2>5. Ok((m-1)+1)
    BY <2>3, <2>4, <1>2
  <2>6. (m-1)+1 = m
    BY <2>1
  <2> QED BY <2>1, <2>5, <2>6
<1> QED BY <1>3

(***************************************************************************)
(* Where each sequence begins when they are put one behind the other: the  *)
(* i-th, none of which is empty, behind unit at[i-1].                      *)
(***************************************************************************)
Starts(ss, flat, at) ==
    /\ at \in [0 .. Len(ss) -> Nat]
    /\ at[0] = 0
    /\ at[Len(ss)] = Len(flat)
    /\ \A i \in 1 .. Len(ss) :
          /\ at[i] = at[i-1] + Len(ss[i])
          /\ i <= at[i]
          /\ at[i] <= Len(flat)
          /\ \A x \in 1 .. Len(ss[i]) : flat[at[i-1] + x] = ss[i][x]

LEMMA FlattenIs ==
    ASSUME NEW S, NEW ss \in Seq(Seq(S)), Len(ss) # 0
    PROVE  \E f : /\ f = [i \in 1 .. Len(ss) |-> Joined(ss, f, i)]
                  /\ FlattenSeq(ss) = f[Len(ss)]
<1> DEFINE f == CHOOSE g : g = [i \in 1 .. Len(ss) |-> Joined(ss, g, i)]
<1>1. f = [i \in 1 .. Len(ss) |-> Joined(ss, f, i)]
  <2>1. Len(ss) \in Nat
    OBVIOUS
  <2> QED BY <2>1, JoinedExist
<1>2. FlattenSeq(ss) = f[Len(ss)]
  BY DEF FlattenSeq, Joined
<1> QED BY <1>1, <1>2

\* What is joined later leaves what was joined before in its place.
Grows(f, S, i) ==
    /\ f[i] \in Seq(S)
    /\ i <= Len(f[i])
    /\ \A j \in 1 .. i : /\ Len(f[j]) <= Len(f[i])
                         /\ \A x \in 1 .. Len(f[j]) : f[i][x] = f[j][x]

LEMMA ConcatAt ==
    ASSUME NEW S, NEW s \in Seq(S), NEW t \in Seq(S)
    PROVE  /\ Len(s) \in Nat /\ Len(t) \in Nat
           /\ s \o t \in Seq(S) /\ Len(s \o t) = Len(s) + Len(t)
           /\ \A x \in 1 .. Len(s) : (s \o t)[x] = s[x]
           /\ \A x \in 1 .. Len(t) : (s \o t)[Len(s) + x] = t[x]
<1>1. Len(s) \in Nat /\ Len(t) \in Nat
  OBVIOUS
<1>2. /\ s \o t \in Seq(S) /\ Len(s \o t) = Len(s) + Len(t)
      /\ \A i \in 1 .. Len(s) + Len(t) :
            (s \o t)[i] = IF i <= Len(s) THEN s[i] ELSE t[i - Len(s)]
  BY ConcatProperties, Zenon
<1>3. ASSUME NEW x \in 1 .. Len(t) PROVE (s \o t)[Len(s) + x] = t[x]
  <2>1. /\ Len(s) + x \in 1 .. Len(s) + Len(t) /\ ~(Len(s) + x <= Len(s))
        /\ (Len(s) + x) - Len(s) = x
    BY <1>1
  <2> QED BY <1>2, <2>1
<1> QED BY <1>1, <1>2, <1>3

\* One more sequence is joined.
LEMMA GrowsOn ==
    ASSUME NEW S, NEW f, NEW k \in Nat \ {0}, Grows(f, S, k),
           \A j \in 1 .. k : f[j] \in Seq(S),
           NEW s \in Seq(S), s # <<>>, f[k+1] = f[k] \o s
    PROVE  Grows(f, S, k+1)
<1>1. Len(s) \in Nat \ {0}
  BY EmptySeq
<1>2. f[k] \in Seq(S) /\ Len(f[k]) \in Nat /\ k <= Len(f[k])
  BY DEF Grows
<1>3. /\ f[k+1] \in Seq(S) /\ Len(f[k+1]) = Len(f[k]) + Len(s)
      /\ \A x \in 1 .. Len(f[k]) : f[k+1][x] = f[k][x]
  <2>1. /\ f[k] \o s \in Seq(S) /\ Len(f[k] \o s) = Len(f[k]) + Len(s)
        /\ \A x \in 1 .. Len(f[k]) : (f[k] \o s)[x] = f[k][x]
    <3>1. f[k] \in Seq(S)
      BY <1>2, Zenon
    <3> DEFINE r == f[k]
    <3> HIDE DEF r
    <3>2. r \in Seq(S) /\ s \in Seq(S)
      BY <3>1 DEF r
    <3>3. /\ r \o s \in Seq(S) /\ Len(r \o s) = Len(r) + Len(s)
          /\ \A x \in 1 .. Len(r) : (r \o s)[x] = r[x]
      BY ONLY <3>2, ConcatAt
    <3> QED BY <3>3, Zenon DEF r
  <2> QED BY ONLY <2>1, f[k+1] = f[k] \o s, Zenon
<1>4. Len(f[k+1]) \in Nat /\ k+1 <= Len(f[k+1])
  BY <1>1, <1>2, <1>3
<1>5. ASSUME NEW j \in 1 .. k+1
      PROVE  /\ Len(f[j]) <= Len(f[k+1])
             /\ \A x \in 1 .. Len(f[j]) : f[k+1][x] = f[j][x]
  <2>1. CASE j = k+1
    BY <1>4, <2>1
  <2>2. CASE j # k+1
    <3>1. j \in 1 .. k
      BY <2>2
    <3>2. /\ Len(f[j]) <= Len(f[k]) /\ Len(f[j]) \in Nat
          /\ \A x \in 1 .. Len(f[j]) : f[k][x] = f[j][x]
      BY <3>1 DEF Grows
    <3>3. \A x \in 1 .. Len(f[j]) : x \in 1 .. Len(f[k])
      BY <1>2, <3>2
    <3>4. Len(f[j]) <= Len(f[k+1])
      BY <1>1, <1>2, <1>3, <3>2
    <3> QED BY <1>3, <3>2, <3>3, <3>4
  <2> QED BY <2>1, <2>2
<1> QED BY <1>3, <1>4, <1>5 DEF Grows

LEMMA JoinedGrows ==
    ASSUME NEW S, NEW ss \in Seq(Seq(S)), \A i \in 1 .. Len(ss) : ss[i] # <<>>,
           NEW f, f = [i \in 1 .. Len(ss) |-> Joined(ss, f, i)]
    PROVE  \A i \in 1 .. Len(ss) : Grows(f, S, i)
<1> DEFINE N == Len(ss)
           T == {i \in 1 .. N : ~ Grows(f, S, i)}
<1> SUFFICES ASSUME T # {} PROVE FALSE
  OBVIOUS
<1>1. PICK m \in T : \A j \in T : m <= j
  <2>1. T \subseteq Nat
    OBVIOUS
  <2> HIDE DEF T
  <2> QED BY <2>1, Least
<1>2. m \in 1 .. N /\ N \in Nat /\ m \in Nat
  BY <1>1
<1>3. ss[m] \in Seq(S) /\ Len(ss[m]) \in Nat \ {0}
  BY <1>2, EmptySeq
<1>4. f[m] = Joined(ss, f, m)
  BY <1>2
<1>5. CASE m = 1
  <2>1. f[1] = ss[1]
    BY <1>4, <1>5 DEF Joined
  <2>2. Grows(f, S, 1)
    BY <1>3, <1>5, <2>1 DEF Grows
  <2> QED BY <1>1, <1>5, <2>2
<1>6. CASE m # 1
  <2> DEFINE k == m-1
  <2>1. k \in 1 .. N /\ k \in Nat \ {0} /\ k+1 = m /\ ~(m <= k)
    BY <1>2, <1>6
  <2>2. \A j \in 1 .. k : j \in 1 .. N /\ ~(m <= j)
    BY <1>2
  <2>3. \A j \in 1 .. k : Grows(f, S, j)
    BY <1>1, <2>2
  <2>4. f[m] = f[k] \o ss[m]
    BY <1>4, <1>6 DEF Joined
  <2> HIDE DEF T, k
  <2>5. \A j \in 1 .. k : f[j] \in Seq(S)
    BY <2>3 DEF Grows
  <2>6. Grows(f, S, k) /\ ss[m] # <<>> /\ f[k+1] = f[k] \o ss[m]
    <3>1. k \in 1 .. k
      BY <2>1
    <3>2. Grows(f, S, k)
      BY <2>3, <3>1, Zenon
    <3>3. ss[m] # <<>>
      BY <1>2, Zenon
    <3>4. f[k+1] = f[k] \o ss[m]
      BY <2>1, <2>4, Zenon
    <3> QED BY <3>2, <3>3, <3>4, Zenon
  <2>7. Grows(f, S, k+1)
    BY <1>3, <2>1, <2>5, <2>6, GrowsOn, Zenon
  <2> QED BY <1>1, <2>1, <2>7 DEF T
<1> QED BY <1>5, <1>6

(***************************************************************************)
(* A sequence of nonempty sequences that are put one behind the other:     *)
(* each stands whole in its place, for any number of them.                 *)
(***************************************************************************)
LEMMA FlattenStarts ==
    ASSUME NEW S, NEW ss \in Seq(Seq(S)), Len(ss) # 0,
           \A i \in 1 .. Len(ss) : ss[i] # <<>>
    PROVE  FlattenSeq(ss) \in Seq(S) /\ \E at : Starts(ss, FlattenSeq(ss), at)
<1> DEFINE N == Len(ss)
<1>1. PICK f : f = [i \in 1 .. N |-> Joined(ss, f, i)] /\ FlattenSeq(ss) = f[N]
  BY FlattenIs
<1>2. \A i \in 1 .. N : Grows(f, S, i)
  BY <1>1, JoinedGrows
<1>3. N \in Nat \ {0} /\ \A i \in 1 .. N : ss[i] \in Seq(S) /\ Len(ss[i]) \in Nat
  OBVIOUS
<1>4. \A i \in 1 .. N : f[i] = IF i = 1 THEN ss[i] ELSE f[i-1] \o ss[i]
  BY <1>1 DEF Joined
<1>5. \A i \in 1 .. N : f[i] \in Seq(S) /\ Len(f[i]) \in Nat
  BY <1>2 DEF Grows
<1> DEFINE flat == f[N]
           at == [i \in 0 .. N |-> IF i = 0 THEN 0 ELSE Len(f[i])]
<1>6. at \in [0 .. N -> Nat] /\ at[0] = 0 /\ at[N] = Len(flat)
  BY <1>3, <1>5
<1>7. ASSUME NEW i \in 1 .. N
      PROVE  /\ at[i] = at[i-1] + Len(ss[i])
             /\ i <= at[i]
             /\ at[i] <= Len(flat)
             /\ \A x \in 1 .. Len(ss[i]) : flat[at[i-1] + x] = ss[i][x]
  <2>1. at[i] = Len(f[i]) /\ i <= at[i]
    BY <1>2, <1>3 DEF Grows
  <2>2. N \in 1 .. N /\ i \in 1 .. N
    BY <1>3
  <2>3. at[i] <= Len(flat) /\ \A x \in 1 .. Len(f[i]) : flat[x] = f[i][x]
    BY <1>2, <2>1, <2>2 DEF Grows
  <2>4. /\ Len(f[i]) = at[i-1] + Len(ss[i]) /\ at[i-1] \in Nat
        /\ \A x \in 1 .. Len(ss[i]) : f[i][at[i-1] + x] = ss[i][x]
    <3>1. CASE i = 1
      <4>1. at[0] = 0 /\ f[1] = ss[1] /\ i-1 = 0
        BY <1>3, <1>4, <3>1
      <4>2. Len(ss[1]) \in Nat /\ \A x \in 1 .. Len(ss[1]) : 0 + x = x
        BY <1>3, <3>1
      <4> HIDE DEF at
      <4> QED BY <3>1, <4>1, <4>2
    <3>2. CASE i # 1
      <4>0. i-1 \in 1 .. N /\ i-1 # 0 /\ i-1 \in 0 .. N
        BY <1>3, <3>2
      <4>1. at[i-1] = Len(f[i-1]) /\ f[i] = f[i-1] \o ss[i]
        BY <1>4, <3>2, <4>0
      <4> HIDE DEF at
      <4>2. f[i-1] \in Seq(S) /\ ss[i] \in Seq(S)
        BY <1>3, <1>5, <4>0
      <4>3. /\ Len(f[i-1]) \in Nat /\ Len(f[i]) = Len(f[i-1]) + Len(ss[i])
            /\ \A x \in 1 .. Len(ss[i]) : f[i][Len(f[i-1]) + x] = ss[i][x]
        <5> DEFINE g == f[i-1]
                   t == ss[i]
        <5>2. g \in Seq(S) /\ t \in Seq(S)
          BY <4>2
        <5> HIDE DEF g, t
        <5>3. /\ Len(g) \in Nat /\ Len(g \o t) = Len(g) + Len(t)
              /\ \A x \in 1 .. Len(t) : (g \o t)[Len(g) + x] = t[x]
          BY <5>2, ConcatAt
        <5>1. /\ Len(f[i-1]) \in Nat /\ Len(f[i-1] \o ss[i]) = Len(f[i-1]) + Len(ss[i])
              /\ \A x \in 1 .. Len(ss[i]) : (f[i-1] \o ss[i])[Len(f[i-1]) + x] = ss[i][x]
          BY <5>3 DEF g, t
        <5> QED BY <4>1, <5>1, Zenon
      <4> QED BY <4>1, <4>3
    <3> QED BY <3>1, <3>2
  <2> HIDE DEF at, flat
  <2>5. \A x \in 1 .. Len(ss[i]) : at[i-1] + x \in 1 .. Len(f[i])
    BY <1>3, <2>4
  <2> QED BY <2>1, <2>3, <2>4, <2>5
<1>8. Starts(ss, flat, at)
  <2> HIDE DEF at, flat
  <2> QED BY <1>6, <1>7 DEF Starts
<1>9. flat \in Seq(S)
  BY <1>3, <1>5
<1> HIDE DEF at
<1> QED BY <1>1, <1>8, <1>9

-----------------------------------------------------------------------------
(* Ints and units *)

Fields == Sized \union {"count", "auth_response"}

WUnit == [what : Fields \union {"op", "int", "noise"}, no : Nat, at : Nat, val : Int]
WPart == [field : Fields, len : Nat]

LEMMA SizeFacts ==
    /\ IntSize \in Nat \ {0} /\ Half \in Nat /\ Limit \in Nat \ {0} /\ Limit < Half
    /\ MaxNames \in Nat /\ MaxNoise \in Nat
BY WireAssumption

LEMMA ModFacts ==
    ASSUME NEW a \in Int, NEW b \in Nat \ {0}
    PROVE  /\ a % b \in 0 .. b-1
           /\ a \in Nat => a % b <= a
           /\ a \in 0 .. b-1 => a % b = a
OBVIOUS

\* An int keeps what is below 2^31, and what it makes of a size is no more.
LEMMA Int32Facts ==
    ASSUME NEW x \in Int
    PROVE  /\ Int32(x) \in Int
           /\ x \in Nat => Int32(x) <= x
           /\ x \in 0 .. Limit => Int32(x) = x
<1> DEFINE a == x + Half
           b == 2 * Half
<1>1. a \in Int /\ b \in Nat \ {0} /\ Half \in Nat
  BY SizeFacts
<1>2. /\ x \in Nat => a \in Nat
      /\ x \in 0 .. Limit => a \in 0 .. b-1
  BY SizeFacts
<1>3. Int32(x) = (a % b) - Half
  BY DEF Int32
<1>4. a = x + Half
  OBVIOUS
<1> HIDE DEF a, b
<1>5. /\ a % b \in 0 .. b-1
      /\ a \in Nat => a % b <= a
      /\ a \in 0 .. b-1 => a % b = a
  BY <1>1, ModFacts
<1>6. a % b \in Int
  BY <1>1, <1>5
<1> HIDE DEF Int32
<1> QED BY <1>1, <1>2, <1>3, <1>4, <1>5, <1>6

LEMMA IntUnitsAre ==
    ASSUME NEW v \in Int
    PROVE  /\ IntUnits(v) \in Seq(WUnit)
           /\ Len(IntUnits(v)) = IntSize
           /\ IntUnits(v)[1].what = "int" /\ IntUnits(v)[1].at = 1
           /\ IntUnits(v)[1].val = Int32(v)
<1>1. IntSize \in Nat \ {0} /\ Int32(v) \in Int
  BY SizeFacts, Int32Facts
<1>2. ASSUME NEW i \in 1 .. IntSize PROVE Unit("int", 0, i, Int32(v)) \in WUnit
  BY <1>1 DEF Unit, WUnit
<1>3. IntUnits(v) \in [1 .. IntSize -> WUnit]
  BY <1>2 DEF IntUnits
<1>4. IntUnits(v) \in Seq(WUnit) /\ Len(IntUnits(v)) = IntSize
  BY <1>1, <1>3
<1>5. IntUnits(v)[1] = Unit("int", 0, 1, Int32(v))
  BY <1>1 DEF IntUnits
<1> QED BY <1>4, <1>5 DEF Unit

LEMMA BytesAre ==
    ASSUME NEW f \in Fields \union {"noise"}, NEW no \in Nat, NEW len \in Nat
    PROVE  /\ Bytes(f, no, len) \in Seq(WUnit)
           /\ Len(Bytes(f, no, len)) = len
<1>1. ASSUME NEW i \in 1 .. len PROVE Unit(f, no, i, 0) \in WUnit
  BY DEF Unit, WUnit
<1>2. Bytes(f, no, len) \in [1 .. len -> WUnit]
  BY <1>1 DEF Bytes
<1> QED BY <1>2

\* The units of a part that hold what the part is about, after the length.
Skip(p) == IF p.field \in Sized THEN IntSize ELSE 0

Content(p, no) ==
    CASE p.field = "auth_response" -> Bytes("auth_response", no, 1)
      [] p.field = "count"         -> IntUnits(p.len)
      [] OTHER -> Bytes(p.field, no, p.len)

LEMMA FieldKinds ==
    /\ "auth_response" \notin Sized /\ "count" \notin Sized
    /\ Sized \subseteq Fields
BY DEF Sized, Fields

LEMMA WrittenIs ==
    ASSUME NEW p \in WPart, NEW no \in Nat
    PROVE  /\ Written(p, no) \in Seq(WUnit)
           /\ Content(p, no) \in Seq(WUnit)
           /\ Len(Written(p, no)) = Skip(p) + Len(Content(p, no))
           /\ Len(Written(p, no)) \in Nat \ {0}
           /\ Skip(p) \in Nat /\ Len(Content(p, no)) \in Nat
           /\ \A x \in 1 .. Len(Content(p, no)) : Written(p, no)[Skip(p) + x] = Content(p, no)[x]
           /\ p.field = "auth_response" => Len(Content(p, no)) = 1
           /\ p.field = "count" => Len(Content(p, no)) = IntSize
           /\ p.field \in Sized => Len(Content(p, no)) = p.len
           /\ p.field # "auth_response" => /\ Written(p, no)[1].what = "int"
                                           /\ Written(p, no)[1].at = 1
                                           /\ Written(p, no)[1].val = Int32(p.len)
<1>1. p.len \in Nat /\ p.len \in Int /\ p.field \in Fields /\ IntSize \in Nat \ {0}
  BY SizeFacts DEF WPart
<1>2. CASE p.field = "auth_response"
  <2>1. Written(p, no) = Bytes("auth_response", no, 1) /\ Content(p, no) = Bytes("auth_response", no, 1)
    BY <1>2 DEF Written, Content
  <2>2. Skip(p) = 0
    BY <1>2, FieldKinds DEF Skip
  <2>3. Bytes("auth_response", no, 1) \in Seq(WUnit) /\ Len(Bytes("auth_response", no, 1)) = 1
    BY BytesAre DEF Fields
  <2> QED BY <1>2, <2>1, <2>2, <2>3, FieldKinds
<1>3. CASE p.field = "count"
  <2>1. Written(p, no) = IntUnits(p.len) /\ Content(p, no) = IntUnits(p.len)
    BY <1>3 DEF Written, Content
  <2>2. Skip(p) = 0
    BY <1>3, FieldKinds DEF Skip
  <2> QED BY <1>1, <1>3, <2>1, <2>2, FieldKinds, IntUnitsAre
<1>4. CASE p.field \in Sized
  <2>1. p.field # "auth_response" /\ p.field # "count"
    BY <1>4, FieldKinds
  <2> DEFINE s == IntUnits(p.len)
             t == Bytes(p.field, no, p.len)
  <2>2. Written(p, no) = s \o t /\ Content(p, no) = t /\ Skip(p) = IntSize
    BY <1>4, <2>1 DEF Written, Content, Skip
  <2>3. /\ s \in Seq(WUnit) /\ Len(s) = IntSize
        /\ s[1].what = "int" /\ s[1].at = 1 /\ s[1].val = Int32(p.len)
    BY <1>1, IntUnitsAre
  <2>4. t \in Seq(WUnit) /\ Len(t) = p.len
    BY <1>1, BytesAre
  <2> HIDE DEF s, t
  <2>5. /\ s \o t \in Seq(WUnit) /\ Len(s \o t) = Len(s) + Len(t)
        /\ \A x \in 1 .. Len(s) : (s \o t)[x] = s[x]
        /\ \A x \in 1 .. Len(t) : (s \o t)[Len(s) + x] = t[x]
    <3>1. s \in Seq(WUnit) /\ t \in Seq(WUnit)
      BY <2>3, <2>4
    <3> QED BY ONLY <3>1, ConcatAt
  <2>6. (s \o t)[1] = s[1]
    BY <1>1, <2>3, <2>5
  <2>7. \A x \in 1 .. Len(t) : (s \o t)[IntSize + x] = t[x]
    BY <2>3, <2>5
  <2> QED BY <1>1, <1>4, <2>1, <2>2, <2>3, <2>4, <2>5, <2>6, <2>7, SMTT(30)
<1> QED BY <1>1, <1>2, <1>3, <1>4 DEF Fields

-----------------------------------------------------------------------------
(* Where the parts of a message are in its body *)

Placed(m, at) ==
    LET N == Len(m.parts)
        b == Serialized(m)
    IN  /\ at \in [0 .. N -> Nat]
        /\ at[0] = 1
        /\ at[N] = Len(b)
        /\ \A i \in 1 .. N :
              /\ at[i] = at[i-1] + Len(Written(m.parts[i], i))
              /\ i + 1 <= at[i]
              /\ at[i] <= Len(b)
              /\ \A x \in 1 .. Len(Written(m.parts[i], i)) :
                    b[at[i-1] + x] = Written(m.parts[i], i)[x]

LEMMA SerializedIs ==
    ASSUME NEW m, m.op \in Int, m.parts \in Seq(WPart), Len(m.parts) # 0
    PROVE  /\ Serialized(m) \in Seq(WUnit)
           /\ Len(Serialized(m)) \in Nat \ {0}
           /\ \E at : Placed(m, at)
<1> DEFINE N == Len(m.parts)
           ss == [i \in 1 .. N |-> Written(m.parts[i], i)]
           flat == FlattenSeq(ss)
           head == <<Unit("op", 0, 1, m.op)>>
<1>1. N \in Nat \ {0} /\ \A i \in 1 .. N : m.parts[i] \in WPart
  OBVIOUS
<1>2. \A i \in 1 .. N : /\ ss[i] = Written(m.parts[i], i)
                        /\ ss[i] \in Seq(WUnit) /\ Len(ss[i]) \in Nat \ {0}
  BY <1>1, WrittenIs
<1>3. ss \in Seq(Seq(WUnit)) /\ Len(ss) = N
  <2>1. ss \in [1 .. N -> Seq(WUnit)]
    BY <1>2
  <2> HIDE DEF ss
  <2> QED BY <1>1, <2>1
<1>4. head \in Seq(WUnit) /\ Len(head) = 1
  <2>1. Unit("op", 0, 1, m.op) \in WUnit
    BY DEF Unit, WUnit
  <2> QED BY <2>1
<1>5. Serialized(m) = head \o flat
  BY DEF Serialized
<1> HIDE DEF ss, head
<1>6. \A i \in 1 .. Len(ss) : ss[i] # <<>>
  BY <1>2, <1>3
<1>7. flat \in Seq(WUnit) /\ \E at : Starts(ss, flat, at)
  BY <1>1, <1>3, <1>6, FlattenStarts
<1> HIDE DEF flat
<1>8. PICK s : Starts(ss, flat, s)
  BY <1>7
<1>9. /\ Serialized(m) \in Seq(WUnit) /\ Len(Serialized(m)) = 1 + Len(flat)
      /\ Len(flat) \in Nat
      /\ \A x \in 1 .. Len(flat) : Serialized(m)[1 + x] = flat[x]
  <2>1. /\ head \o flat \in Seq(WUnit) /\ Len(head \o flat) = Len(head) + Len(flat)
        /\ Len(flat) \in Nat
        /\ \A x \in 1 .. Len(flat) : (head \o flat)[Len(head) + x] = flat[x]
    <3>1. head \in Seq(WUnit) /\ flat \in Seq(WUnit)
      BY <1>4, <1>7
    <3> QED BY ONLY <3>1, ConcatAt
  <2> QED BY <1>4, <1>5, <2>1
<1> DEFINE at == [i \in 0 .. N |-> 1 + s[i]]
<1>10. /\ s \in [0 .. N -> Nat] /\ s[0] = 0 /\ s[N] = Len(flat)
       /\ \A i \in 1 .. N : /\ s[i] = s[i-1] + Len(ss[i]) /\ i <= s[i] /\ s[i] <= Len(flat)
                            /\ \A x \in 1 .. Len(ss[i]) : flat[s[i-1] + x] = ss[i][x]
  BY <1>3, <1>8 DEF Starts
<1>11. /\ at \in [0 .. N -> Nat] /\ at[0] = 1 /\ at[N] = Len(Serialized(m))
  BY <1>1, <1>9, <1>10
<1>12. ASSUME NEW i \in 1 .. N
       PROVE  /\ at[i] = at[i-1] + Len(Written(m.parts[i], i))
              /\ i + 1 <= at[i]
              /\ at[i] <= Len(Serialized(m))
              /\ \A x \in 1 .. Len(Written(m.parts[i], i)) :
                    Serialized(m)[at[i-1] + x] = Written(m.parts[i], i)[x]
  <2> DEFINE w == Written(m.parts[i], i)
  <2>1. /\ i \in 0 .. N /\ i-1 \in 0 .. N /\ s[i] \in Nat /\ s[i-1] \in Nat
        /\ w = ss[i] /\ Len(w) \in Nat
    <3>1. i \in 0 .. N /\ i-1 \in 0 .. N
      BY <1>1
    <3>2. w = ss[i] /\ Len(w) \in Nat
      BY <1>2
    <3> HIDE DEF w, N
    <3>3. s[i] \in Nat /\ s[i-1] \in Nat
      BY <1>10, <3>1
    <3> QED BY <3>1, <3>2, <3>3
  <2> HIDE DEF w
  <2>2. at[i] = 1 + s[i] /\ at[i-1] = 1 + s[i-1]
    BY <2>1
  <2> HIDE DEF at
  <2>3. /\ s[i] = s[i-1] + Len(w) /\ i <= s[i] /\ s[i] <= Len(flat)
        /\ \A x \in 1 .. Len(w) : flat[s[i-1] + x] = w[x]
    BY <1>10, <2>1
  <2>4. ASSUME NEW x \in 1 .. Len(w) PROVE Serialized(m)[at[i-1] + x] = w[x]
    <3>1. /\ s[i-1] + x \in 1 .. Len(flat)
          /\ at[i-1] + x = 1 + (s[i-1] + x)
      <4>1. s[i-1] + x \in Nat /\ 1 <= s[i-1] + x /\ s[i-1] + x <= s[i]
        BY <2>1, <2>3
      <4>2. s[i-1] + x \in 1 .. Len(flat)
        BY <1>9, <2>1, <2>3, <4>1
      <4>3. at[i-1] + x = 1 + (s[i-1] + x)
        BY <2>1, <2>2
      <4> QED BY <4>2, <4>3
    <3> QED BY <1>9, <2>3, <3>1
  <2>5. /\ at[i] = at[i-1] + Len(w) /\ i + 1 <= at[i] /\ at[i] <= Len(Serialized(m))
    <3> DEFINE a == s[i-1]
               z == s[i]
               l == Len(w)
               L == Len(flat)
    <3>1. z = a + l /\ i <= z /\ z <= L
      BY <2>3
    <3>2. a \in Nat /\ z \in Nat /\ l \in Nat /\ L \in Nat /\ i \in Nat
      BY <1>9, <2>1
    <3>3. at[i] = 1 + z /\ at[i-1] = 1 + a /\ Len(Serialized(m)) = 1 + L
      BY <1>9, <2>2
    <3> HIDE DEF a, z, l, L
    <3>4. 1 + z = (1 + a) + l /\ i + 1 <= 1 + z /\ 1 + z <= 1 + L
      BY ONLY <3>1, <3>2
    <3> QED BY <3>3, <3>4 DEF l
  <2> QED BY <2>4, <2>5 DEF w
<1>13. Placed(m, at)
  <2> HIDE DEF at
  <2> QED BY <1>11, <1>12 DEF Placed
<1> HIDE DEF at
<1> QED BY <1>9, <1>13

-----------------------------------------------------------------------------
(* The messages, and the readers that they meet *)

\* A list is the one message with a count, and the count is that of its names.
IsList(m) == Len(m.parts) >= 2 /\ m.parts[2].field = "count"

IsMessage(m) ==
    /\ m.op \in Nat \ {0}
    /\ m.parts \in Seq(WPart)
    /\ Len(m.parts) # 0
    /\ \A i \in 1 .. Len(m.parts) : m.parts[i].field = "count" => i = 2
    /\ IsList(m) => /\ Len(m.parts) = 2 + m.parts[2].len
                    /\ \A i \in 3 .. Len(m.parts) : m.parts[i].field = "filename"

\* The reader of layout looks for the parts of m, up to the count of a list.
Opens(m, layout) ==
    /\ layout \in Seq(Fields)
    /\ Len(layout) = IF IsList(m) THEN 2 ELSE Len(m.parts)
    /\ \A i \in 1 .. Len(layout) : layout[i] = m.parts[i].field

LEMMA LengthsAre == \A f : Lengths(f) \subseteq Nat
BY WireAssumption DEF Lengths

LEMMA MessagesAre ==
    ASSUME NEW op, NEW layout \in Seq(Fields), NEW m \in Messages(op, layout)
    PROVE  /\ m.op = op
           /\ m.parts \in Seq(WPart)
           /\ Len(m.parts) = Len(layout)
           /\ \A i \in 1 .. Len(layout) : m.parts[i].field = layout[i]
<1> DEFINE N == 1 .. Len(layout)
           K == {k \in [N -> UNION {Lengths(layout[i]) : i \in N}] :
                    \A i \in N : k[i] \in Lengths(layout[i])}
           parts(l) == [i \in N |-> [field |-> layout[i], len |-> l[i]]]
<1>1. m \in {[op |-> op, parts |-> parts(l)] : l \in K}
  BY DEF Messages
<1> HIDE DEF parts, K
<1>2. PICK l \in K : m = [op |-> op, parts |-> parts(l)]
  BY <1>1
<1>3. \A i \in N : l[i] \in Nat /\ layout[i] \in Fields
  BY <1>2, LengthsAre DEF K
<1>4. m.op = op /\ m.parts = parts(l)
  BY <1>2
<1>5. parts(l) \in [N -> WPart] /\ \A i \in N : parts(l)[i].field = layout[i]
  BY <1>3 DEF parts, WPart
<1>6. parts(l) \in Seq(WPart) /\ Len(parts(l)) = Len(layout)
  <2>1. Len(layout) \in Nat
    OBVIOUS
  <2> QED BY <1>5, <2>1
<1> QED BY <1>4, <1>5, <1>6

LEMMA Domains ==
    /\ DOMAIN ClientWrites = {"POST_SALT", "POST_RESPONSE", "POST_SALT_REQUEST",
          "POST_CHALLENGE_REQUEST", "POST_UPLOAD", "POST_DOWNLOAD_REQUEST",
          "POST_LIST_REQUEST", "POST_DELETE_REQUEST"}
    /\ DOMAIN ServerReads = {"GET_SALT", "GET_RESPONSE", "GET_SALT_REQUEST",
          "GET_CHALLENGE_REQUEST", "GET_UPLOAD", "GET_DOWNLOAD_REQUEST",
          "GET_LIST_REQUEST", "GET_DELETE_REQUEST"}
    /\ DOMAIN ServerWrites = {"POST_SALT", "POST_CHALLENGE", "POST_AUTH_RESPONSE",
          "POST_DOWNLOAD", "POST_LIST"}
    /\ DOMAIN ClientReads = {"GET_SALT", "GET_CHALLENGE", "GET_AUTH_RESPONSE",
          "GET_DOWNLOAD", "GET_LIST"}
BY DEF ClientWrites, ServerReads, ServerWrites, ClientReads

LEMMA RequestNumbers ==
    /\ ClientOp["POST_SALT"] = 1 /\ ClientOp["POST_RESPONSE"] = 4
    /\ ClientOp["POST_SALT_REQUEST"] = 6 /\ ClientOp["POST_CHALLENGE_REQUEST"] = 7
    /\ ClientOp["POST_UPLOAD"] = 8 /\ ClientOp["POST_DOWNLOAD_REQUEST"] = 10
    /\ ClientOp["POST_LIST_REQUEST"] = 11 /\ ClientOp["POST_DELETE_REQUEST"] = 13
    /\ ServerOp["GET_SALT"] = 1 /\ ServerOp["GET_RESPONSE"] = 4
    /\ ServerOp["GET_SALT_REQUEST"] = 6 /\ ServerOp["GET_CHALLENGE_REQUEST"] = 7
    /\ ServerOp["GET_UPLOAD"] = 8 /\ ServerOp["GET_DOWNLOAD_REQUEST"] = 10
    /\ ServerOp["GET_LIST_REQUEST"] = 11 /\ ServerOp["GET_DELETE_REQUEST"] = 13
BY DEF ClientOp, ServerOp

LEMMA AnswerNumbers ==
    /\ ServerOp["POST_SALT"] = 2 /\ ServerOp["POST_CHALLENGE"] = 3
    /\ ServerOp["POST_AUTH_RESPONSE"] = 5 /\ ServerOp["POST_DOWNLOAD"] = 9
    /\ ServerOp["POST_LIST"] = 12
    /\ ClientOp["GET_SALT"] = 2 /\ ClientOp["GET_CHALLENGE"] = 3
    /\ ClientOp["GET_AUTH_RESPONSE"] = 5 /\ ClientOp["GET_DOWNLOAD"] = 9
    /\ ClientOp["GET_LIST"] = 12
BY DEF ClientOp, ServerOp

\* Each request has one reader, which looks for the parts that were written.
LEMMA RequestReader ==
    ASSUME NEW k \in DOMAIN ClientWrites
    PROVE  /\ ClientOp[k] \in Nat \ {0}
           /\ \E j \in DOMAIN ServerReads :
                 /\ ServerReads[j] = ClientWrites[k]
                 /\ {i \in DOMAIN ServerReads : ServerOp[i] = ClientOp[k]} = {j}
<1> DEFINE One(a, b) ==
              /\ ClientOp[a] \in Nat \ {0}
              /\ b \in DOMAIN ServerReads
              /\ ServerReads[b] = ClientWrites[a]
              /\ {i \in DOMAIN ServerReads : ServerOp[i] = ClientOp[a]} = {b}
<1>1. One("POST_SALT", "GET_SALT")
  <2>1. ServerReads["GET_SALT"] = ClientWrites["POST_SALT"]
    BY DEF ServerReads, ClientWrites
  <2> QED BY <2>1, RequestNumbers, Domains
<1>2. One("POST_RESPONSE", "GET_RESPONSE")
  <2>1. ServerReads["GET_RESPONSE"] = ClientWrites["POST_RESPONSE"]
    BY DEF ServerReads, ClientWrites
  <2> QED BY <2>1, RequestNumbers, Domains
<1>3. One("POST_SALT_REQUEST", "GET_SALT_REQUEST")
  <2>1. ServerReads["GET_SALT_REQUEST"] = ClientWrites["POST_SALT_REQUEST"]
    BY DEF ServerReads, ClientWrites
  <2> QED BY <2>1, RequestNumbers, Domains
<1>4. One("POST_CHALLENGE_REQUEST", "GET_CHALLENGE_REQUEST")
  <2>1. ServerReads["GET_CHALLENGE_REQUEST"] = ClientWrites["POST_CHALLENGE_REQUEST"]
    BY DEF ServerReads, ClientWrites
  <2> QED BY <2>1, RequestNumbers, Domains
<1>5. One("POST_UPLOAD", "GET_UPLOAD")
  <2>1. ServerReads["GET_UPLOAD"] = ClientWrites["POST_UPLOAD"]
    BY DEF ServerReads, ClientWrites
  <2> QED BY <2>1, RequestNumbers, Domains
<1>6. One("POST_DOWNLOAD_REQUEST", "GET_DOWNLOAD_REQUEST")
  <2>1. ServerReads["GET_DOWNLOAD_REQUEST"] = ClientWrites["POST_DOWNLOAD_REQUEST"]
    BY DEF ServerReads, ClientWrites
  <2> QED BY <2>1, RequestNumbers, Domains
<1>7. One("POST_LIST_REQUEST", "GET_LIST_REQUEST")
  <2>1. ServerReads["GET_LIST_REQUEST"] = ClientWrites["POST_LIST_REQUEST"]
    BY DEF ServerReads, ClientWrites
  <2> QED BY <2>1, RequestNumbers, Domains
<1>8. One("POST_DELETE_REQUEST", "GET_DELETE_REQUEST")
  <2>1. ServerReads["GET_DELETE_REQUEST"] = ClientWrites["POST_DELETE_REQUEST"]
    BY DEF ServerReads, ClientWrites
  <2> QED BY <2>1, RequestNumbers, Domains
<1> HIDE DEF One
<1>9. \E j : One(k, j)
  BY <1>1, <1>2, <1>3, <1>4, <1>5, <1>6, <1>7, <1>8, Domains
<1> QED BY <1>9 DEF One

\* What the client reads of an answer is what the server writes of it.
LEMMA AnswerReader ==
    ASSUME NEW k \in DOMAIN ServerWrites
    PROVE  /\ ServerOp[k] \in Nat \ {0}
           /\ k # "POST_LIST" => ServerOp[k] # 12
           /\ \A j \in DOMAIN ClientReads :
                 ClientOp[j] = ServerOp[k] => ClientReads[j] = ServerWrites[k]
<1>1. /\ ClientReads["GET_SALT"] = ServerWrites["POST_SALT"]
      /\ ClientReads["GET_CHALLENGE"] = ServerWrites["POST_CHALLENGE"]
      /\ ClientReads["GET_AUTH_RESPONSE"] = ServerWrites["POST_AUTH_RESPONSE"]
      /\ ClientReads["GET_DOWNLOAD"] = ServerWrites["POST_DOWNLOAD"]
      /\ ClientReads["GET_LIST"] = ServerWrites["POST_LIST"]
  BY DEF ClientReads, ServerWrites
<1> QED BY <1>1, AnswerNumbers, Domains

\* No layout but that of a list has a count.
LEMMA Layouts ==
    /\ \A k \in DOMAIN ClientWrites :
          /\ ClientWrites[k] \in Seq(Fields \ {"count"})
          /\ Len(ClientWrites[k]) # 0
    /\ \A k \in DOMAIN ServerWrites \ {"POST_LIST"} :
          /\ ServerWrites[k] \in Seq(Fields \ {"count"})
          /\ Len(ServerWrites[k]) # 0
    /\ ServerWrites["POST_LIST"] = <<"user", "count">>
<1> DEFINE F == Fields \ {"count"}
<1>1. /\ "user" \in F /\ "salt" \in F /\ "pub" \in F /\ "response" \in F /\ "r_bytes" \in F
      /\ "challenge" \in F /\ "data" \in F /\ "filename" \in F /\ "auth_response" \in F
  BY DEF Fields, Sized
<1> HIDE DEF F
<1>2. \A k \in DOMAIN ClientWrites : ClientWrites[k] \in Seq(F) /\ Len(ClientWrites[k]) # 0
  <2>1. <<"user", "salt", "pub">> \in Seq(F) /\ Len(<<"user", "salt", "pub">>) = 3
    BY <1>1
  <2>2. /\ <<"user", "pub", "response", "r_bytes", "challenge">> \in Seq(F)
        /\ Len(<<"user", "pub", "response", "r_bytes", "challenge">>) = 5
    BY <1>1
  <2>3. <<"user">> \in Seq(F) /\ Len(<<"user">>) = 1
    BY <1>1
  <2>4. <<"user", "data", "filename">> \in Seq(F) /\ Len(<<"user", "data", "filename">>) = 3
    BY <1>1
  <2>5. <<"user", "filename">> \in Seq(F) /\ Len(<<"user", "filename">>) = 2
    BY <1>1
  <2>6. /\ ClientWrites["POST_SALT"] = <<"user", "salt", "pub">>
        /\ ClientWrites["POST_RESPONSE"] = <<"user", "pub", "response", "r_bytes", "challenge">>
        /\ ClientWrites["POST_SALT_REQUEST"] = <<"user">>
        /\ ClientWrites["POST_CHALLENGE_REQUEST"] = <<"user">>
        /\ ClientWrites["POST_UPLOAD"] = <<"user", "data", "filename">>
        /\ ClientWrites["POST_DOWNLOAD_REQUEST"] = <<"user", "filename">>
        /\ ClientWrites["POST_LIST_REQUEST"] = <<"user">>
        /\ ClientWrites["POST_DELETE_REQUEST"] = <<"user", "filename">>
    BY DEF ClientWrites
  <2> DEFINE Ok(l) == l \in Seq(F) /\ Len(l) # 0
  <2>7. /\ Ok(<<"user", "salt", "pub">>)
        /\ Ok(<<"user", "pub", "response", "r_bytes", "challenge">>)
        /\ Ok(<<"user">>)
        /\ Ok(<<"user", "data", "filename">>)
        /\ Ok(<<"user", "filename">>)
    BY <2>1, <2>2, <2>3, <2>4, <2>5
  <2>8. ASSUME NEW k \in DOMAIN ClientWrites PROVE Ok(ClientWrites[k])
    <3> HIDE DEF Ok
    <3> QED BY <2>6, <2>7, Domains
  <2> QED BY <2>8
<1>3. \A k \in DOMAIN ServerWrites \ {"POST_LIST"} :
         ServerWrites[k] \in Seq(F) /\ Len(ServerWrites[k]) # 0
  <2>1. <<"user", "salt">> \in Seq(F) /\ Len(<<"user", "salt">>) = 2
    BY <1>1
  <2>2. <<"user", "challenge">> \in Seq(F) /\ Len(<<"user", "challenge">>) = 2
    BY <1>1
  <2>3. <<"user", "auth_response">> \in Seq(F) /\ Len(<<"user", "auth_response">>) = 2
    BY <1>1
  <2>4. <<"user", "data", "filename">> \in Seq(F) /\ Len(<<"user", "data", "filename">>) = 3
    BY <1>1
  <2>5. /\ ServerWrites["POST_SALT"] = <<"user", "salt">>
        /\ ServerWrites["POST_CHALLENGE"] = <<"user", "challenge">>
        /\ ServerWrites["POST_AUTH_RESPONSE"] = <<"user", "auth_response">>
        /\ ServerWrites["POST_DOWNLOAD"] = <<"user", "data", "filename">>
    BY DEF ServerWrites
  <2> DEFINE Ok(l) == l \in Seq(F) /\ Len(l) # 0
  <2>6. /\ Ok(<<"user", "salt">>)
        /\ Ok(<<"user", "challenge">>)
        /\ Ok(<<"user", "auth_response">>)
        /\ Ok(<<"user", "data", "filename">>)
    BY <2>1, <2>2, <2>3, <2>4
  <2>7. ASSUME NEW k \in DOMAIN ServerWrites \ {"POST_LIST"} PROVE Ok(ServerWrites[k])
    <3> HIDE DEF Ok
    <3> QED BY <2>5, <2>6, Domains
  <2> QED BY <2>7
<1>4. ServerWrites["POST_LIST"] = <<"user", "count">>
  BY DEF ServerWrites
<1> QED BY <1>2, <1>3, <1>4 DEF F

\* A message without a count is read with the layout it was written with.
LEMMA PlainOpens ==
    ASSUME NEW op \in Nat \ {0}, NEW layout \in Seq(Fields \ {"count"}), Len(layout) # 0,
           NEW m \in Messages(op, layout)
    PROVE  m.op = op /\ IsMessage(m) /\ Opens(m, layout)
<1>1. layout \in Seq(Fields) /\ Len(layout) \in Nat
      /\ \A i \in 1 .. Len(layout) : layout[i] # "count"
  BY SeqMonotonic
<1>2. /\ m.op = op /\ m.parts \in Seq(WPart) /\ Len(m.parts) = Len(layout)
      /\ \A i \in 1 .. Len(layout) : m.parts[i].field = layout[i]
  BY <1>1, MessagesAre
<1>3. ~ IsList(m)
  BY <1>1, <1>2 DEF IsList
<1> QED BY <1>1, <1>2, <1>3 DEF IsMessage, Opens

\* A list is read with the layout of its first two parts.
LEMMA ListOpens ==
    ASSUME NEW op \in Nat \ {0}, NEW c \in Nat,
           NEW m \in Messages(op, <<"user", "count">> \o Names(c)), m.parts[2].len = c
    PROVE  m.op = op /\ IsMessage(m) /\ Opens(m, <<"user", "count">>)
<1> DEFINE head == <<"user", "count">>
           layout == head \o Names(c)
<1>1. "user" \in Fields /\ "count" \in Fields /\ "filename" \in Fields
  BY DEF Fields, Sized
<1>2. head \in Seq(Fields) /\ Len(head) = 2 /\ head[1] = "user" /\ head[2] = "count"
  BY <1>1
<1>3. Names(c) \in Seq(Fields) /\ Len(Names(c)) = c /\ \A i \in 1 .. c : Names(c)[i] = "filename"
  BY <1>1 DEF Names
<1> HIDE DEF head
<1>4. /\ layout \in Seq(Fields) /\ Len(layout) = 2 + c
      /\ layout[1] = "user" /\ layout[2] = "count"
      /\ \A i \in 1 .. c : layout[2 + i] = "filename"
  <2>1. head \in Seq(Fields) /\ Names(c) \in Seq(Fields)
    BY <1>2, <1>3
  <2>2. /\ layout \in Seq(Fields) /\ Len(layout) = Len(head) + Len(Names(c))
        /\ \A x \in 1 .. Len(head) : layout[x] = head[x]
        /\ \A x \in 1 .. Len(Names(c)) : layout[Len(head) + x] = Names(c)[x]
    BY ONLY <2>1, ConcatAt
  <2> HIDE DEF layout
  <2> QED BY <1>2, <1>3, <2>2
<1>5. m \in Messages(op, layout)
  BY DEF head
<1> HIDE DEF layout
<1>6. /\ m.op = op /\ m.parts \in Seq(WPart) /\ Len(m.parts) = 2 + c
      /\ \A i \in 1 .. 2 + c : m.parts[i].field = layout[i]
  BY <1>4, <1>5, MessagesAre
<1>7. ASSUME NEW i \in 3 .. 2 + c PROVE layout[i] = "filename"
  <2>1. i - 2 \in 1 .. c /\ 2 + (i - 2) = i
    OBVIOUS
  <2> QED BY <1>4, <2>1
<1>8. m.parts[1].field = "user" /\ m.parts[2].field = "count"
  BY <1>4, <1>6
<1>9. IsList(m)
  BY <1>6, <1>8 DEF IsList
<1>10. ASSUME NEW i \in 1 .. Len(m.parts), m.parts[i].field = "count" PROVE i = 2
  <2>1. i = 1 \/ i = 2 \/ i \in 3 .. 2 + c
    BY <1>6
  <2> QED BY <1>6, <1>7, <1>8, <1>10, <2>1
<1>11. \A i \in 3 .. Len(m.parts) : m.parts[i].field = "filename"
  BY <1>6, <1>7
<1>12. IsMessage(m)
  BY <1>6, <1>9, <1>10, <1>11 DEF IsMessage
<1>13. Opens(m, head)
  BY <1>2, <1>8, <1>9 DEF Opens
<1> QED BY <1>6, <1>12, <1>13 DEF head

LEMMA RequestOpens ==
    ASSUME NEW m \in Requests
    PROVE  LET kinds == {k \in DOMAIN ServerReads : ServerOp[k] = m.op}
           IN  /\ IsMessage(m)
               /\ kinds # {}
               /\ Opens(m, ServerReads[CHOOSE k \in kinds : TRUE])
<1>1. PICK k \in DOMAIN ClientWrites : m \in Messages(ClientOp[k], ClientWrites[k])
  BY DEF Requests
<1>2. m.op = ClientOp[k] /\ IsMessage(m) /\ Opens(m, ClientWrites[k])
  BY <1>1, RequestReader, Layouts, PlainOpens
<1>3. PICK j \in DOMAIN ServerReads :
         /\ ServerReads[j] = ClientWrites[k]
         /\ {i \in DOMAIN ServerReads : ServerOp[i] = ClientOp[k]} = {j}
  BY RequestReader
<1> QED BY <1>2, <1>3

LEMMA AnswerOpens ==
    ASSUME NEW m \in Answers
    PROVE  /\ IsMessage(m)
           /\ \A k \in DOMAIN ClientReads : ClientOp[k] = m.op => Opens(m, ClientReads[k])
<1>1. \/ \E k \in DOMAIN ServerWrites \ {"POST_LIST"} :
            m \in Messages(ServerOp[k], ServerWrites[k])
      \/ \E c \in 0 .. MaxNames :
            /\ m \in Messages(ServerOp["POST_LIST"], ServerWrites["POST_LIST"] \o Names(c))
            /\ m.parts[2].len = c
  <2> DEFINE L(c) == {a \in Messages(ServerOp.POST_LIST, ServerWrites.POST_LIST \o Names(c)) :
                         a.parts[2].len = c}
             M(k) == Messages(ServerOp[k], ServerWrites[k])
  <2> DEFINE Plain == UNION {M(k) : k \in DOMAIN ServerWrites \ {"POST_LIST"}}
             Lists == UNION {L(c) : c \in 0 .. MaxNames}
  <2>1. m \in Plain \union Lists
    BY DEF Answers
  <2>2. \A c : m \in L(c) =>
           /\ m \in Messages(ServerOp["POST_LIST"], ServerWrites["POST_LIST"] \o Names(c))
           /\ m.parts[2].len = c
    OBVIOUS
  <2>3. \A k : m \in M(k) => m \in Messages(ServerOp[k], ServerWrites[k])
    OBVIOUS
  <2> HIDE DEF L, M
  <2>4. \/ \E k \in DOMAIN ServerWrites \ {"POST_LIST"} : m \in M(k)
        \/ \E c \in 0 .. MaxNames : m \in L(c)
    <3>1. \/ m \in UNION {M(k) : k \in DOMAIN ServerWrites \ {"POST_LIST"}}
          \/ m \in UNION {L(c) : c \in 0 .. MaxNames}
      <4>1. m \in Plain \/ m \in Lists
        <5> HIDE DEF Plain, Lists
        <5> QED BY <2>1
      <4> QED BY <4>1
    <3>2. CASE m \in UNION {M(k) : k \in DOMAIN ServerWrites \ {"POST_LIST"}}
      <4>1. PICK X \in {M(k) : k \in DOMAIN ServerWrites \ {"POST_LIST"}} : m \in X
        BY <3>2
      <4> QED BY <4>1
    <3>3. CASE m \in UNION {L(c) : c \in 0 .. MaxNames}
      <4>1. PICK X \in {L(c) : c \in 0 .. MaxNames} : m \in X
        BY <3>3
      <4> QED BY <4>1
    <3> QED BY <3>1, <3>2, <3>3
  <2> QED BY <2>2, <2>3, <2>4
<1>2. ASSUME NEW k \in DOMAIN ServerWrites \ {"POST_LIST"},
             m \in Messages(ServerOp[k], ServerWrites[k])
      PROVE  /\ IsMessage(m)
             /\ \A j \in DOMAIN ClientReads : ClientOp[j] = m.op => Opens(m, ClientReads[j])
  <2>1. m.op = ServerOp[k] /\ IsMessage(m) /\ Opens(m, ServerWrites[k])
    BY <1>2, AnswerReader, Layouts, PlainOpens
  <2> QED BY <2>1, AnswerReader
<1>3. ASSUME NEW c \in 0 .. MaxNames,
             m \in Messages(ServerOp["POST_LIST"], ServerWrites["POST_LIST"] \o Names(c)),
             m.parts[2].len = c
      PROVE  /\ IsMessage(m)
             /\ \A j \in DOMAIN ClientReads : ClientOp[j] = m.op => Opens(m, ClientReads[j])
  <2>1. m \in Messages(12, <<"user", "count">> \o Names(c)) /\ c \in Nat
    BY <1>3, AnswerNumbers, Layouts, SizeFacts
  <2>2. m.op = 12 /\ IsMessage(m) /\ Opens(m, <<"user", "count">>)
    BY <1>3, <2>1, ListOpens
  <2>3. "POST_LIST" \in DOMAIN ServerWrites
    BY Domains
  <2> QED BY <2>2, <2>3, AnswerReader, AnswerNumbers, Layouts
<1> QED BY <1>1, <1>2, <1>3

-----------------------------------------------------------------------------
(* The invariant *)

WPieces == [field : Fields, units : Seq(WUnit)]

WTypes ==
    /\ state \in {"idle", "reading", "refused"}
    /\ body \in Seq(WUnit)
    /\ index \in 0 .. Len(body)
    /\ Len(body) <= IF sent = NoMessage THEN MaxNoise ELSE Limit
    /\ out \in Seq(WPieces)
    /\ \A i \in 1 .. Len(out) : Len(out[i].units) <= Len(body)
    /\ todo \in Seq(Fields)

\* The part that is read next, and its number.
PartNo == Len(out) + 1
Part   == sent.parts[PartNo]

\* The reader stands where its next part begins, and has read those before.
Stands ==
    /\ body = Serialized(sent)
    /\ Len(out) <= Len(sent.parts)
    /\ \A i \in 1 .. Len(out) :
          out[i] = [field |-> sent.parts[i].field, units |-> Content(sent.parts[i], i)]
    /\ \E at : Placed(sent, at) /\ index = at[Len(out)]

\* It looks for the parts that follow, up to the count of a list.
LooksFor ==
    /\ Len(todo) = (IF IsList(sent) /\ Len(out) < 2 THEN 2 ELSE Len(sent.parts)) - Len(out)
    /\ \A i \in 1 .. Len(todo) : todo[i] = sent.parts[Len(out) + i].field

Agrees ==
    sent # NoMessage /\ Fits(sent) =>
       /\ IsMessage(sent)
       /\ state = "reading" => Stands /\ LooksFor
       /\ state = "refused" =>
             \E k \in DOMAIN ClientReads : reader = ClientOp[k] /\ reader # sent.op

WInv == WTypes /\ Agrees

LEMMA FramedIs ==
    ASSUME NEW b \in Seq(WUnit)
    PROVE  /\ Framed(b) \in Seq(WUnit)
           /\ Len(Framed(b)) <= Limit
           /\ Len(b) \in 1 .. Limit => Framed(b) = b
<1>1. Len(b) \in Nat /\ Limit \in Nat \ {0}
  BY SizeFacts
<1> DEFINE n == Int32(Len(b))
<1>2. n \in Int /\ n <= Len(b) /\ (Len(b) \in 0 .. Limit => n = Len(b))
  <2>1. Len(b) \in Int
    BY <1>1
  <2> HIDE DEF n
  <2> QED BY <1>1, <2>1, Int32Facts DEF n
<1>3. Framed(b) = IF n \in 0 .. Limit THEN SubSeq(b, 1, n) ELSE <<>>
  BY DEF Framed
<1> HIDE DEF n
<1>4. CASE n \in 0 .. Limit
  <2>1. \A i \in 1 .. n : b[i] \in WUnit
    BY <1>1, <1>2
  <2>2. SubSeq(b, 1, n) \in Seq(WUnit) /\ Len(SubSeq(b, 1, n)) = n
    <3>1. n \in Int /\ 1 \in Int /\ (IF 1 <= n THEN n - 1 + 1 ELSE 0) = n
      BY <1>2, <1>4
    <3> QED BY <2>1, <3>1, SubSeqProperties
  <2>3. n = Len(b) => SubSeq(b, 1, n) = b
    BY SubSeqFull
  <2> QED BY <1>1, <1>2, <1>3, <1>4, <2>2, <2>3
<1>5. CASE n \notin 0 .. Limit
  <2>1. Len(b) \notin 1 .. Limit
    BY <1>1, <1>2, <1>5
  <2>2. Framed(b) = <<>>
    BY <1>3, <1>5
  <2> QED BY <1>1, <2>1, <2>2
<1> QED BY <1>4, <1>5

LEMMA InitInv == Init => WInv
<1> SUFFICES ASSUME Init PROVE WInv
  OBVIOUS
<1>1. WTypes
  BY SizeFacts DEF Init, WTypes
<1>2. Agrees
  BY DEF Init, Agrees
<1> QED BY <1>1, <1>2 DEF WInv

\* A message begins to be read, or its opcode is refused.
LEMMA BeginKeeps ==
    ASSUME NEW m, IsMessage(m), NEW op, NEW layout, NEW opens \in BOOLEAN,
           Begin(m, Framed(Serialized(m)), op, layout, opens),
           opens => Opens(m, layout),
           ~opens => \E k \in DOMAIN ClientReads : op = ClientOp[k] /\ op # m.op
    PROVE  WInv'
<1> DEFINE s == Serialized(m)
           b == Framed(s)
<1>1. /\ s \in Seq(WUnit) /\ Len(s) \in Nat \ {0} /\ \E at : Placed(m, at)
  BY SerializedIs DEF IsMessage
<1>2. b \in Seq(WUnit) /\ Len(b) <= Limit /\ (Len(s) \in 1 .. Limit => b = s)
  BY <1>1, FramedIs
<1>3. m # NoMessage
  BY DEF IsMessage, NoMessage
<1>4. /\ sent' = m /\ body' = b /\ reader' = op /\ out' = <<>>
      /\ IF b # <<>> /\ opens
         THEN state' = "reading" /\ index' = 1 /\ todo' = layout
         ELSE state' = "refused" /\ index' = 0 /\ todo' = <<>>
  BY DEF Begin
<1>5. Len(b) \in Nat /\ (b # <<>> => 1 <= Len(b))
  BY <1>2, EmptySeq
<1>6. WTypes'
  <2>1. out' \in Seq(WPieces) /\ Len(out') = 0
    BY <1>4
  <2>2. todo' \in Seq(Fields)
    <3>1. <<>> \in Seq(Fields) /\ (opens => layout \in Seq(Fields))
      BY DEF Opens
    <3>2. todo' = <<>> \/ (opens /\ todo' = layout)
      BY <1>4
    <3> QED BY <3>1, <3>2
  <2>3. index' \in 0 .. Len(body') /\ state' \in {"reading", "refused"}
    <3> HIDE DEF b
    <3> QED BY <1>4, <1>5
  <2> HIDE DEF b, s
  <2> QED BY <1>2, <1>3, <1>4, <1>5, <2>1, <2>2, <2>3 DEF WTypes
<1>7. Agrees'
  <2> SUFFICES ASSUME Fits(m)
               PROVE  /\ state' = "reading" => Stands' /\ LooksFor'
                      /\ state' = "refused" =>
                            \E k \in DOMAIN ClientReads : op = ClientOp[k] /\ op # m.op
    BY <1>3, <1>4 DEF Agrees
  <2>1. b = s /\ b # <<>>
    <3>1. Len(s) \in 1 .. Limit
      BY <1>1, SizeFacts DEF Fits
    <3>2. b = s
      BY <1>2, <3>1
    <3> HIDE DEF b, s
    <3> QED BY <1>1, <3>2
  <2> HIDE DEF b
  <2>2. CASE opens
    <3>1. state' = "reading" /\ index' = 1 /\ todo' = layout
      BY <1>4, <2>1, <2>2
    <3>2. Stands'
      <4>1. PICK at : Placed(m, at)
        BY <1>1
      <4>2. at[0] = 1
        BY <4>1 DEF Placed
      <4>3. Len(out') = 0 /\ Len(m.parts) \in Nat
        BY <1>4 DEF IsMessage
      <4>4. Placed(sent', at) /\ index' = at[Len(out')]
        BY <1>4, <3>1, <4>1, <4>2, <4>3
      <4>5. body' = Serialized(sent') /\ Len(out') <= Len(sent'.parts) /\ 1 .. Len(out') = {}
        BY <1>4, <2>1, <4>3
      <4> QED BY <4>4, <4>5 DEF Stands
    <3>3. LooksFor'
      <4>1. Len(out') = 0 /\ Len(m.parts) \in Nat /\ Opens(m, layout)
        BY <1>4, <2>2 DEF IsMessage
      <4>2. Len(layout) = IF IsList(m) THEN 2 ELSE Len(m.parts)
        BY <4>1 DEF Opens
      <4>3. /\ Len(todo') = (IF IsList(sent') /\ Len(out') < 2 THEN 2 ELSE Len(sent'.parts))
                            - Len(out')
        BY <1>4, <3>1, <4>1, <4>2
      <4>4. ASSUME NEW i \in 1 .. Len(layout)
            PROVE  layout[i] = m.parts[Len(out') + i].field
        <5>1. Len(out') + i = i
          BY <4>1, <4>2
        <5> QED BY <4>1, <5>1 DEF Opens
      <4> QED BY <1>4, <3>1, <4>3, <4>4 DEF LooksFor, IsList
    <3> QED BY <3>1, <3>2, <3>3
  <2>3. CASE ~opens
    BY <1>4, <2>3
  <2> QED BY <2>2, <2>3
<1> QED BY <1>6, <1>7 DEF WInv

LEMMA ClientLayouts == \A k \in DOMAIN ClientReads : ClientReads[k] \in Seq(Fields)
<1>1. /\ "user" \in Fields /\ "salt" \in Fields /\ "challenge" \in Fields /\ "count" \in Fields
      /\ "auth_response" \in Fields /\ "data" \in Fields /\ "filename" \in Fields
  BY DEF Fields, Sized
<1>2. /\ <<"user", "salt">> \in Seq(Fields) /\ <<"user", "challenge">> \in Seq(Fields)
      /\ <<"user", "auth_response">> \in Seq(Fields)
      /\ <<"user", "data", "filename">> \in Seq(Fields) /\ <<"user", "count">> \in Seq(Fields)
  BY <1>1
<1>3. /\ ClientReads["GET_SALT"] = <<"user", "salt">>
      /\ ClientReads["GET_CHALLENGE"] = <<"user", "challenge">>
      /\ ClientReads["GET_AUTH_RESPONSE"] = <<"user", "auth_response">>
      /\ ClientReads["GET_DOWNLOAD"] = <<"user", "data", "filename">>
      /\ ClientReads["GET_LIST"] = <<"user", "count">>
  BY DEF ClientReads
<1> QED BY <1>2, <1>3, Domains

LEMMA ReceiveKeeps ==
    ASSUME Receive
    PROVE  WInv'
<1>1. ASSUME NEW m \in Requests, ServerReceives(m) PROVE WInv'
  <2> DEFINE kinds == {k \in DOMAIN ServerReads : ServerOp[k] = m.op}
  <2>1. IsMessage(m) /\ kinds # {} /\ Opens(m, ServerReads[CHOOSE k \in kinds : TRUE])
    BY RequestOpens
  <2>2. Begin(m, Framed(Serialized(m)), m.op, ServerReads[CHOOSE k \in kinds : TRUE], TRUE)
    BY <1>1, <2>1 DEF ServerReceives
  <2> HIDE DEF kinds
  <2> QED BY <2>1, <2>2, BeginKeeps
<1>2. ASSUME NEW m \in Answers, NEW k \in DOMAIN ClientReads, ClientReceives(m, k)
      PROVE  WInv'
  <2>1. Begin(m, Framed(Serialized(m)), ClientOp[k], ClientReads[k], ClientOp[k] = m.op)
    BY <1>2 DEF ClientReceives
  <2>2. IsMessage(m) /\ (ClientOp[k] = m.op => Opens(m, ClientReads[k]))
    BY AnswerOpens
  <2>3. CASE ClientOp[k] = m.op
    <3>1. Begin(m, Framed(Serialized(m)), ClientOp[k], ClientReads[k], TRUE)
      BY <2>1, <2>3
    <3> QED BY <2>2, <2>3, <3>1, BeginKeeps
  <2>4. CASE ClientOp[k] # m.op
    <3>1. Begin(m, Framed(Serialized(m)), ClientOp[k], ClientReads[k], FALSE)
      BY <2>1, <2>4
    <3> QED BY <2>2, <2>4, <3>1, BeginKeeps
  <2> QED BY <2>3, <2>4
<1>3. ASSUME NEW len \in 0 .. MaxNoise, NEW k \in DOMAIN ClientReads,
             ClientReceivesNoise(len, k)
      PROVE  WInv'
  <2> DEFINE b == Bytes("noise", 0, len)
  <2>1. PICK opens \in BOOLEAN : Begin(NoMessage, b, ClientOp[k], ClientReads[k], opens)
    BY <1>3 DEF ClientReceivesNoise
  <2>2. b \in Seq(WUnit) /\ Len(b) = len /\ len \in Nat /\ len <= MaxNoise
    BY BytesAre, SizeFacts
  <2> HIDE DEF b
  <2>3. /\ sent' = NoMessage /\ body' = b /\ out' = <<>>
        /\ IF b # <<>> /\ opens
           THEN state' = "reading" /\ index' = 1 /\ todo' = ClientReads[k]
           ELSE state' = "refused" /\ index' = 0 /\ todo' = <<>>
    BY <2>1 DEF Begin
  <2>4. b # <<>> => 1 <= Len(b)
    BY <2>2, EmptySeq
  <2>5. todo' \in Seq(Fields)
    <3>1. <<>> \in Seq(Fields) /\ ClientReads[k] \in Seq(Fields)
      BY ClientLayouts
    <3>2. todo' = <<>> \/ todo' = ClientReads[k]
      BY <2>3
    <3> QED BY <3>1, <3>2
  <2>6. index' \in 0 .. Len(body') /\ state' \in {"reading", "refused"}
    BY <2>2, <2>3, <2>4
  <2>7. out' \in Seq(WPieces) /\ Len(out') = 0
    BY <2>3
  <2>8. WTypes'
    BY <2>2, <2>3, <2>5, <2>6, <2>7 DEF WTypes
  <2> QED BY <2>3, <2>8 DEF WInv, Agrees
<1> QED BY <1>1, <1>2, <1>3 DEF Receive

-----------------------------------------------------------------------------
(* The next part *)

\* What is read next is what was written next, with the length it was written with.
LEMMA NextPart ==
    ASSUME WTypes, sent # NoMessage, Fits(sent), IsMessage(sent), Stands, LooksFor,
           todo # <<>>
    PROVE  /\ PartNo \in 1 .. Len(sent.parts) /\ Part \in WPart
           /\ Head(todo) = Part.field
           /\ Skip(Part) \in Nat /\ Len(Content(Part, PartNo)) \in Nat
           /\ Room(Skip(Part) + Len(Content(Part, PartNo)))
           /\ Part.field # "auth_response" => IntRead = {Part.len}
           /\ SubSeq(body, index + Skip(Part) + 1,
                     index + Skip(Part) + Len(Content(Part, PartNo)))
                 = Content(Part, PartNo)
           /\ \E at : /\ Placed(sent, at)
                      /\ index + Skip(Part) + Len(Content(Part, PartNo)) = at[PartNo]
<1> DEFINE N == Len(sent.parts)
           n == Len(out)
           k == n + 1
           p == sent.parts[k]
           w == Written(p, k)
           c == Content(p, k)
<1>1. N \in Nat \ {0} /\ n \in Nat /\ n <= N
  BY DEF IsMessage, WTypes, Stands
<1>2. todo \in Seq(Fields) /\ Len(todo) \in Nat \ {0}
  BY EmptySeq DEF WTypes
<1>3. k \in 1 .. N
  <2>1. Len(todo) = (IF IsList(sent) /\ n < 2 THEN 2 ELSE N) - n
    BY DEF LooksFor
  <2>2. IsList(sent) => N >= 2
    BY DEF IsList
  <2> HIDE DEF n, N
  <2> QED BY <1>1, <1>2, <2>1, <2>2
<1>4. p \in WPart
  BY <1>3 DEF IsMessage
<1>5. Head(todo) = p.field
  <2>1. Head(todo) = todo[1] /\ 1 \in 1 .. Len(todo)
    BY <1>2
  <2> QED BY <2>1 DEF LooksFor
<1>6. PICK at : Placed(sent, at) /\ index = at[n]
  BY DEF Stands
<1>7. /\ at[k] = index + Len(w) /\ k + 1 <= at[k] /\ at[k] <= Len(body)
      /\ \A x \in 1 .. Len(w) : body[index + x] = w[x]
      /\ at[N] = Len(body)
  <2>1. k - 1 = n
    BY <1>1
  <2>2. body = Serialized(sent)
    BY DEF Stands
  <2> HIDE DEF k, n
  <2> QED BY <1>3, <1>6, <2>1, <2>2 DEF Placed
<1>8. /\ w \in Seq(WUnit) /\ c \in Seq(WUnit)
      /\ Len(w) = Skip(p) + Len(c) /\ Len(w) \in Nat \ {0}
      /\ Skip(p) \in Nat /\ Len(c) \in Nat
      /\ \A x \in 1 .. Len(c) : w[Skip(p) + x] = c[x]
      /\ p.field \in Sized => Len(c) = p.len
      /\ p.field # "auth_response" => w[1].what = "int" /\ w[1].at = 1 /\ w[1].val = Int32(p.len)
  <2>1. k \in Nat
    BY <1>1
  <2> HIDE DEF k, p
  <2> QED BY <1>4, <2>1, WrittenIs
<1>9. Len(body) <= Limit /\ Len(body) \in Nat /\ index \in Nat /\ Limit \in Nat
  BY SizeFacts DEF WTypes
<1>10. ASSUME p.field # "auth_response" PROVE p.len \in 0 .. Limit
  <2>1. p.len \in Nat
    BY <1>4 DEF WPart
  <2>2. CASE p.field \in Sized
    <3> HIDE DEF c, w, p, k
    <3> QED BY <1>7, <1>8, <1>9, <2>1, <2>2
  <2>3. CASE p.field = "count"
    <3>1. k = 2
      BY <1>3, <2>3 DEF IsMessage
    <3>2. IsList(sent) /\ N = 2 + p.len
      BY <1>3, <2>3, <3>1 DEF IsMessage, IsList
    <3>3. N + 1 <= at[N]
      <4>1. N \in 1 .. N
        BY <1>1
      <4> QED BY <1>6, <4>1 DEF Placed
    <3> HIDE DEF N, p, k
    <3> QED BY <1>1, <1>7, <1>9, <2>1, <3>2, <3>3
  <2>4. p.field \in Sized \/ p.field = "count"
    BY <1>4, <1>10 DEF WPart, Fields
  <2> QED BY <2>2, <2>3, <2>4
<1>11. ASSUME p.field # "auth_response" PROVE IntRead = {p.len}
  <2>1. body[index+1] = w[1]
    <3>1. 1 \in 1 .. Len(w)
      BY <1>8
    <3> HIDE DEF w
    <3> QED BY <1>7, <3>1
  <2>2. Int32(p.len) = p.len
    <3>1. p.len \in Int
      BY <1>4 DEF WPart
    <3> HIDE DEF p
    <3> QED BY <1>10, <1>11, <3>1, Int32Facts
  <2> HIDE DEF w, p
  <2> QED BY <1>8, <1>11, <2>1, <2>2 DEF IntRead
<1>12. SubSeq(body, index + Skip(p) + 1, index + Skip(p) + Len(c)) = c
  <2> HIDE DEF w, p, k, c
  <2> DEFINE a == index + Skip(p)
             l == Len(c)
             t == SubSeq(body, a + 1, a + l)
  <2>1. a \in Nat /\ l \in Nat /\ a + l <= Len(body)
    BY <1>7, <1>8, <1>9
  <2>2. ASSUME NEW x \in 1 .. l PROVE body[a + x] = c[x]
    <3>1. Skip(p) + x \in 1 .. Len(w) /\ a + x = index + (Skip(p) + x)
      BY <1>8, <1>9
    <3> QED BY <1>7, <1>8, <3>1
  <2>3. \A i \in a + 1 .. a + l : body[i] \in WUnit
    <3>1. body \in Seq(WUnit)
      BY DEF WTypes
    <3> HIDE DEF a, l
    <3> QED BY <1>9, <2>1, <3>1
  <2> HIDE DEF a, l
  <2>4. /\ t \in Seq(WUnit) /\ Len(t) = (IF a + 1 <= a + l THEN (a + l) - (a + 1) + 1 ELSE 0)
        /\ \A i \in 1 .. (a + l) - (a + 1) + 1 : t[i] = body[(a + 1) + i - 1]
    <3>1. a + 1 \in Int /\ a + l \in Int
      BY <2>1
    <3> QED BY <2>3, <3>1, SubSeqProperties
  <2>5. Len(t) = l /\ \A i \in 1 .. l : t[i] = body[a + i]
    <3>1. /\ (a + l) - (a + 1) + 1 = l
          /\ (IF a + 1 <= a + l THEN (a + l) - (a + 1) + 1 ELSE 0) = l
          /\ \A i \in 1 .. l : (a + 1) + i - 1 = a + i
      BY <2>1
    <3> HIDE DEF t
    <3> QED BY <2>4, <3>1
  <2>6. l = Len(c)
    BY DEF l
  <2> HIDE DEF t
  <2>7. t = c
    BY <1>8, <2>2, <2>4, <2>5, <2>6, SeqEqual
  <2> QED BY <2>7 DEF t, a, l
<1>13. index + Skip(p) + Len(c) = at[k] /\ Room(Skip(p) + Len(c))
  <2> HIDE DEF w, p, k, c
  <2> QED BY <1>7, <1>8, <1>9 DEF Room
<1>14. PartNo = k /\ Part = p
  BY DEF PartNo, Part
<1> HIDE DEF w, c, p, k, N
<1>15. Content(Part, PartNo) = c
  BY <1>14 DEF c
<1> QED BY <1>3, <1>4, <1>5, <1>6, <1>8, <1>11, <1>12, <1>13, <1>14, <1>15 DEF N

-----------------------------------------------------------------------------
(* The steps of a reader *)

\* Whatever an int is taken for, it is an int.
LEMMA IntReadType ==
    ASSUME WTypes, Room(IntSize)
    PROVE  IntRead \subseteq Int
<1>1. index + 1 \in 1 .. Len(body)
  BY SizeFacts DEF WTypes, Room
<1>2. body[index+1] \in WUnit
  BY <1>1 DEF WTypes
<1>3. Int32(-1) \in Int /\ Half - 1 \in Int /\ 0 .. MaxNoise \subseteq Int
  BY SizeFacts, Int32Facts
<1> QED BY <1>2, <1>3 DEF IntRead, WUnit

\* A part that is taken is within the body.
LEMMA TakeTypes ==
    ASSUME WTypes, todo # <<>>, NEW skip \in Nat, NEW n \in Nat, Room(skip + n),
           Take(skip, n), todo' \in Seq(Fields)
    PROVE  WTypes'
<1> DEFINE lo == index + skip + 1
           hi == index + skip + n
           units == SubSeq(body, lo, hi)
           piece == [field |-> Head(todo), units |-> units]
<1>1. /\ out' = Append(out, piece) /\ index' = hi
      /\ UNCHANGED <<sent, body, reader, state>>
  BY DEF Take
<1>2. index \in Nat /\ Len(body) \in Nat /\ hi <= Len(body) /\ hi \in Nat /\ lo \in Nat \ {0}
  BY DEF WTypes, Room
<1>3. (IF lo <= hi THEN hi - lo + 1 ELSE 0) = n
  BY <1>2
<1> HIDE DEF lo, hi
<1>4. units \in Seq(WUnit) /\ Len(units) = n
  <2>1. body \in Seq(WUnit)
    BY DEF WTypes
  <2>2. \A i \in lo .. hi : body[i] \in WUnit
    BY <1>2, <2>1
  <2> QED BY <1>2, <1>3, <2>2, SubSeqProperties
<1>5. n <= Len(body)
  BY <1>2 DEF hi
<1> HIDE DEF units
<1>6. Head(todo) \in Fields
  BY HeadTailProperties DEF WTypes
<1>7. piece \in WPieces /\ Len(piece.units) = n
  BY <1>4, <1>6 DEF WPieces
<1> HIDE DEF piece
<1>8. /\ out' \in Seq(WPieces) /\ Len(out') = Len(out) + 1 /\ out'[Len(out) + 1] = piece
      /\ \A i \in 1 .. Len(out) : out'[i] = out[i]
      /\ Len(out) \in Nat
  BY <1>1, <1>7 DEF WTypes
<1>9. ASSUME NEW i \in 1 .. Len(out') PROVE Len(out'[i].units) <= Len(body)
  <2>1. \A j \in 1 .. Len(out) : Len(out[j].units) <= Len(body)
    BY DEF WTypes
  <2>2. CASE i \in 1 .. Len(out)
    BY <1>8, <2>1, <2>2
  <2>3. CASE i = Len(out) + 1
    BY <1>5, <1>7, <1>8, <2>3
  <2> QED BY <1>8, <2>2, <2>3
<1> QED BY <1>1, <1>2, <1>8, <1>9 DEF WTypes

\* With the part that was written next, the reader gets to the part behind it.
LEMMA TakeStands ==
    ASSUME WTypes, sent # NoMessage, Fits(sent), IsMessage(sent), Stands, LooksFor,
           todo # <<>>, Take(Skip(Part), Len(Content(Part, PartNo)))
    PROVE  Stands' /\ Len(out') = PartNo
<1> DEFINE k == PartNo
           p == Part
           c == Content(p, k)
           piece == [field |-> p.field, units |-> c]
<1>1. /\ k \in 1 .. Len(sent.parts) /\ Head(todo) = p.field
      /\ SubSeq(body, index + Skip(p) + 1, index + Skip(p) + Len(c)) = c
      /\ \E at : Placed(sent, at) /\ index + Skip(p) + Len(c) = at[k]
  BY NextPart
<1>2. /\ out' = Append(out, piece) /\ index' = index + Skip(p) + Len(c)
      /\ UNCHANGED <<sent, body>>
  BY <1>1 DEF Take
<1>3. /\ Len(out) \in Nat /\ k = Len(out) + 1 /\ Len(out') = k /\ out'[k] = piece
      /\ \A i \in 1 .. Len(out) : out'[i] = out[i]
  BY <1>2 DEF WTypes, PartNo
<1>4. p = sent.parts[k]
  BY DEF Part
<1> HIDE DEF k
<1>5. ASSUME NEW i \in 1 .. Len(out')
      PROVE  out'[i] = [field |-> sent.parts[i].field, units |-> Content(sent.parts[i], i)]
  <2>1. CASE i = k
    BY <1>3, <1>4, <2>1
  <2>2. CASE i # k
    <3>1. i \in 1 .. Len(out)
      BY <1>3, <2>2
    <3> QED BY <1>3, <3>1 DEF Stands
  <2> QED BY <2>1, <2>2
<1> HIDE DEF p, c, piece
<1>6. Stands'
  <2>1. \E at : Placed(sent, at) /\ index' = at[Len(out')]
    BY <1>1, <1>2, <1>3
  <2>2. Len(out') <= Len(sent.parts)
    BY <1>1, <1>3
  <2> QED BY <1>2, <1>5, <2>1, <2>2 DEF Stands
<1> QED BY <1>3, <1>6 DEF k

\* Behind a part that is no count, it looks for the rest.
LEMMA TailLooks ==
    ASSUME WTypes, IsMessage(sent), LooksFor, todo # <<>>, PartNo \in 1 .. Len(sent.parts),
           Part.field # "count", Len(out') = PartNo, todo' = Tail(todo), sent' = sent
    PROVE  LooksFor'
<1>1. /\ todo \in Seq(Fields) /\ Len(todo) \in Nat \ {0}
      /\ Len(out) \in Nat /\ Len(out') = Len(out) + 1 /\ Len(sent.parts) \in Nat
  BY EmptySeq DEF WTypes, PartNo, IsMessage
<1>2. /\ Len(todo') = Len(todo) - 1
      /\ \A i \in 1 .. Len(todo') : todo'[i] = todo[i+1]
  BY <1>1, HeadTailProperties
<1> DEFINE n == Len(out)
           N == Len(sent.parts)
<1>3. IsList(sent) => n # 1 /\ N >= 2
  <2>1. PartNo # 2 \/ ~ IsList(sent)
    BY DEF IsList, Part
  <2>2. PartNo = n + 1 /\ (IsList(sent) => N >= 2)
    BY DEF PartNo, IsList
  <2> HIDE DEF n, N
  <2> QED BY <2>1, <2>2
<1>4. Len(todo') = (IF IsList(sent) /\ Len(out') < 2 THEN 2 ELSE N) - Len(out')
  <2>1. Len(todo) = (IF IsList(sent) /\ n < 2 THEN 2 ELSE N) - n
    BY DEF LooksFor
  <2>2. n \in Nat /\ N \in Nat /\ Len(out') = n + 1 /\ Len(todo') = Len(todo) - 1
    BY <1>1, <1>2
  <2> DEFINE t == Len(todo)
             u == Len(todo')
             o == Len(out')
             List == IsList(sent)
  <2>3. /\ t = (IF List /\ n < 2 THEN 2 ELSE N) - n
        /\ n \in Nat /\ N \in Nat /\ o = n + 1 /\ u = t - 1
        /\ List => n # 1 /\ N >= 2
    BY <1>3, <2>1, <2>2
  <2> HIDE DEF n, N, t, u, o, List
  <2>4. u = (IF List /\ o < 2 THEN 2 ELSE N) - o
    <3>1. CASE List
      BY <2>3, <3>1
    <3>2. CASE ~ List
      BY <2>3, <3>2
    <3> QED BY <3>1, <3>2
  <2> QED BY <2>4 DEF u, o, List
<1>5. ASSUME NEW i \in 1 .. Len(todo') PROVE todo'[i] = sent.parts[Len(out') + i].field
  <2>1. i + 1 \in 1 .. Len(todo) /\ Len(out) + (i + 1) = Len(out') + i
    BY <1>1, <1>2
  <2> QED BY <1>2, <2>1 DEF LooksFor
<1> QED BY <1>4, <1>5 DEF LooksFor, IsList

\* What the invariant says of a reader at work.
LEMMA AtWork ==
    ASSUME WInv, state = "reading", sent # NoMessage, Fits(sent)
    PROVE  WTypes /\ IsMessage(sent) /\ Stands /\ LooksFor
BY DEF WInv, Agrees

LEMMA ReadSizedKeeps ==
    ASSUME WInv, ReadSized
    PROVE  WInv'
<1>1. /\ state = "reading" /\ todo # <<>> /\ Head(todo) \in Sized /\ Room(IntSize)
      /\ todo' = Tail(todo)
  BY DEF ReadSized, Reading
<1>2. PICK n \in IntRead : n >= 0 /\ Room(IntSize + n) /\ Take(IntSize, n)
  BY DEF ReadSized
<1>3. WTypes /\ n \in Nat /\ IntSize \in Nat
  <2>1. WTypes
    BY DEF WInv
  <2>2. n \in Int
    BY <1>1, <1>2, <2>1, IntReadType
  <2> QED BY <1>2, <2>1, <2>2, SizeFacts
<1>4. todo' \in Seq(Fields)
  BY <1>1, <1>3, HeadTailProperties DEF WTypes
<1>5. WTypes'
  BY <1>1, <1>2, <1>3, <1>4, TakeTypes
<1>6. UNCHANGED <<sent, body, reader, state>>
  BY <1>2 DEF Take
<1>7. ASSUME sent # NoMessage, Fits(sent)
      PROVE  IsMessage(sent) /\ Stands' /\ LooksFor'
  <2>1. IsMessage(sent) /\ Stands /\ LooksFor
    BY <1>1, <1>7, AtWork
  <2>2. /\ PartNo \in 1 .. Len(sent.parts) /\ Part \in WPart
        /\ Head(todo) = Part.field
        /\ Part.field # "auth_response" => IntRead = {Part.len}
    BY <1>1, <1>3, <1>7, <2>1, NextPart
  <2>3. Part.field \in Sized /\ Part.field # "auth_response" /\ Part.field # "count"
    BY <1>1, <2>2, FieldKinds
  <2>4. Skip(Part) = IntSize /\ Len(Content(Part, PartNo)) = Part.len
    <3>1. PartNo \in Nat
      BY <2>2
    <3> QED BY <2>2, <2>3, <3>1, WrittenIs DEF Skip
  <2>5. Take(Skip(Part), Len(Content(Part, PartNo)))
    BY <1>2, <2>2, <2>3, <2>4
  <2>6. Stands' /\ Len(out') = PartNo
    BY <1>1, <1>3, <1>7, <2>1, <2>5, TakeStands
  <2>7. LooksFor'
    BY <1>1, <1>3, <1>6, <2>1, <2>2, <2>3, <2>6, TailLooks
  <2> QED BY <2>1, <2>6, <2>7
<1>8. Agrees'
  BY <1>1, <1>6, <1>7 DEF Agrees
<1> QED BY <1>5, <1>8 DEF WInv

LEMMA ReadByteKeeps ==
    ASSUME WInv, ReadByte
    PROVE  WInv'
<1>1. /\ state = "reading" /\ todo # <<>> /\ Head(todo) = "auth_response" /\ Room(1)
      /\ todo' = Tail(todo) /\ Take(0, 1)
  BY DEF ReadByte, Reading
<1>2. WTypes /\ Room(0 + 1)
  BY <1>1 DEF WInv
<1>3. todo' \in Seq(Fields)
  BY <1>1, <1>2, HeadTailProperties DEF WTypes
<1>4. WTypes'
  BY <1>1, <1>2, <1>3, TakeTypes
<1>5. UNCHANGED <<sent, body, reader, state>>
  BY <1>1 DEF Take
<1>6. ASSUME sent # NoMessage, Fits(sent)
      PROVE  IsMessage(sent) /\ Stands' /\ LooksFor'
  <2>1. IsMessage(sent) /\ Stands /\ LooksFor
    BY <1>1, <1>6, AtWork
  <2>2. /\ PartNo \in 1 .. Len(sent.parts) /\ Part \in WPart
        /\ Part.field = "auth_response"
    BY <1>1, <1>2, <1>6, <2>1, NextPart
  <2>3. Skip(Part) = 0 /\ Len(Content(Part, PartNo)) = 1
    <3>1. PartNo \in Nat
      BY <2>2
    <3> QED BY <2>2, <3>1, WrittenIs, FieldKinds DEF Skip
  <2>4. Stands' /\ Len(out') = PartNo
    BY <1>1, <1>2, <1>6, <2>1, <2>3, TakeStands
  <2>5. LooksFor'
    BY <1>1, <1>2, <1>5, <2>1, <2>2, <2>4, TailLooks
  <2> QED BY <2>1, <2>4, <2>5
<1>7. Agrees'
  BY <1>1, <1>5, <1>6 DEF Agrees
<1> QED BY <1>4, <1>7 DEF WInv

LEMMA NamesAre ==
    ASSUME NEW c \in Nat
    PROVE  /\ Names(c) \in Seq(Fields) /\ Len(Names(c)) = c
           /\ \A i \in 1 .. c : Names(c)[i] = "filename"
<1>1. "filename" \in Fields
  BY DEF Fields, Sized
<1> QED BY <1>1 DEF Names

\* The count of a list says how many names follow.
LEMMA ReadCountKeeps ==
    ASSUME WInv, ReadCount
    PROVE  WInv'
<1>1. /\ state = "reading" /\ todo # <<>> /\ Head(todo) = "count" /\ Room(IntSize)
      /\ Take(0, IntSize)
  BY DEF ReadCount, Reading
<1>2. PICK n \in IntRead : n >= 0 /\ todo' = Tail(todo) \o Names(n)
  BY DEF ReadCount
<1>3. WTypes /\ n \in Nat /\ IntSize \in Nat /\ 0 + IntSize = IntSize
  <2>1. WTypes
    BY DEF WInv
  <2>2. n \in Int
    BY <1>1, <1>2, <2>1, IntReadType
  <2> QED BY <1>2, <2>1, <2>2, SizeFacts
<1>4. /\ Tail(todo) \in Seq(Fields) /\ Len(Tail(todo)) = Len(todo) - 1
      /\ Names(n) \in Seq(Fields) /\ Len(Names(n)) = n
      /\ \A i \in 1 .. n : Names(n)[i] = "filename"
  BY <1>1, <1>3, HeadTailProperties, NamesAre DEF WTypes
<1>5. todo' \in Seq(Fields)
  BY <1>2, <1>4
<1>6. WTypes'
  BY <1>1, <1>3, <1>5, TakeTypes
<1>7. UNCHANGED <<sent, body, reader, state>>
  BY <1>1 DEF Take
<1>8. ASSUME sent # NoMessage, Fits(sent)
      PROVE  IsMessage(sent) /\ Stands' /\ LooksFor'
  <2>1. IsMessage(sent) /\ Stands /\ LooksFor
    BY <1>1, <1>8, AtWork
  <2>2. /\ PartNo \in 1 .. Len(sent.parts) /\ Part \in WPart
        /\ Part.field = "count" /\ IntRead = {Part.len}
    BY <1>1, <1>3, <1>8, <2>1, NextPart
  <2>3. Skip(Part) = 0 /\ Len(Content(Part, PartNo)) = IntSize
    <3>1. PartNo \in Nat
      BY <2>2
    <3> QED BY <2>2, <3>1, WrittenIs, FieldKinds DEF Skip
  <2>4. Stands' /\ Len(out') = PartNo
    BY <1>1, <1>3, <1>8, <2>1, <2>3, TakeStands
  <2>5. PartNo = 2 /\ IsList(sent) /\ Len(sent.parts) = 2 + n
        /\ \A i \in 3 .. Len(sent.parts) : sent.parts[i].field = "filename"
    <3>1. PartNo = 2
      BY <2>1, <2>2 DEF IsMessage, Part
    <3>2. IsList(sent)
      BY <2>2, <3>1 DEF IsList, Part
    <3>3. n = sent.parts[2].len
      BY <1>2, <2>2, <3>1 DEF Part
    <3> QED BY <2>1, <3>1, <3>2, <3>3 DEF IsMessage
  <2>6. Len(todo) = 1
    <3>1. Len(out) = 1
      <4>1. Len(out) \in Nat
        BY <1>3 DEF WTypes
      <4>2. Len(out) + 1 = 2
        BY <2>5 DEF PartNo
      <4> DEFINE c == Len(out)
      <4>3. c \in Nat /\ c + 1 = 2
        BY <4>1, <4>2
      <4> HIDE DEF c
      <4>4. c = 1
        BY <4>3
      <4> QED BY <4>4 DEF c
    <3> QED BY <2>1, <2>5, <3>1 DEF LooksFor
  <2>7. Tail(todo) = <<>>
    <3>1. Len(Tail(todo)) = 0
      BY <1>4, <2>6
    <3> QED BY <1>4, <3>1, EmptySeq
  <2>8. todo' = Names(n)
    BY <1>2, <1>4, <2>7, ConcatEmptySeq
  <2>9. LooksFor'
    <3>1. Len(out') = 2 /\ sent' = sent /\ Len(todo') = n
      BY <1>4, <1>7, <2>4, <2>5, <2>8
    <3>2. Len(todo') = (IF IsList(sent) /\ Len(out') < 2 THEN 2 ELSE Len(sent.parts)) - Len(out')
      BY <1>3, <2>5, <3>1
    <3>3. ASSUME NEW i \in 1 .. n PROVE todo'[i] = sent.parts[2 + i].field
      <4>1. 2 + i \in 3 .. Len(sent.parts)
        BY <1>3, <2>5
      <4> QED BY <1>4, <2>5, <2>8, <4>1
    <3> QED BY <3>1, <3>2, <3>3 DEF LooksFor, IsList
  <2> QED BY <2>1, <2>4, <2>9
<1>9. Agrees'
  BY <1>1, <1>7, <1>8 DEF Agrees
<1> QED BY <1>6, <1>9 DEF WInv

\* A message that fits is not refused half way.
LEMMA RefuseKeeps ==
    ASSUME WInv, Refuse
    PROVE  WInv'
<1>1. /\ state = "reading" /\ todo # <<>> /\ state' = "refused"
      /\ UNCHANGED <<sent, body, reader, index, todo, out>>
  BY DEF Refuse, Reading
<1>2. WTypes
  BY DEF WInv
<1>3. WTypes'
  BY <1>1, <1>2 DEF WTypes
<1>4. ASSUME sent # NoMessage, Fits(sent) PROVE FALSE
  <2>1. IsMessage(sent) /\ Stands /\ LooksFor
    BY <1>1, <1>4, AtWork
  <2>2. /\ PartNo \in 1 .. Len(sent.parts) /\ Part \in WPart
        /\ Head(todo) = Part.field
        /\ Room(Skip(Part) + Len(Content(Part, PartNo)))
        /\ Part.field # "auth_response" => IntRead = {Part.len}
    BY <1>1, <1>2, <1>4, <2>1, NextPart
  <2>3. PartNo \in Nat /\ Part.len \in Nat /\ IntSize \in Nat /\ index \in Nat /\ Len(body) \in Nat
    BY <1>2, <2>2, SizeFacts DEF WPart, WTypes
  <2>4. CASE Reading({"auth_response"}) /\ ~Room(1)
    <3>1. Part.field = "auth_response"
      BY <2>2, <2>4 DEF Reading
    <3>2. Skip(Part) = 0 /\ Len(Content(Part, PartNo)) = 1
      BY <2>2, <2>3, <3>1, WrittenIs, FieldKinds DEF Skip
    <3> QED BY <2>2, <2>4, <3>2
  <2>5. CASE Reading(Sized \union {"count"})
    <3>1. Part.field \in Sized \union {"count"} /\ Part.field # "auth_response"
      BY <2>2, <2>5, FieldKinds DEF Reading
    <3>2. Part.field \in Sized => Room(IntSize + Part.len)
      BY <2>2, <2>3, <3>1, WrittenIs DEF Skip
    <3>3. Part.field = "count" => Room(IntSize)
      <4>1. Part.field = "count" => Skip(Part) = 0 /\ Len(Content(Part, PartNo)) = IntSize
        BY <2>2, <2>3, WrittenIs, FieldKinds DEF Skip
      <4>2. 0 + IntSize = IntSize
        BY <2>3
      <4> QED BY <2>2, <4>1, <4>2
    <3>4. Room(IntSize)
      BY <2>3, <3>1, <3>2, <3>3 DEF Room
    <3>5. IntRead = {Part.len} /\ ~(Part.len < 0)
      BY <2>2, <2>3, <3>1
    <3>6. Reading(Sized) => Part.field \in Sized
      BY <2>2 DEF Reading
    <3>7. ~ Reading({"auth_response"})
      BY <2>2, <3>1 DEF Reading
    <3> QED BY <3>2, <3>4, <3>5, <3>6, <3>7 DEF Refuse
  <2> QED BY <2>4, <2>5 DEF Refuse
<1>5. Agrees'
  BY <1>1, <1>4 DEF Agrees
<1> QED BY <1>3, <1>5 DEF WInv

LEMMA WStep == WInv /\ [Next]_vars => WInv'
<1> SUFFICES ASSUME WInv, [Next]_vars PROVE WInv'
  OBVIOUS
<1>1. CASE UNCHANGED vars
  BY <1>1 DEF vars, WInv, WTypes, Agrees, Stands, LooksFor
<1>2. CASE Delete
  <2>1. /\ sent' = NoMessage /\ body' = <<>> /\ state' = "idle" /\ index' = 0
        /\ todo' = <<>> /\ out' = <<>>
    BY <1>2 DEF Delete
  <2>2. WTypes'
    BY <2>1, SizeFacts DEF WTypes
  <2> QED BY <2>1, <2>2 DEF WInv, Agrees
<1> QED BY <1>1, <1>2, ReceiveKeeps, ReadSizedKeeps, ReadByteKeeps, ReadCountKeeps,
           RefuseKeeps DEF Next

(***************************************************************************)
(* No reader reads or allocates beyond the body, for any limit, any sizes  *)
(* of parts and any noise: the lengths in it are checked before they are   *)
(* used, whatever they are (payload.cpp:32-40 and its like).               *)
(***************************************************************************)
THEOREM WireTypeCorrect == Spec => []TypeOK
<1>1. WInv => TypeOK
  BY DEF WInv, WTypes, TypeOK
<1> QED BY InitInv, WStep, <1>1, PTL DEF Spec

(***************************************************************************)
(* The two halves of the codec agree on every message that fits, a list of *)
(* any number of names included: what a reader accepts is what was sent,   *)
(* part by part and to the last byte (Client payload.cpp, Server           *)
(* payload.cpp).                                                           *)
(***************************************************************************)
THEOREM HalvesAgree == Spec => []AcceptedIsSent
<1>1. WInv => AcceptedIsSent
  <2> SUFFICES ASSUME WInv, Accepted, sent # NoMessage, Fits(sent)
               PROVE  out = PartsOf(sent) /\ index = Len(body)
    BY DEF AcceptedIsSent
  <2>1. WTypes /\ IsMessage(sent) /\ Stands /\ LooksFor /\ todo = <<>>
    BY AtWork DEF Accepted
  <2> DEFINE N == Len(sent.parts)
  <2>2. Len(out) = N
    <3>1. Len(todo) = 0 /\ Len(out) \in Nat /\ N \in Nat
      BY <2>1 DEF WTypes, IsMessage
    <3>2. 0 = (IF IsList(sent) /\ Len(out) < 2 THEN 2 ELSE N) - Len(out)
      BY <2>1, <3>1 DEF LooksFor
    <3> HIDE DEF N
    <3> QED BY <3>1, <3>2
  <2>3. index = Len(body)
    BY <2>1, <2>2 DEF Stands, Placed
  <2>4. ASSUME NEW i \in 1 .. N
        PROVE  out[i] = [field |-> sent.parts[i].field, units |-> PartUnits(sent, i)]
    <3>1. PartUnits(sent, i) = Content(sent.parts[i], i)
      BY DEF PartUnits, Content
    <3> QED BY <2>1, <2>2, <3>1 DEF Stands
  <2>5. out = [i \in 1 .. N |-> out[i]]
    BY <2>1, <2>2 DEF WTypes
  <2>6. out = PartsOf(sent)
    BY <2>4, <2>5 DEF PartsOf
  <2> QED BY <2>3, <2>6
<1> QED BY InitInv, WStep, <1>1, PTL DEF Spec

(***************************************************************************)
(* No message that fits is refused by the reader that it is for            *)
(* (comms.cpp:154-164; client.cpp:127, 147, 163, 302, 327).                *)
(***************************************************************************)
THEOREM NothingIsRefused == Spec => []SentIsAccepted
<1>1. WInv => SentIsAccepted
  BY DEF WInv, Agrees, SentIsAccepted
<1> QED BY InitInv, WStep, <1>1, PTL DEF Spec
=============================================================================
