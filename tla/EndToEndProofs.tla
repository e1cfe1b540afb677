--------------------------- MODULE EndToEndProofs ---------------------------
(***************************************************************************)
(* Proofs about the store of one user and about the system as its user     *)
(* sees it, for every set of names, contents and passwords, every outcome  *)
(* of the uninitialized reads and every bound.  The first part is about    *)
(* FileStore alone: its types, what the index and the bodies keep, and     *)
(* that a store used with care implements UserFiles.  The second is about  *)
(* Aes and KeySetup, for every block size, text, set of passwords and hash *)
(* of them.  The third puts the two together, for EndToEnd.                *)
(***************************************************************************)
EXTENDS EndToEnd, FileIndexProofs

-----------------------------------------------------------------------------
(***************************************************************************)
(* Part one: the store, FileStore                                          *)
(***************************************************************************)

(* Types *)

LEMMA SeenTypes ==
    ASSUME TypeOK, NEW ix \in Seen
    PROVE  /\ ix.total \in MinTotal .. MaxFiles
           /\ ix.total \in Int
           /\ ix.names \in Seq(Name \union {Junk})
<1>1. CASE index.exists
  BY <1>1, FileStoreAssumption DEF Seen, TypeOK, Indices
<1>2. CASE ~ index.exists
  <2>1. PICK g \in JunkTotals : ix = [NoIndex EXCEPT !.total = g]
    BY <1>2 DEF Seen
  <2>2. ix.total = g /\ ix.names = <<>>
    BY <2>1 DEF NoIndex
  <2> QED BY <2>2, FileStoreAssumption
<1> QED BY <1>1, <1>2

\* A lookup ends in a slot: -1, or one the count covers.
LEMMA LookupSlot ==
    ASSUME TypeOK, NEW ix \in Seen, NEW n
    PROVE  /\ GetIndex(NamesRead(ix), n) \in Slots
           /\ GetIndex(NamesRead(ix), n) \in Int
<1> DEFINE ns == NamesRead(ix)
<1>1. /\ ix.total \in MinTotal .. MaxFiles
      /\ ix.total \in Int
      /\ ix.names \in Seq(Name \union {Junk})
      /\ MaxFiles \in Nat
  BY SeenTypes, FileStoreAssumption
<1>2. /\ Len(ns) \in Nat
      /\ Len(ns) <= MaxFiles
  BY <1>1, NamesReadType
<1>3. CASE Hits(ns, n) = {}
  BY <1>1, <1>3, GetIndexNone DEF Slots
<1>4. CASE Hits(ns, n) # {}
  <2>1. GetIndex(ns, n) \in 0 .. Len(ns)-1
    BY <1>2, <1>4, GetIndexFirst
  <2> QED BY <1>1, <1>2, <2>1 DEF Slots
<1> QED BY <1>3, <1>4

(***************************************************************************)
(* Every client, and so every discipline, keeps the types.                 *)
(***************************************************************************)
LEMMA TypeInit == Init => TypeOK
<1> SUFFICES ASSUME Init PROVE TypeOK
  OBVIOUS
<1>1. index \in Indices /\ index.total \in MinTotal .. MaxFiles
  BY FileStoreAssumption DEF Init, NoIndex, Indices
<1>2. body \in [Slots -> Stored]
  BY DEF Init, Stored
<1>3. reply \in Replies
  BY DEF Init, Replies
<1> QED BY <1>1, <1>2, <1>3 DEF TypeOK

LEMMA TypeAddFile ==
    ASSUME TypeOK, NEW n \in Name, NEW c \in Content, AddFile(n, c)
    PROVE  TypeOK'
<1>1. CASE reply' = NoReply /\ index' = Index(index.total + 1, NamesAfterAdd(n))
           /\ body' = [body EXCEPT ![GetIndex(NamesAfterAdd(n), n)] = c]
  <2>1. NamesAfterAdd(n) \in Seq(Name \union {Junk})
    BY NamesReadType DEF NamesAfterAdd, TypeOK, Indices
  <2>2. index' \in Indices /\ (index.total)' \in MinTotal .. MaxFiles
    BY <1>1, <2>1, FileStoreAssumption DEF AddFile, TypeOK, Indices, Index
  <2>3. body' \in [Slots -> Stored]
    BY <1>1 DEF TypeOK, Stored
  <2>4. reply' \in Replies
    BY <1>1 DEF Replies
  <2> QED BY <2>2, <2>3, <2>4 DEF TypeOK
<1>2. CASE reply' = Closed /\ UNCHANGED <<index, body>>
  BY <1>2 DEF TypeOK, Replies
<1> QED BY <1>1, <1>2 DEF AddFile, Throw

LEMMA TypeGetFile ==
    ASSUME TypeOK, NEW n \in Name, GetFile(n)
    PROVE  TypeOK'
<1>1. reply' \in Replies
  <2>1. ASSUME NEW i \in Slots PROVE BodyReplies(i) \subseteq Replies
    BY DEF BodyReplies, Replies, TypeOK, Stored
  <2>2. \A ix \in Seen : GetIndex(NamesRead(ix), n) \in Slots
    BY LookupSlot
  <2> QED BY <2>1, <2>2 DEF GetFile, GetReplies, Replies
<1> QED BY <1>1 DEF TypeOK, GetFile

LEMMA TypeListFiles ==
    ASSUME TypeOK, ListFiles
    PROVE  TypeOK'
<1>1. NamesRead(index) \in Seq(Name \union {Junk})
  BY NamesReadType DEF TypeOK, Indices
<1>2. reply' \in Replies \/ IsListReply(reply')
  BY <1>1 DEF ListFiles, ListReplies, Replies, IsListReply, ListReply
<1> QED BY <1>2 DEF TypeOK, ListFiles, IsListReply

LEMMA MovedType ==
    ASSUME TypeOK, NEW k \in Int, NEW j \in Int, j <= MaxFiles - 1
    PROVE  Moved(k, j) \in [Slots -> Stored]
<1>1. Shifted(k, j) \in [Slots -> Stored]
  <2>1. ASSUME NEW p \in Slots, k <= p, p < j PROVE body[p+1] \in Stored
    <3>1. p+1 \in Slots
      BY <2>1, FileStoreAssumption DEF Slots
    <3> QED BY <3>1 DEF TypeOK
  <2> QED BY <2>1 DEF Shifted, TypeOK, Stored
<1> QED BY <1>1 DEF Moved, TypeOK

LEMMA TypeDeleteFile ==
    ASSUME TypeOK, NEW n \in Name, DeleteFile(n)
    PROVE  TypeOK'
<1> DEFINE ns(ix) == NamesRead(ix)
           k(ix)  == GetIndex(ns(ix), n)
<1>1. PICK ix \in Seen : /\ ix.total > MinTotal
                         /\ \/ Deleted(ix, ns(ix), k(ix), n)
                            \/ DeleteMeetsHole(ix, k(ix))
                            \/ DeleteMeetsEnd(ix, k(ix))
  BY DEF DeleteFile
<1>2. /\ ix.total \in MinTotal .. MaxFiles
      /\ ix.total \in Int
      /\ ix.names \in Seq(Name \union {Junk})
      /\ MinTotal \in Int
      /\ MaxFiles \in Nat
  BY SeenTypes, FileStoreAssumption
<1>3. ns(ix) \in Seq(Name \union {Junk}) /\ Len(ns(ix)) \in Nat
  BY <1>2, NamesReadType
<1>4. k(ix) \in Int
  BY LookupSlot
<1> HIDE DEF k
<1>5. CASE Deleted(ix, ns(ix), k(ix), n)
  <2>1. Without(ns(ix), n) \in Seq(Name \union {Junk})
    BY <1>3, WithoutSeq
  <2>2. index' \in Indices /\ (index.total)' \in MinTotal .. MaxFiles
    BY <1>1, <1>2, <1>5, <2>1 DEF Deleted, Index, Indices
  <2>3. body' \in [Slots -> Stored]
    BY <1>2, <1>4, <1>5, MovedType DEF Deleted
  <2>4. reply' \in Replies
    BY <1>5 DEF Deleted, Replies
  <2> QED BY <2>2, <2>3, <2>4 DEF TypeOK
<1>6. CASE DeleteMeetsHole(ix, k(ix))
  <2>1. PICK i \in k(ix)+1 .. ix.total-1 :
               body' = Moved(k(ix), i-1) /\ reply' = Closed /\ index' = index
    BY <1>6 DEF DeleteMeetsHole, Throw
  <2>2. i-1 \in Int /\ i-1 <= MaxFiles-1
    BY <1>2, <1>4, <2>1
  <2>3. body' \in [Slots -> Stored]
    BY <1>4, <2>1, <2>2, MovedType
  <2> QED BY <2>1, <2>3 DEF TypeOK, Replies
<1>7. CASE DeleteMeetsEnd(ix, k(ix))
  <2>1. PICK i \in Len(ix.names) .. ix.total-1 :
               body' = Moved(k(ix), i) /\ reply' = Closed /\ index' = index
    BY <1>7 DEF DeleteMeetsEnd, Throw
  <2>2. i \in Int /\ i <= MaxFiles-1
    BY <1>2, <2>1
  <2>3. body' \in [Slots -> Stored]
    BY <1>4, <2>1, <2>2, MovedType
  <2> QED BY <2>1, <2>3 DEF TypeOK, Replies
<1> QED BY <1>1, <1>5, <1>6, <1>7

LEMMA TypeStep == TypeOK /\ [Next]_vars => TypeOK'
<1> SUFFICES ASSUME TypeOK, [Next]_vars PROVE TypeOK'
  OBVIOUS
<1>1. ASSUME NEW n \in Name, NEW c \in Content, AddFile(n, c) PROVE TypeOK'
  BY <1>1, TypeAddFile
<1>2. ASSUME NEW n \in Name, GetFile(n) PROVE TypeOK'
  BY <1>2, TypeGetFile
<1>3. CASE ListFiles
  BY <1>3, TypeListFiles
<1>4. ASSUME NEW n \in Name, DeleteFile(n) PROVE TypeOK'
  BY <1>4, TypeDeleteFile
<1>5. CASE UNCHANGED vars
  BY <1>5 DEF vars, TypeOK, IsListReply
<1> QED BY <1>1, <1>2, <1>3, <1>4, <1>5 DEF Next, Request

(***************************************************************************)
(* Types hold for every client (data.cpp:67-161): no lookup, renumbering   *)
(* or uninitialized read takes the store out of its state space.           *)
(***************************************************************************)
THEOREM TypeCorrect == Spec => []TypeOK
BY TypeInit, TypeStep, PTL DEF Spec

-----------------------------------------------------------------------------
(* The careful client *)

LEMMA CarefulIsAny == [CarefulNext]_vars => [Next]_vars
BY DEF CarefulNext, Next, Request, Anyhow

\* The index holds exactly the names its count announces.
LEMMA PairedReads ==
    ASSUME TypeOK, Paired
    PROVE  /\ index.names \in Seq(Name)
           /\ Len(index.names) \in Nat
           /\ index.total = Len(index.names)
           /\ NamesRead(index) = index.names
           /\ ~ ReadFails(index)
           /\ MaxFiles \in Nat
           /\ index.total <= MaxFiles
<1> DEFINE ns == index.names
<1>1. ns \in Seq(Name) /\ Len(ns) \in Nat /\ index.total = Len(ns)
  BY DEF Paired
<1>2. NamesRead(index) = ns
  BY <1>1, NamesReadAll
<1> QED BY <1>1, <1>2, FileStoreAssumption DEF ReadFails, TypeOK

\* A listed name has one slot to be read from, and a body in it.
LEMMA ListedSlot ==
    ASSUME TypeOK, Paired, NEW n \in Listed
    PROVE  /\ Seen = {index}
           /\ GetIndex(index.names, n) \in 0 .. Len(index.names)-1
           /\ index.names[GetIndex(index.names, n) + 1] = n
           /\ \A j \in 1 .. GetIndex(index.names, n) : index.names[j] # n
           /\ body[GetIndex(index.names, n)] \in Content
           /\ GetIndex(index.names, n) \in Slots
<1> DEFINE ns == index.names
           g  == GetIndex(ns, n)
<1>1. /\ Len(ns) \in Nat
      /\ Len(ns) <= MaxFiles
      /\ MaxFiles \in Nat
      /\ Hits(ns, n) # {}
  BY PairedReads DEF Listed
<1>2. /\ g \in 0 .. Len(ns)-1
      /\ ns[g+1] = n
      /\ \A j \in 1..g : ns[j] # n
  BY <1>1, GetIndexFirst
<1>3. Seen = {index}
  <2>1. index # NoIndex
    BY <1>1, <1>2 DEF NoIndex
  <2> QED BY <2>1 DEF Seen, Paired
<1> HIDE DEF g
<1>4. g+1 \in 1..Len(ns) /\ GetIndex(ns, ns[g+1]) = (g+1)-1
  BY <1>1, <1>2 DEF g
<1>5. body[g] # NoFile
  BY <1>2, <1>4 DEF Paired, FirstSlot
<1>6. g \in Slots
  BY <1>1, <1>2 DEF Slots
<1>7. body[g] \in Content
  BY <1>5, <1>6 DEF TypeOK, Stored
<1> QED BY <1>2, <1>3, <1>6, <1>7 DEF g

\* What an upload does to a paired store.
LEMMA CarefulAdd ==
    ASSUME TypeOK, Paired, NEW n \in Name, NEW c \in Content, AddFile(n, c)
    PROVE  /\ index.total < MaxFiles
           /\ index' = Index(index.total + 1, Append(index.names, n))
           /\ body' = [body EXCEPT ![GetIndex(Append(index.names, n), n)] = c]
           /\ reply' = NoReply
BY PairedReads DEF AddFile, NamesAfterAdd

LEMMA PairedAddFile ==
    ASSUME TypeOK, Paired, NEW n \in Name, NEW c \in Content, AddFile(n, c)
    PROVE  Paired'
<1> DEFINE ns == index.names
           a  == Append(ns, n)
           N  == Len(ns)
           g  == GetIndex(a, n)
<1>1. /\ ns \in Seq(Name)
      /\ N \in Nat
      /\ index.total = N
      /\ N < MaxFiles
      /\ MaxFiles \in Nat
      /\ index'.exists
      /\ index'.total = N + 1
      /\ index'.names = a
      /\ body' = [body EXCEPT ![g] = c]
  BY PairedReads, CarefulAdd DEF Index
<1>2. /\ a \in Seq(Name)
      /\ Len(a) = N + 1
      /\ \A j \in 1..N : a[j] = ns[j]
      /\ a[N+1] = n
  BY <1>1, AppendProperties
<1>3. \A p \in Slots : body'[p] = IF p = g THEN c ELSE body[p]
  BY <1>1 DEF TypeOK
<1>4. ASSUME NEW i \in 1..N+1, GetIndex(a, a[i]) = i-1
      PROVE  body'[i-1] # NoFile
  <2>1. i-1 \in Slots
    BY <1>1 DEF Slots
  <2>2. CASE i = N+1
    BY <1>2, <1>3, <1>4, <2>1, <2>2, FileStoreAssumption
  <2>3. CASE i # N+1
    <3>1. i \in 1..N /\ a[i] = ns[i] /\ i \in Hits(ns, ns[i])
      BY <1>1, <1>2, <2>3 DEF Hits
    <3>2. GetIndex(ns, ns[i]) = i-1
      BY <1>1, <1>4, <3>1, AppendIndex
    <3>3. body[i-1] # NoFile
      BY <3>1, <3>2 DEF Paired, FirstSlot
    <3> QED BY <1>3, <2>1, <3>3, FileStoreAssumption
  <2> QED BY <2>2, <2>3
<1> HIDE DEF a
<1> QED BY <1>1, <1>2, <1>4 DEF Paired, FirstSlot

(***************************************************************************)
(* What a careful delete does: it always ends, the names after n move down *)
(* one and their bodies with them.                                         *)
(***************************************************************************)
LEMMA CarefulDelete ==
    ASSUME TypeOK, Paired, NEW n \in Name, Careful(n), DeleteFile(n)
    PROVE  LET ns == index.names
               N  == Len(ns)
               g  == GetIndex(ns, n)
               w  == index'.names
           IN  /\ index'.exists
               /\ index'.total = N - 1
               /\ w \in Seq(Name)
               /\ Len(w) = N - 1
               /\ \A j \in 1..N-1 : w[j] = IF j < g+1 THEN ns[j] ELSE ns[j+1]
               /\ \A j \in 1..N : j # g+1 => ns[j] # n
               /\ \A i \in g+1 .. N-1 : body[i] # NoFile
               /\ \A p \in Slots : body'[p] = IF g <= p /\ p < N-1 THEN body[p+1]
                                              ELSE IF g < p /\ p = N-1 THEN NoFile
                                              ELSE body[p]
               /\ reply' = NoReply
<1> DEFINE ns == index.names
           N  == Len(ns)
           g  == GetIndex(ns, n)
           w  == index'.names
<1>1. /\ ns \in Seq(Name)
      /\ N \in Nat
      /\ N <= MaxFiles
      /\ MaxFiles \in Nat
      /\ index.total = N
      /\ NamesRead(index) = ns
      /\ n \in Listed
  BY PairedReads DEF Careful
<1>2. /\ Seen = {index}
      /\ g \in 0..N-1
      /\ ns[g+1] = n
      /\ \A j \in 1..g : ns[j] # n
  BY <1>1, ListedSlot
<1>3. \A i \in g+1..N : GetIndex(ns, ns[i]) = i-1
  BY <1>1 DEF Careful, CleanFrom
<1>4. \A j \in 1..N : j # g+1 => ns[j] # n
  <2> TAKE j \in 1..N
  <2>1. CASE j \in 1..g
    BY <1>2, <2>1
  <2>2. CASE j > g+1
    <3>1. j \in g+1..N /\ GetIndex(ns, ns[j]) = j-1
      BY <1>2, <1>3, <2>2
    <3>2. j-1 # g
      BY <1>2, <2>2
    <3> QED BY <3>1, <3>2
  <2> QED BY <1>2, <2>1, <2>2
<1>5. \A i \in g+1..N-1 : body[i] # NoFile
  <2> TAKE i \in g+1..N-1
  <2>1. /\ i+1 \in 1..Len(index.names)
        /\ GetIndex(index.names, index.names[i+1]) = (i+1)-1
        /\ (i+1)-1 = i
    BY <1>1, <1>2, <1>3
  <2> QED BY <2>1 DEF Paired, FirstSlot
<1>6. Deleted(index, ns, g, n)
  <2>1. \/ Deleted(index, ns, g, n)
        \/ DeleteMeetsHole(index, g)
        \/ DeleteMeetsEnd(index, g)
    BY <1>1, <1>2 DEF DeleteFile
  <2>2. ~ DeleteMeetsHole(index, g)
    BY <1>1, <1>5 DEF DeleteMeetsHole
  <2>3. ~ DeleteMeetsEnd(index, g)
    BY <1>1 DEF DeleteMeetsEnd
  <2> QED BY <2>1, <2>2, <2>3
<1>7. /\ index'.exists
      /\ index'.total = N-1
      /\ w = Without(ns, n)
      /\ reply' = NoReply
  BY <1>1, <1>6 DEF Deleted, Index
<1>8. /\ w \in Seq(Name)
      /\ Len(w) = N-1
      /\ \A j \in 1..N-1 : w[j] = IF j < g+1 THEN ns[j] ELSE ns[j+1]
  <2>1. g+1 \in 1..Len(ns)
    BY <1>1, <1>2
  <2>2. \A j \in 1..Len(ns) : j # g+1 => ns[j] # n
    BY <1>4
  <2> HIDE DEF g
  <2>3. Without(ns, n) \in Seq(Name)
    BY <1>1, WithoutSeq
  <2>4. /\ Len(Without(ns, n)) = Len(ns) - 1
        /\ \A j \in 1 .. Len(ns)-1 :
              Without(ns, n)[j] = IF j < g+1 THEN ns[j] ELSE ns[j+1]
    BY <1>1, <1>2, <2>1, <2>2, WithoutOne
  <2> QED BY <1>7, <2>3, <2>4
<1>9. body' = Moved(g, N-1)
  BY <1>1, <1>6 DEF Deleted
<1>10. \A p \in Slots : body'[p] = IF g <= p /\ p < N-1 THEN body[p+1]
                                   ELSE IF g < p /\ p = N-1 THEN NoFile
                                   ELSE body[p]
  <2>1. CASE N-1 > g
    <3>1. body' = Shifted(g, N-1)
      BY <1>2, <1>9, <2>1 DEF Moved
    <3> QED BY <3>1 DEF Shifted
  <2>2. CASE N-1 = g
    <3>1. body' = body
      BY <1>9, <2>2 DEF Moved
    <3>2. \A p \in Slots : ~ (g <= p /\ p < N-1) /\ ~ (g < p /\ p = N-1)
      BY <1>1, <2>2 DEF Slots
    <3> QED BY <3>1, <3>2
  <2> QED BY <1>1, <1>2, <2>1, <2>2
<1> QED BY <1>4, <1>5, <1>7, <1>8, <1>10

(***************************************************************************)
(* After it the other names are found where their bodies went.             *)
(***************************************************************************)
LEMMA DeleteIndex ==
    ASSUME NEW ns \in Seq(Name), NEW w \in Seq(Name),
           NEW g \in 0..Len(ns)-1, Len(w) = Len(ns)-1,
           \A j \in 1..Len(ns)-1 : w[j] = IF j < g+1 THEN ns[j] ELSE ns[j+1],
           NEW m, m # ns[g+1]
    PROVE  /\ Hits(w, m) = {} <=> Hits(ns, m) = {}
           /\ Hits(ns, m) # {} =>
                 GetIndex(w, m) = IF GetIndex(ns, m) < g THEN GetIndex(ns, m)
                                                         ELSE GetIndex(ns, m) - 1
<1> DEFINE N == Len(ns)
<1>1. ASSUME NEW j \in 1..N-1, w[j] = m PROVE Hits(ns, m) # {}
  <2>1. (j \in 1..N /\ ns[j] = m) \/ (j+1 \in 1..N /\ ns[j+1] = m)
    BY <1>1
  <2> QED BY <2>1 DEF Hits
<1>2. ASSUME Hits(ns, m) # {}
      PROVE  /\ Hits(w, m) # {}
             /\ GetIndex(w, m) = IF GetIndex(ns, m) < g THEN GetIndex(ns, m)
                                                        ELSE GetIndex(ns, m) - 1
  <2> DEFINE h == GetIndex(ns, m)
             i == IF h < g THEN h+1 ELSE h
  <2>1. h \in 0..N-1 /\ ns[h+1] = m /\ \A j \in 1..h : ns[j] # m
    BY <1>2, GetIndexFirst
  <2> HIDE DEF h
  <2>2. h # g
    BY <2>1
  <2>3. i \in 1..N-1
    BY <2>1, <2>2
  <2>4. w[i] = m
    BY <2>1, <2>2, <2>3
  <2>5. \A j \in 1..i-1 : w[j] # m
    <3> TAKE j \in 1..i-1
    <3>1. j \in 1..N-1
      BY <2>1, <2>3
    <3>2. CASE j < g+1
      <4>1. w[j] = ns[j] /\ j \in 1..h
        BY <2>1, <2>3, <3>1, <3>2
      <4> QED BY <2>1, <4>1
    <3>3. CASE ~ (j < g+1)
      <4>1. w[j] = ns[j+1] /\ j+1 \in 1..h
        BY <2>1, <2>3, <3>1, <3>3
      <4> QED BY <2>1, <4>1
    <3> QED BY <3>2, <3>3
  <2> HIDE DEF i
  <2>6. GetIndex(w, m) = i-1
    <3>1. Len(w) \in Nat /\ i \in 1..Len(w)
      BY <2>3
    <3> QED BY <2>4, <2>5, <3>1, GetIndexIs
  <2>7. Hits(w, m) # {}
    BY <2>3, <2>4 DEF Hits
  <2>8. i-1 = IF h < g THEN h ELSE h-1
    BY <2>1 DEF i
  <2> QED BY <2>6, <2>7, <2>8 DEF h
<1>3. Hits(w, m) # {} => Hits(ns, m) # {}
  BY <1>1 DEF Hits
<1> QED BY <1>2, <1>3

LEMMA PairedDeleteFile ==
    ASSUME TypeOK, Paired, NEW n \in Name, Careful(n), DeleteFile(n)
    PROVE  Paired'
<1> DEFINE ns == index.names
           N  == Len(ns)
           g  == GetIndex(ns, n)
           w  == index'.names
<1>1. /\ index'.exists
      /\ index'.total = N - 1
      /\ w \in Seq(Name)
      /\ Len(w) = N - 1
      /\ \A j \in 1..N-1 : w[j] = IF j < g+1 THEN ns[j] ELSE ns[j+1]
      /\ \A i \in g+1 .. N-1 : body[i] # NoFile
      /\ \A p \in Slots : body'[p] = IF g <= p /\ p < N-1 THEN body[p+1]
                                     ELSE IF g < p /\ p = N-1 THEN NoFile
                                     ELSE body[p]
      /\ \A j \in 1..N : j # g+1 => ns[j] # n
  BY CarefulDelete
<1>2. /\ ns \in Seq(Name)
      /\ N \in Nat
      /\ N <= MaxFiles
      /\ MaxFiles \in Nat
      /\ g \in 0..N-1
      /\ ns[g+1] = n
  BY PairedReads, ListedSlot DEF Careful
<1> HIDE DEF g, w
<1>3. ASSUME NEW i \in 1..N-1, GetIndex(w, w[i]) = i-1
      PROVE  body'[i-1] # NoFile
  <2>1. i-1 \in Slots
    BY <1>2 DEF Slots
  <2>2. CASE i-1 < g
    <3>1. w[i] = ns[i] /\ i \in 1..N /\ i # g+1
      BY <1>1, <1>2, <2>2
    <3>2. ns[i] # n /\ ns[i] # ns[g+1] /\ Hits(ns, ns[i]) # {}
      BY <1>1, <1>2, <3>1 DEF Hits
    <3> DEFINE h == GetIndex(ns, ns[i])
    <3>3. /\ h \in 0..N-1
          /\ \A j \in 1..h : ns[j] # ns[i]
      BY <1>2, <3>2, GetIndexFirst
    <3>4. GetIndex(w, ns[i]) = IF h < g THEN h ELSE h-1
      <4> HIDE DEF ns
      <4> DEFINE m == ns[i]
      <4>1. /\ ns \in Seq(Name) /\ w \in Seq(Name)
            /\ g \in 0..Len(ns)-1 /\ Len(w) = Len(ns)-1
            /\ \A j \in 1..Len(ns)-1 : w[j] = IF j < g+1 THEN ns[j] ELSE ns[j+1]
            /\ m # ns[g+1] /\ Hits(ns, m) # {}
        BY <1>1, <1>2, <3>2
      <4> HIDE DEF m
      <4>2. GetIndex(w, m) = IF GetIndex(ns, m) < g THEN GetIndex(ns, m)
                                                    ELSE GetIndex(ns, m) - 1
        BY ONLY <4>1, DeleteIndex, Zenon
      <4> QED BY <4>2, Zenon DEF m
    <3> HIDE DEF h
    <3>5. h <= i-1
      BY <1>2, <3>1, <3>3
    <3>6. h = i-1
      BY <1>3, <2>2, <3>1, <3>3, <3>4, <3>5
    <3>7. body[i-1] # NoFile
      BY <1>2, <3>1, <3>6 DEF Paired, FirstSlot, h
    <3>8. body'[i-1] = body[i-1]
      <4>1. ~(g <= i-1) /\ ~(g < i-1)
        BY <1>2, <2>2
      <4> QED BY <1>1, <2>1, <4>1, Zenon
    <3> QED BY <3>7, <3>8
  <2>3. CASE ~ (i-1 < g)
    <3>1. /\ g <= i-1 /\ i-1 < N-1
          /\ (i-1)+1 = i
          /\ i \in g+1..N-1
      BY <1>2, <2>3
    <3>2. body'[i-1] = body[(i-1)+1]
      BY <1>1, <2>1, <3>1
    <3>3. body[i] # NoFile
      BY <1>1, <3>1
    <3> QED BY <3>1, <3>2, <3>3
  <2> QED BY <2>2, <2>3
<1> QED BY <1>1, <1>2, <1>3 DEF Paired, FirstSlot, w

LEMMA PairedInit == Init => Paired
BY EmptySeq DEF Init, Paired, NoIndex

LEMMA PairedStep ==
    TypeOK /\ Paired /\ [CarefulNext]_vars => Paired'
<1> SUFFICES ASSUME TypeOK, Paired, [CarefulNext]_vars PROVE Paired'
  OBVIOUS
<1>1. ASSUME NEW n \in Name, NEW c \in Content, AddFile(n, c) PROVE Paired'
  BY <1>1, PairedAddFile
<1>2. ASSUME NEW n \in Name, GetFile(n) PROVE Paired'
  BY <1>2 DEF GetFile, Paired, FirstSlot
<1>3. CASE ListFiles
  BY <1>3 DEF ListFiles, Paired, FirstSlot
<1>4. ASSUME NEW n \in Name, Careful(n), DeleteFile(n) PROVE Paired'
  BY <1>4, PairedDeleteFile
<1>5. CASE UNCHANGED vars
  BY <1>5 DEF vars, Paired, FirstSlot
<1> QED BY <1>1, <1>2, <1>3, <1>4, <1>5 DEF CarefulNext, Request

LEMMA CarefulTypes == CarefulSpec => []TypeOK
BY TypeInit, TypeStep, CarefulIsAny, PTL DEF CarefulSpec

(***************************************************************************)
(* Under the careful discipline every upload and every renumbering leaves  *)
(* index and bodies paired (data.cpp:117-161, 193-206), for any number of  *)
(* files.                                                                  *)
(***************************************************************************)
THEOREM CarefulPairing == CarefulSpec => []Paired
BY CarefulTypes, PairedInit, PairedStep, PTL DEF CarefulSpec

-----------------------------------------------------------------------------
(* The vault the careful client sees *)

\* A name is stored in the vault exactly when it is listed.
LEMMA VaultStored ==
    ASSUME TypeOK, Paired
    PROVE  Vault!Stored = Listed
<1>1. ASSUME NEW n \in Name PROVE VaultFiles[n] # NoFile <=> n \in Listed
  <2>1. CASE n \in Listed
    <3>1. body[GetIndex(index.names, n)] # NoFile
      BY <2>1, ListedSlot, FileStoreAssumption
    <3> QED BY <2>1, <3>1 DEF VaultFiles
  <2>2. CASE n \notin Listed
    BY <2>2 DEF VaultFiles
  <2> QED BY <2>1, <2>2
<1> QED BY <1>1 DEF Vault!Stored, Listed

LEMMA VaultInit == Init => Vault!Init
<1> SUFFICES ASSUME Init PROVE Vault!Init
  OBVIOUS
<1>1. Listed = {}
  <2>1. Len(NamesRead(index)) = 0
    BY EmptySeq DEF Init, NoIndex, NamesRead
  <2> QED BY <2>1 DEF Listed, Hits
<1>2. VaultFiles = [n \in Name |-> NoFile]
  BY <1>1 DEF VaultFiles
<1>3. VaultReply = Vault!NoReply
  BY DEF Init, VaultReply, NoReply, Vault!NoReply
<1> QED BY <1>2, <1>3 DEF Vault!Init

LEMMA VaultUpload ==
    ASSUME TypeOK, Paired, NEW n \in Name, NEW c \in Content, AddFile(n, c),
           TypeOK', Paired'
    PROVE  Vault!Upload(n, c)
<1> DEFINE ns == index.names
           a  == Append(ns, n)
           g  == GetIndex(a, n)
<1>1. /\ ns \in Seq(Name)
      /\ Len(ns) \in Nat
      /\ NamesRead(index) = ns
      /\ index'.names = a
      /\ NamesRead(index)' = a
      /\ body' = [body EXCEPT ![g] = c]
      /\ reply' = NoReply
  <2>1. NamesRead(index') = index'.names
    BY NamesReadAll DEF Paired
  <2> QED BY <2>1, PairedReads, CarefulAdd DEF Index
<1>2. n \in Listed'
  BY <1>1, AppendIndex DEF Listed
<1>3. g \in Slots
  <2>1. CASE Hits(ns, n) = {}
    <3>1. g = Len(ns) /\ Len(ns) < MaxFiles /\ MaxFiles \in Nat
      BY <1>1, <2>1, AppendIndex, CarefulAdd, PairedReads
    <3> QED BY <1>1, <3>1 DEF Slots
  <2>2. CASE Hits(ns, n) # {}
    <3>1. g = GetIndex(ns, n)
      BY <1>1, <2>2, AppendIndex
    <3>2. n \in Listed
      BY <1>1, <2>2 DEF Listed
    <3> QED BY <3>1, <3>2, ListedSlot
  <2> QED BY <2>1, <2>2
<1>4. VaultFiles'[n] = c
  BY <1>1, <1>2, <1>3 DEF VaultFiles, TypeOK
<1>5. ASSUME NEW m \in Name, m # n PROVE VaultFiles'[m] = VaultFiles[m]
  <2>1. m \in Listed' <=> m \in Listed
    BY <1>1, <1>5, AppendIndex DEF Listed
  <2>2. CASE m \in Listed
    <3> DEFINE h == GetIndex(ns, m)
    <3>1. GetIndex(a, m) = h
      BY <1>1, <2>2, AppendIndex DEF Listed
    <3>2. h \in Slots /\ h \in 0..Len(ns)-1 /\ ns[h+1] = m
      BY <2>2, ListedSlot
    <3>3. h # g
      <4>1. a[h+1] = m
        BY <1>1, <3>2, AppendProperties
      <4>2. a[g+1] = n
        <5>1. Len(a) \in Nat /\ Hits(a, n) # {}
          BY <1>1, AppendIndex, AppendProperties
        <5> QED BY <5>1, GetIndexFirst
      <4> QED BY <1>5, <4>1, <4>2
    <3>4. body'[h] = body[h]
      BY <1>1, <3>2, <3>3 DEF TypeOK
    <3> QED BY <1>1, <2>1, <2>2, <3>1, <3>4 DEF VaultFiles
  <2>3. CASE m \notin Listed
    BY <2>1, <2>3 DEF VaultFiles
  <2> QED BY <2>2, <2>3
<1>6. VaultFiles' = [VaultFiles EXCEPT ![n] = c]
  BY <1>4, <1>5 DEF VaultFiles
<1>7. VaultReply' = Vault!NoReply
  BY <1>1 DEF VaultReply, NoReply, Vault!NoReply
<1> QED BY <1>6, <1>7 DEF Vault!Upload

LEMMA VaultDownload ==
    ASSUME TypeOK, Paired, NEW n \in Listed, GetFile(n)
    PROVE  Vault!Download(n)
<1> DEFINE g == GetIndex(index.names, n)
<1>1. /\ Seen = {index}
      /\ NamesRead(index) = index.names
      /\ ~ ReadFails(index)
      /\ body[g] \in Content
  BY ListedSlot, PairedReads
<1>2. BodyReplies(g) = {FileReply(body[g])}
  BY <1>1, FileStoreAssumption DEF BodyReplies
<1>3. GetReplies(n) = {FileReply(body[g])}
  BY <1>1, <1>2 DEF GetReplies
<1>4. reply' = FileReply(body[g]) /\ UNCHANGED <<index, body>>
  BY <1>3 DEF GetFile
<1>5. VaultFiles[n] = body[g]
  BY DEF VaultFiles, Listed
<1>6. VaultReply' = Vault!FileReply(VaultFiles[n])
  BY <1>4, <1>5 DEF VaultReply, FileReply, Vault!FileReply
<1>7. UNCHANGED VaultFiles
  BY <1>4 DEF VaultFiles, Listed, NamesRead
<1> QED BY <1>6, <1>7, VaultStored DEF Vault!Download

LEMMA VaultList ==
    ASSUME TypeOK, Paired, ListFiles
    PROVE  Vault!List
<1> DEFINE ns == index.names
<1>1. ns \in Seq(Name) /\ Len(ns) \in Nat /\ NamesRead(index) = ns
  BY PairedReads
<1>2. Hits(ns, Junk) = {}
  BY <1>1, FileStoreAssumption DEF Hits
<1>3. reply' = ListReply(ns) /\ UNCHANGED <<index, body>>
  BY <1>1, <1>2 DEF ListFiles, ListReplies
<1>4. {ns[i] : i \in 1..Len(ns)} = Listed
  BY <1>1 DEF Listed, Hits
<1>5. VaultReply' = Vault!ListReply(Vault!Stored)
  <2>1. reply'.kind = "list" /\ reply'.names = ns
    BY <1>3 DEF ListReply
  <2>2. VaultReply' = ListReply({ns[i] : i \in 1..Len(ns)})
    BY <2>1 DEF VaultReply
  <2> QED BY <1>4, <2>2, VaultStored DEF ListReply, Vault!ListReply
<1>6. UNCHANGED VaultFiles
  BY <1>3 DEF VaultFiles, Listed, NamesRead
<1> QED BY <1>5, <1>6 DEF Vault!List

LEMMA VaultDelete ==
    ASSUME TypeOK, Paired, NEW n \in Name, Careful(n), DeleteFile(n),
           TypeOK', Paired'
    PROVE  Vault!Delete(n)
<1> DEFINE ns == index.names
           N  == Len(ns)
           g  == GetIndex(ns, n)
           w  == index'.names
<1>1. /\ w \in Seq(Name)
      /\ Len(w) = N - 1
      /\ \A j \in 1..N-1 : w[j] = IF j < g+1 THEN ns[j] ELSE ns[j+1]
      /\ \A j \in 1..N : j # g+1 => ns[j] # n
      /\ \A p \in Slots : body'[p] = IF g <= p /\ p < N-1 THEN body[p+1]
                                     ELSE IF g < p /\ p = N-1 THEN NoFile
                                     ELSE body[p]
      /\ reply' = NoReply
  BY CarefulDelete
<1>2. /\ ns \in Seq(Name)
      /\ N \in Nat
      /\ N <= MaxFiles
      /\ MaxFiles \in Nat
      /\ NamesRead(index) = ns
      /\ n \in Listed
      /\ g \in 0..N-1
      /\ ns[g+1] = n
  BY PairedReads, ListedSlot DEF Careful
<1>3. NamesRead(index)' = w
  <2>1. NamesRead(index') = index'.names
    BY NamesReadAll DEF Paired
  <2> QED BY <2>1
<1> HIDE DEF ns, g, w
<1>4. n \notin Listed'
  BY <1>1, <1>2, <1>3 DEF Listed, Hits
<1>5. ASSUME NEW m \in Name, m # n PROVE VaultFiles'[m] = VaultFiles[m]
  <2>1. /\ Hits(w, m) = {} <=> Hits(ns, m) = {}
        /\ Hits(ns, m) # {} =>
              GetIndex(w, m) = IF GetIndex(ns, m) < g THEN GetIndex(ns, m)
                                                      ELSE GetIndex(ns, m) - 1
    BY <1>1, <1>2, <1>5, DeleteIndex
  <2>2. m \in Listed' <=> m \in Listed
    BY <1>2, <1>3, <2>1 DEF Listed
  <2>3. CASE m \in Listed
    <3> DEFINE h == GetIndex(ns, m)
               i == GetIndex(w, m)
    <3>1. h \in Slots /\ h \in 0..N-1 /\ ns[h+1] = m
      BY <2>3, ListedSlot DEF ns
    <3>2. i = IF h < g THEN h ELSE h-1
      BY <1>2, <2>1, <2>3 DEF Listed
    <3>3. VaultFiles[m] = body[h] /\ VaultFiles'[m] = body'[i]
      BY <2>2, <2>3 DEF VaultFiles, ns, w
    <3>4. h # g
      BY <1>2, <1>5, <3>1
    <3> HIDE DEF h, i
    <3>5. i \in Slots
      BY <1>2, <3>1, <3>2, <3>4 DEF Slots
    <3>6. body'[i] = body[h]
      <4>1. CASE h < g
        BY <1>1, <1>2, <3>1, <3>2, <3>5, <4>1
      <4>2. CASE ~ (h < g)
        <5>1. g <= i /\ i < N-1 /\ i+1 = h
          BY <1>2, <3>1, <3>2, <3>4, <4>2
        <5> QED BY <1>1, <3>5, <5>1
      <4> QED BY <4>1, <4>2
    <3> QED BY <3>3, <3>6
  <2>4. CASE m \notin Listed
    BY <2>2, <2>4 DEF VaultFiles
  <2> QED BY <2>3, <2>4
<1>6. VaultFiles' = [VaultFiles EXCEPT ![n] = NoFile]
  BY <1>4, <1>5 DEF VaultFiles
<1>7. VaultReply' = Vault!NoReply
  BY <1>1 DEF VaultReply, NoReply, Vault!NoReply
<1> QED BY <1>2, <1>6, <1>7, VaultStored DEF Vault!Delete

LEMMA VaultStep ==
    TypeOK /\ Paired /\ TypeOK' /\ Paired' /\ [CarefulNext]_vars
      => [Vault!Next]_(Vault!vars)
<1> SUFFICES ASSUME TypeOK, Paired, TypeOK', Paired', [CarefulNext]_vars
             PROVE  [Vault!Next]_(Vault!vars)
  OBVIOUS
<1>1. ASSUME NEW n \in Name, NEW c \in Content, AddFile(n, c)
      PROVE  Vault!Next
  BY <1>1, VaultUpload DEF Vault!Next
<1>2. ASSUME NEW n \in Name, OnList(n), GetFile(n) PROVE Vault!Next
  BY <1>2, VaultDownload DEF Vault!Next, OnList
<1>3. CASE ListFiles
  BY <1>3, VaultList DEF Vault!Next
<1>4. ASSUME NEW n \in Name, Careful(n), DeleteFile(n) PROVE Vault!Next
  BY <1>4, VaultDelete DEF Vault!Next
<1>5. CASE UNCHANGED vars
  BY <1>5 DEF vars, Vault!vars, VaultFiles, VaultReply, Listed
<1> QED BY <1>1, <1>2, <1>3, <1>4, <1>5 DEF CarefulNext, Request

(***************************************************************************)
(* The store implements the vault of UserFiles under the careful           *)
(* discipline: index, slots, renumbering and repeated names (data.cpp:     *)
(* 67-243) are invisible to a client that keeps to it.                     *)
(***************************************************************************)
THEOREM CarefulVault == CarefulSpec => KeepsVault
BY CarefulTypes, CarefulPairing, VaultInit, VaultStep, PTL
   DEF CarefulSpec, KeepsVault, Vault!Spec

-----------------------------------------------------------------------------
(* Any client *)

(***************************************************************************)
(* An accepted upload leaves an index that is read in full and a body in   *)
(* the slot where a lookup ends, whatever the count was before.            *)
(***************************************************************************)
LEMMA UploadReadsBack ==
    ASSUME TypeOK, NEW n \in Name, NEW c \in Content, AddFile(n, c),
           reply' # Closed
    PROVE  GetReplies(n)' = {FileReply(c)}
<1> DEFINE S  == Name \union {Junk}
           na == NamesAfterAdd(n)
           g  == GetIndex(na, n)
           t  == index.total
<1>1. /\ index' = Index(t + 1, na)
      /\ body' = [body EXCEPT ![g] = c]
      /\ t < MaxFiles
      /\ t \in Int
      /\ MaxFiles \in Nat
      /\ index.names \in Seq(S)
  BY FileStoreAssumption DEF AddFile, Throw, TypeOK, Indices
<1>2. /\ index'.exists
      /\ index'.total = t + 1
      /\ index'.names = na
  BY <1>1 DEF Index
<1>3. /\ na \in Seq(S)
      /\ t + 1 <= Len(na)
      /\ NamesRead(index') = na
      /\ g \in Slots
  <2>1. CASE t >= 0
    <3> DEFINE ns == NamesRead(index)
    <3>1. ns \in Seq(S) /\ Len(ns) = t
      BY <1>1, <2>1, NamesReadType
    <3>2. na = Append(ns, n) /\ n \in S
      BY <2>1 DEF NamesAfterAdd
    <3> HIDE DEF ns
    <3>3. na \in Seq(S) /\ Len(na) = t + 1
      BY <3>1, <3>2, AppendProperties
    <3>4. NamesRead(index') = na
      <4> HIDE DEF na
      <4> QED BY <1>2, <3>3, NamesReadAll
    <3>5. Hits(na, n) # {}
      BY <3>1, <3>2, AppendIndex
    <3>6. g \in 0..Len(na)-1
      <4> HIDE DEF na
      <4> QED BY <1>1, <2>1, <3>3, <3>5, GetIndexFirst
    <3> QED BY <1>1, <2>1, <3>3, <3>4, <3>6 DEF Slots
  <2>2. CASE t < 0
    <3>0. na = <<>>
      BY <1>1, <2>2 DEF NamesAfterAdd
    <3>1. na = <<>> /\ na \in Seq(S) /\ Len(na) = 0
      BY <3>0, EmptySeq
    <3>2. NamesRead(index') = <<>>
      BY <1>1, <1>2, <2>2 DEF NamesRead
    <3>3. g = -1
      BY <3>1, GetIndexNone DEF Hits
    <3> QED BY <1>1, <2>2, <3>1, <3>2, <3>3 DEF Slots
  <2> QED BY <1>1, <2>1, <2>2
<1> HIDE DEF na
<1>4. Seen' = {index'}
  BY <1>2 DEF Seen
<1>5. ~ ReadFails(index')
  <2>1. Len(na) \in Nat
    BY <1>3
  <2> QED BY <1>1, <1>2, <1>3, <2>1 DEF ReadFails
<1>6. body'[g] = c /\ c # NoFile
  BY <1>1, <1>3, FileStoreAssumption DEF TypeOK
<1>7. PICK h : h = g
  OBVIOUS
<1>8. BodyReplies(h)' = {FileReply(c)}
  BY <1>6, <1>7 DEF BodyReplies, FileReply
<1>9. GetIndex(NamesRead(index'), n) = h
  BY <1>3, <1>7
<1> HIDE DEF g
<1> QED BY <1>4, <1>5, <1>8, <1>9 DEF GetReplies

(***************************************************************************)
(* For every client and every history, an upload that keeps its connection *)
(* is what the next download of that name returns (data.cpp:193-216).      *)
(***************************************************************************)
THEOREM AnyUploadIsReadBack == Spec => UploadIsReadBack
<1> DEFINE A == \A n \in Name, c \in Content :
                   AddFile(n, c) /\ reply' # Closed
                     => GetReplies(n)' = {FileReply(c)}
<1>1. TypeOK /\ [Next]_vars => [A]_vars
  BY UploadReadsBack
<1>2. Spec => [][A]_vars
  BY <1>1, TypeCorrect, PTL DEF Spec
<1> QED
  BY <1>2 DEF UploadIsReadBack

\* Moving bodies down keeps each, in its slot or the one before.
LEMMA MovedKeeps ==
    ASSUME TypeOK, NEW k \in Int, NEW j \in Int, k >= -1, j <= MaxFiles-1,
           NEW i \in Slots, i # k
    PROVE  \E p \in Slots \cap {i, i-1} : Moved(k, j)[p] = body[i]
<1>1. MaxFiles \in Nat
  BY FileStoreAssumption
<1>2. CASE k >= 0 /\ j > k /\ k < i /\ i <= j
  <2>1. i-1 \in Slots /\ i-1 \in {i, i-1} /\ k <= i-1 /\ i-1 < j /\ (i-1)+1 = i
    BY <1>1, <1>2 DEF Slots
  <2>2. Moved(k, j)[i-1] = body[i]
    BY <1>2, <2>1 DEF Moved, Shifted
  <2> QED BY <2>1, <2>2
<1>3. CASE ~ (k >= 0 /\ j > k /\ k < i /\ i <= j)
  <2>1. Moved(k, j)[i] = body[i]
    <3>1. CASE k >= 0 /\ j > k
      <4>1. i \in Int /\ ~ (k <= i /\ i < j) /\ ~ (k < i /\ i = j)
        BY <1>1, <1>3, <3>1 DEF Slots
      <4>2. Shifted(k, j)[i] = body[i]
        BY <4>1, Zenon DEF Shifted
      <4> QED BY <3>1, <4>2 DEF Moved
    <3>2. CASE ~ (k >= 0 /\ j > k)
      BY <3>2 DEF Moved
    <3> QED BY <3>1, <3>2
  <2> QED BY <2>1
<1> QED BY <1>2, <1>3

LEMMA DeleteKeepsBodies ==
    ASSUME TypeOK, NEW n \in Name, DeleteFile(n),
           NEW i \in Slots \ {GetIndex(NamesRead(index), n)}
    PROVE  \E p \in Slots \cap {i, i-1} : body'[p] = body[i]
<1> DEFINE k(ix) == GetIndex(NamesRead(ix), n)
<1>1. PICK ix \in Seen : \/ Deleted(ix, NamesRead(ix), k(ix), n)
                         \/ DeleteMeetsHole(ix, k(ix))
                         \/ DeleteMeetsEnd(ix, k(ix))
  BY DEF DeleteFile
<1>2. /\ k(ix) \in Int
      /\ k(ix) >= -1
      /\ ix.total \in Int
      /\ ix.total <= MaxFiles
      /\ MaxFiles \in Nat
  BY LookupSlot, SeenTypes, FileStoreAssumption DEF Slots
<1>3. i # k(ix) \/ k(ix) = -1
  <2>1. CASE index.exists
    BY <2>1 DEF Seen
  <2>2. CASE ~ index.exists
    <3>1. ix.names = <<>> /\ ix.total \in Int
      BY <1>2, <2>2 DEF Seen, NoIndex
    <3>2. \A j \in 1..Len(NamesRead(ix)) : NamesRead(ix)[j] = Junk
      BY <3>1, EmptySeq DEF NamesRead
    <3>3. Hits(NamesRead(ix), n) = {}
      BY <3>2, FileStoreAssumption DEF Hits
    <3> QED BY <3>3, GetIndexNone
  <2> QED BY <2>1, <2>2
<1> HIDE DEF k
<1>4. PICK j \in Int : j <= MaxFiles-1 /\ body' = Moved(k(ix), j)
  <2>1. CASE Deleted(ix, NamesRead(ix), k(ix), n)
    <3>1. ix.total-1 \in Int /\ ix.total-1 <= MaxFiles-1
      BY <1>2
    <3> QED BY <2>1, <3>1 DEF Deleted
  <2>2. CASE DeleteMeetsHole(ix, k(ix))
    <3>1. PICK h \in k(ix)+1 .. ix.total-1 : body' = Moved(k(ix), h-1)
      BY <2>2 DEF DeleteMeetsHole
    <3>2. h-1 \in Int /\ h-1 <= MaxFiles-1
      BY <1>2, <3>1
    <3> QED BY <3>1, <3>2
  <2>3. CASE DeleteMeetsEnd(ix, k(ix))
    <3>1. PICK h \in Len(ix.names) .. ix.total-1 : body' = Moved(k(ix), h)
      BY <2>3 DEF DeleteMeetsEnd
    <3>2. h \in Int /\ h <= MaxFiles-1
      BY <1>2, <3>1
    <3> QED BY <3>1, <3>2
  <2> QED BY <1>1, <2>1, <2>2, <2>3
<1>5. CASE i # k(ix)
  BY <1>2, <1>4, <1>5, MovedKeeps
<1>6. CASE k(ix) = -1
  <2>1. body' = body
    BY <1>4, <1>6 DEF Moved
  <2> QED BY <2>1
<1> QED BY <1>3, <1>5, <1>6

(***************************************************************************)
(* For every client and every history, a delete, failed or not, loses at   *)
(* most the body in the slot of the deleted name (data.cpp:117-161).       *)
(***************************************************************************)
THEOREM AnyDeleteLosesOneBody == Spec => DeleteLosesOneBody
<1> DEFINE A == \A n \in Name : DeleteFile(n) =>
                   \A i \in Slots \ {GetIndex(NamesRead(index), n)} :
                      body[i] # NoFile =>
                         \E j \in Slots \cap {i, i-1} : body'[j] = body[i]
<1>1. TypeOK /\ [Next]_vars => [A]_vars
  BY DeleteKeepsBodies
<1>2. Spec => [][A]_vars
  BY <1>1, TypeCorrect, PTL DEF Spec
<1> QED
  BY <1>2 DEF DeleteLosesOneBody
-----------------------------------------------------------------------------
(* The names in front of a deleted one *)

\* A missing index is no index at all.
Written == index.exists \/ index = NoIndex

LEMMA WrittenStep == Written /\ [Next]_vars => Written'
BY DEF Written, Next, Request, AddFile, GetFile, ListFiles, DeleteFile, Deleted,
       DeleteMeetsHole, DeleteMeetsEnd, Index, vars

\* A listed name is at its first place among the names of the file, and what
\* a download answers is up to the body in that slot alone.
LEMMA ListedFirst ==
    ASSUME TypeOK, Written, NEW m \in Listed
    PROVE  /\ index.exists
           /\ index.names \in Seq(Name \union {Junk})
           /\ index.total \in Int
           /\ GetIndex(index.names, m) \in 0 .. Len(index.names)-1
           /\ GetIndex(index.names, m) < index.total
           /\ index.names[GetIndex(index.names, m) + 1] = m
           /\ \A j \in 1 .. GetIndex(index.names, m) : index.names[j] # m
           /\ GetIndex(NamesRead(index), m) = GetIndex(index.names, m)
           /\ GetReplies(m) = BodyReplies(GetIndex(index.names, m))
<1> DEFINE S  == Name \union {Junk}
           fs == index.names
           ns == NamesRead(index)
           g  == GetIndex(ns, m)
<1>1. /\ m \in Name /\ m # Junk /\ Hits(ns, m) # {}
      /\ fs \in Seq(S) /\ Len(fs) \in Nat /\ index.total \in Int
  BY FileStoreAssumption DEF Listed, TypeOK, Indices
<1>2. Len(ns) = IF index.total <= 0 THEN 0 ELSE index.total
  BY <1>1, NamesReadType
<1>3. /\ g \in 0 .. Len(ns)-1
      /\ ns[g+1] = m
      /\ \A j \in 1..g : ns[j] # m
  BY <1>1, <1>2, GetIndexFirst
<1> HIDE DEF g
<1>4. /\ index.total > 0 /\ g \in 0 .. index.total-1
  BY <1>1, <1>2, <1>3
<1>5. \A i \in 1..index.total : ns[i] = IF i <= Len(fs) THEN fs[i] ELSE Junk
  <2>1. ns = [i \in 1..index.total |-> IF i <= Len(fs) THEN fs[i] ELSE Junk]
    <3>1. ~ (index.total <= 0)
      BY <1>1, <1>4
    <3> QED BY <3>1, Zenon DEF NamesRead
  <2> HIDE DEF ns
  <2> QED BY <2>1
<1>6. /\ g+1 \in 1..Len(fs)
      /\ fs[g+1] = m
      /\ \A j \in 1 .. (g+1)-1 : fs[j] # m
  <2>1. g+1 \in 1..index.total /\ g+1 <= Len(fs)
    BY <1>1, <1>3, <1>4, <1>5
  <2>2. fs[g+1] = m
    BY <1>3, <1>5, <2>1
  <2>3. \A j \in 1..g : fs[j] # m
    <3> TAKE j \in 1..g
    <3>1. j \in 1..index.total /\ j <= Len(fs)
      BY <1>1, <1>4, <2>1
    <3> QED BY <1>3, <1>5, <3>1
  <2>4. g+1 \in 1..Len(fs) /\ (g+1)-1 = g
    BY <1>1, <1>4, <2>1
  <2> QED BY <2>2, <2>3, <2>4
<1>7. GetIndex(fs, m) = (g+1)-1
  BY <1>1, <1>6, GetIndexIs
<1>8. GetIndex(fs, m) = g
  BY <1>4, <1>7
<1>9. index.exists
  BY <1>1, <1>4 DEF Written, NoIndex
<1>10. Seen = {index}
  BY <1>9 DEF Seen
<1>11. g \in 0 .. Len(fs)-1
  BY <1>1, <1>4, <1>6
<1>12. GetReplies(m) = BodyReplies(g)
  BY <1>10, <1>11 DEF GetReplies, g
<1> QED BY <1>1, <1>4, <1>6, <1>8, <1>9, <1>11, <1>12 DEF g

LEMMA DeleteLeavesEarlier ==
    ASSUME TypeOK, Written, NEW n \in Listed, NEW m \in Listed, DeleteFile(n),
           GetIndex(index.names, m) < GetIndex(index.names, n)
    PROVE  GetReplies(m)' = GetReplies(m)
<1> DEFINE S  == Name \union {Junk}
           fs == index.names
           ns == NamesRead(index)
           k  == GetIndex(fs, n)
           g  == GetIndex(fs, m)
           t  == index.total
<1>1. /\ index.exists /\ fs \in Seq(S) /\ Len(fs) \in Nat /\ t \in Int
      /\ k \in 0 .. Len(fs)-1 /\ k < t /\ GetIndex(ns, n) = k
      /\ g \in 0 .. Len(fs)-1 /\ GetIndex(ns, m) = g
      /\ GetReplies(m) = BodyReplies(g)
  BY ListedFirst
<1>2. g < k
  OBVIOUS
<1>3. /\ ns \in Seq(S) /\ Len(ns) = t
      /\ ns[g+1] = m
      /\ \A j \in 1..g : ns[j] # m
      /\ \A j \in 1..k : ns[j] # n
  <2>1. ns \in Seq(S) /\ Len(ns) = t
    BY <1>1, NamesReadType
  <2>2. Hits(ns, m) # {} /\ Hits(ns, n) # {}
    BY DEF Listed
  <2> HIDE DEF ns, g, k
  <2> QED BY <1>1, <2>1, <2>2, GetIndexFirst
<1>4. Seen = {index}
  BY <1>1 DEF Seen
<1>5. \/ Deleted(index, ns, k, n)
      \/ DeleteMeetsHole(index, k)
      \/ DeleteMeetsEnd(index, k)
  BY <1>1, <1>4 DEF DeleteFile
<1>6. g \in Slots /\ MaxFiles \in Nat /\ t <= MaxFiles
  BY <1>1, <1>2, FileStoreAssumption DEF Slots, TypeOK
<1> HIDE DEF ns, k, g
<1>7. \A j \in Int : Moved(k, j)[g] = body[g]
  <2> TAKE j \in Int
  <2>1. ~ (k <= g /\ g < j) /\ ~ (k < g /\ g = j) /\ g \in Int /\ k \in Int
    BY <1>1, <1>2
  <2>2. Shifted(k, j)[g] = body[g]
    BY <1>6, <2>1, Zenon DEF Shifted
  <2> QED BY <2>2 DEF Moved
<1>10. PICK h : h = g
  OBVIOUS
<1>8. CASE DeleteMeetsHole(index, k) \/ DeleteMeetsEnd(index, k)
  <2>1. index' = index /\ \E j \in Int : body' = Moved(k, j)
    <3>1. CASE DeleteMeetsHole(index, k)
      <4>1. PICK e \in k+1 .. t-1 : body' = Moved(k, e-1) /\ index' = index
        BY <3>1 DEF DeleteMeetsHole
      <4>2. e-1 \in Int
        BY <1>1, <4>1
      <4> QED BY <4>1, <4>2
    <3>2. CASE DeleteMeetsEnd(index, k)
      <4>1. PICK e \in Len(fs) .. t-1 : body' = Moved(k, e) /\ index' = index
        BY <3>2 DEF DeleteMeetsEnd
      <4>2. e \in Int
        BY <1>1, <4>1
      <4> QED BY <4>1, <4>2
    <3> QED BY <1>8, <3>1, <3>2
  <2>2. body'[g] = body[g]
    BY <1>7, <2>1
  <2>3. Seen' = {index}
    BY <1>1, <2>1 DEF Seen
  <2>4. BodyReplies(h)' = BodyReplies(h)
    BY <1>10, <2>2 DEF BodyReplies
  <2>5. GetReplies(m)' = BodyReplies(h)'
    BY <1>1, <1>10, <2>1, <2>3 DEF GetReplies, ns
  <2> QED BY <1>1, <1>10, <2>4, <2>5
<1>9. CASE Deleted(index, ns, k, n)
  <2> DEFINE w == Without(ns, n)
  <2>1. /\ index'.exists /\ index'.total = t-1 /\ index'.names = w
        /\ body' = Moved(k, t-1)
    BY <1>9 DEF Deleted, Index
  <2>2. w \in Seq(S) /\ Len(w) \in Nat
    BY <1>3, WithoutSeq
  <2>3. k <= Len(w) /\ \A j \in 1..k : w[j] = ns[j]
    <3>1. k \in 0..Len(ns)
      BY <1>1, <1>3
    <3> QED BY <1>3, <3>1, WithoutPrefix, Zenon DEF w
  <2> HIDE DEF w
  <2>4. body'[g] = body[g]
    BY <1>1, <1>7, <2>1
  <2> DEFINE r == NamesRead(index')
  <2>5. /\ Len(r) = t-1 /\ Len(r) \in Nat
        /\ \A i \in 1..t-1 : r[i] = IF i <= Len(w) THEN w[i] ELSE Junk
    <3>1. t-1 > 0
      BY <1>1, <1>2
    <3>2. r = [i \in 1..index'.total |-> IF i <= Len(index'.names) THEN index'.names[i] ELSE Junk]
      BY <1>1, <2>1, <3>1 DEF NamesRead
    <3> HIDE DEF r
    <3> QED BY <1>1, <2>1, <3>1, <3>2
  <2> HIDE DEF r
  <2>6. g+1 \in 1..Len(r) /\ r[g+1] = m /\ \A j \in 1..(g+1)-1 : r[j] # m
    <3>1. ASSUME NEW j \in 1..g+1 PROVE r[j] = ns[j]
      <4>1. j \in 1..k /\ j \in 1..t-1 /\ j <= Len(w)
        BY <1>1, <1>2, <2>2, <2>3
      <4> QED BY <2>3, <2>5, <4>1
    <3>2. g+1 \in 1..g+1 /\ g+1 \in 1..Len(r)
      BY <1>1, <1>2, <2>5
    <3>3. \A j \in 1..(g+1)-1 : j \in 1..g /\ j \in 1..g+1
      BY <1>1
    <3> QED BY <1>3, <3>1, <3>2, <3>3
  <2>7. GetIndex(r, m) = g
    <3>1. GetIndex(r, m) = (g+1)-1
      BY <2>5, <2>6, GetIndexIs
    <3> QED BY <1>1, <3>1
  <2>8. Seen' = {index'}
    BY <2>1 DEF Seen
  <2>9. g \in 0 .. Len(index'.names)-1
    BY <1>1, <1>2, <2>1, <2>2, <2>3
  <2>10. GetReplies(m)' = BodyReplies(h)'
    BY <1>10, <2>7, <2>8, <2>9 DEF GetReplies, r
  <2>11. BodyReplies(h)' = BodyReplies(h)
    BY <1>10, <2>4 DEF BodyReplies
  <2> QED BY <1>1, <1>10, <2>10, <2>11
<1> QED BY <1>5, <1>8, <1>9

(***************************************************************************)
(* For every client and every history, a delete of a listed name, failed   *)
(* or not, leaves the download of every name in front of it as it was      *)
(* (data.cpp:117-161).                                                     *)
(***************************************************************************)
THEOREM AnyDeleteSparesEarlier == Spec => DeleteSparesEarlier
<1> DEFINE A == \A n \in Listed, m \in Listed :
                   /\ DeleteFile(n)
                   /\ GetIndex(index.names, m) < GetIndex(index.names, n)
                   => GetReplies(m)' = GetReplies(m)
<1>1. TypeOK /\ Written /\ [Next]_vars => [A]_vars
  BY DeleteLeavesEarlier
<1>2. Init => Written
  BY DEF Init, Written
<1>3. Spec => [][A]_vars
  BY <1>1, <1>2, WrittenStep, TypeCorrect, PTL DEF Spec
<1> QED
  BY <1>3 DEF DeleteSparesEarlier

-----------------------------------------------------------------------------
(***************************************************************************)
(* Part two: the client's key, Aes and KeySetup                            *)
(***************************************************************************)

(* The padding *)

LEMMA PadLengthRange ==
    ASSUME NEW data \in Seq(Nat)
    PROVE  PadLength(data) \in 1 .. BlockSize
<1>1. Len(data) \in Nat
  OBVIOUS
<1>2. Len(data) % BlockSize \in 0 .. BlockSize-1
  BY <1>1, BlockSizeAssumption
<1> QED BY <1>2, BlockSizeAssumption DEF PadLength

(***************************************************************************)
(* decr undoes enc under the same key for every text, the empty one and    *)
(* those of whole blocks included: the last byte of what pad makes is the  *)
(* number of bytes that it has added (aes.py:4-23).                        *)
(***************************************************************************)
THEOREM DecrUndoesEnc ==
    ASSUME NEW key, NEW plain \in Seq(Nat), NEW others
    PROVE  Decr(key, Enc(key, plain), others) = {Returned(plain)}
<1> DEFINE k == PadLength(plain)
           t == [i \in 1 .. k |-> k]
           p == plain \o t
<1>1. k \in 1 .. BlockSize /\ k \in Nat /\ BlockSize \in Nat
  BY PadLengthRange, BlockSizeAssumption
<1> HIDE DEF k
<1>2. t \in Seq(Nat) /\ Len(t) = k
  BY <1>1
<1>3. /\ p \in Seq(Nat)
      /\ Len(p) = Len(plain) + k
      /\ \A i \in 1 .. Len(p) : p[i] = IF i <= Len(plain) THEN plain[i]
                                       ELSE t[i - Len(plain)]
  <2> HIDE DEF t
  <2> QED BY <1>2, ConcatProperties
<1>4. Len(plain) \in Nat
  OBVIOUS
<1>5. p[Len(p)] = k
  <2>1. t[k] = k /\ (Len(plain) + k) - Len(plain) = k
    BY <1>1, <1>4
  <2>2. Len(p) \in 1 .. Len(p) /\ ~ (Len(p) <= Len(plain))
    BY <1>1, <1>3, <1>4
  <2> HIDE DEF t, p
  <2> QED BY <1>3, <2>1, <2>2
<1> HIDE DEF t, p
<1>6. SubSeq(p, 1, Len(plain)) = plain
  <2> DEFINE s == SubSeq(p, 1, Len(plain))
  <2>1. /\ s \in Seq(Nat)
        /\ Len(s) = Len(plain)
        /\ \A i \in 1 .. Len(plain) : s[i] = p[i]
    BY <1>1, <1>3, <1>4
  <2>2. \A i \in 1 .. Len(plain) : s[i] = plain[i]
    BY <1>1, <1>3, <1>4, <2>1
  <2> HIDE DEF s
  <2> QED BY <2>1, <2>2, SeqEqual
<1>7. Unpad(p) = Returned(plain)
  <2>1. p # <<>>
    BY <1>1, <1>3, <1>4
  <2>2. Len(p) - k = Len(plain) /\ ~ (k > BlockSize) /\ k # 0
    BY <1>1, <1>3, <1>4
  <2> QED BY <1>5, <1>6, <2>1, <2>2 DEF Unpad
<1> QED BY <1>7 DEF Decr, Enc, Pad, p, t, k

-----------------------------------------------------------------------------
(* The key *)

LEMMA EncInjective ==
    ASSUME NEW k, NEW l, Enc(k, KeyText) = Enc(l, KeyText)
    PROVE  k = l
BY DEF Enc

LEMMA KeyFileIsSet ==
    ASSUME NEW k \in Keys
    PROVE  /\ Enc(k, KeyText) \in KeyFiles
           /\ Enc(k, KeyText) # Missing
           /\ Enc(k, KeyText) # Blank
<1>1. Enc(k, KeyText) \in KeyFiles
  BY DEF KeyFiles
<1> QED BY <1>1, KeyAssumption

(***************************************************************************)
(* What the key file is at each place of start, and that all data is under *)
(* its key.                                                                *)
(***************************************************************************)
KeyInv ==
    /\ KeyTypeOK
    /\ main = "set up" => keyFile = Missing
    /\ main = "check" => keyFile # Missing
    /\ main = "write" => keyFile = Blank /\ typed \in Keys
    /\ main = "serving" => serverKey \in Keys /\ keyFile = Enc(serverKey, KeyText)
    /\ \A k \in written : keyFile = Enc(k, KeyText)

\* Without a key file there is no data.
LEMMA NoDataYet ==
    ASSUME KeyInv, keyFile = Missing \/ keyFile = Blank
    PROVE  written = {}
BY KeyFileIsSet DEF KeyInv, KeyTypeOK

\* Only the password of the key file passes.
LEMMA PassedKey ==
    ASSUME KeyInv, NEW p \in Password, main = "check",
           Returned(KeyText) \in Decrypted(Secret(p))
    PROVE  keyFile = Enc(Secret(p), KeyText)
<1>1. keyFile # Blank
  <2>1. Raised # Returned(KeyText)
    BY DEF Raised, Returned
  <2> QED BY <2>1, KeyAssumption DEF Decrypted
<1>2. PICK k \in Keys : keyFile = Enc(k, KeyText)
  BY <1>1 DEF KeyInv, KeyTypeOK, KeyFiles
<1>3. Returned(KeyText) \in Decr(Secret(p), keyFile, Others)
  BY <1>1 DEF Decrypted
<1>4. keyFile.key = k
  BY <1>2 DEF Enc
<1>5. Secret(p) = k
  BY <1>3, <1>4, KeyAssumption DEF Decr
<1> QED BY <1>2, <1>5

\* The password of the key file passes.
LEMMA RightKeyPasses ==
    ASSUME KeyInv, NEW p \in Password, keyFile = Enc(Secret(p), KeyText)
    PROVE  Decrypted(Secret(p)) = {Returned(KeyText)}
<1>1. Secret(p) \in Keys
  BY DEF Keys
<1>2. keyFile # Blank
  BY <1>1, KeyFileIsSet
<1> QED BY <1>2, DecrUndoesEnc, KeyAssumption DEF Decrypted

LEMMA KeyInvInit == KeyInit => KeyInv
BY DEF KeyInit, KeyInv, KeyTypeOK

LEMMA KeyInvStep == KeyInv /\ [KeyNext]_keyVars => KeyInv'
<1> SUFFICES ASSUME KeyInv, [KeyNext]_keyVars PROVE KeyInv'
  OBVIOUS
<1>1. CASE Start
  BY <1>1 DEF Start, KeyInv, KeyTypeOK
<1>2. ASSUME NEW p \in Password, SetUp(p) PROVE KeyInv'
  <2>1. Secret(p) \in Keys
    BY DEF Keys
  <2>2. written = {}
    BY <1>2, NoDataYet DEF SetUp, KeyInv
  <2> QED BY <1>2, <2>1, <2>2 DEF SetUp, KeyInv, KeyTypeOK
<1>3. CASE WriteKey
  <2>1. typed \in Keys /\ keyFile = Blank
    BY <1>3 DEF WriteKey, KeyInv
  <2>2. written = {}
    BY <2>1, NoDataYet
  <2>3. Enc(typed, KeyText) \in KeyFiles
    BY <2>1, KeyFileIsSet
  <2> QED BY <1>3, <2>1, <2>2, <2>3 DEF WriteKey, KeyInv, KeyTypeOK
<1>4. ASSUME NEW p \in Password, Check(p) PROVE KeyInv'
  <2>1. PICK d \in Decrypted(Secret(p)) :
            IF d = Returned(KeyText)
            THEN main' = "serving" /\ serverKey' = Secret(p)
            ELSE main' = "down" /\ serverKey' = NoKey
    BY <1>4 DEF Check
  <2>2. Secret(p) \in Keys
    BY DEF Keys
  <2>3. CASE d = Returned(KeyText)
    <3>1. keyFile = Enc(Secret(p), KeyText)
      BY <1>4, <2>1, <2>3, PassedKey DEF Check
    <3> QED BY <1>4, <2>1, <2>2, <2>3, <3>1 DEF Check, KeyInv, KeyTypeOK
  <2>4. CASE d # Returned(KeyText)
    BY <1>4, <2>1, <2>4 DEF Check, KeyInv, KeyTypeOK
  <2> QED BY <2>3, <2>4
<1>5. CASE Store
  BY <1>5 DEF Store, KeyInv, KeyTypeOK
<1>6. CASE End
  BY <1>6 DEF End, KeyInv, KeyTypeOK
<1>7. CASE UNCHANGED keyVars
  BY <1>7 DEF keyVars, KeyInv, KeyTypeOK
<1> QED BY <1>1, <1>2, <1>3, <1>4, <1>5, <1>6, <1>7 DEF KeyNext, StartUp

LEMMA KeyInvOneKey == KeyInv => OneKey
BY EncInjective DEF KeyInv, OneKey

LEMMA NeverRefused ==
    ASSUME KeyInv, NEW p \in Password, Refuses(p)
    PROVE  Secret(p) \notin written
<1>1. ASSUME Secret(p) \in written PROVE FALSE
  <2>1. keyFile = Enc(Secret(p), KeyText)
    BY <1>1 DEF KeyInv
  <2>2. Decrypted(Secret(p)) = {Returned(KeyText)}
    BY <2>1, RightKeyPasses
  <2>3. main' = "serving"
    BY <2>2 DEF Refuses, Check
  <2> QED BY <2>3 DEF Refuses
<1> QED BY <1>1

LEMMA OpensStep ==
    KeyInv => [\A p \in Password : Refuses(p) => Secret(p) \notin written]_keyVars
BY NeverRefused

LEMMA KeyInvAlways == KeySpec => []KeyInv
BY KeyInvInit, KeyInvStep, PTL DEF KeySpec

(***************************************************************************)
(* Through every sequence of starts, passwords, crashes and ends, all data *)
(* is encrypted under one key (server.cpp:66-71, data.cpp:163-186).        *)
(***************************************************************************)
THEOREM DataHasOneKey == KeySpec => []OneKey
BY KeyInvAlways, KeyInvOneKey, PTL

(***************************************************************************)
(* And no start refuses the password of that key, wherever an earlier      *)
(* process has ended (data.cpp:163-180).                                   *)
(***************************************************************************)
THEOREM PasswordAlwaysOpens == KeySpec => PasswordOpensData
BY KeyInvAlways, OpensStep, PTL DEF PasswordOpensData
-----------------------------------------------------------------------------
(***************************************************************************)
(* Part three: the system, EndToEnd                                        *)
(***************************************************************************)

(* One handler *)

\* What the client takes its files to be has the type of a view.
LEMMA ViewType ==
    ASSUME TypeOK, Paired
    PROVE  View \in Views
<1>1. index.names \in Seq(Name)
  BY PairedReads
<1>2. ASSUME NEW n \in Name
      PROVE  (IF n \in Listed THEN body[GetIndex(index.names, n)] ELSE NoFile)
                \in Stored
  <2>1. CASE n \in Listed
    BY <2>1, ListedSlot DEF Stored
  <2>2. CASE n \notin Listed
    BY <2>2 DEF Stored
  <2> QED BY <2>1, <2>2
<1>3. VaultFiles \in [Name -> Stored]
  BY <1>2 DEF VaultFiles
<1> QED BY <1>1, <1>3 DEF View, Views

LEMMA ViewAfterType ==
    ASSUME NEW v \in Views, NEW r \in Requests
    PROVE  ViewAfter(v, r) \in Views
<1>1. v.names \in Seq(Name) /\ v.files \in [Name -> Stored]
  BY DEF Views
<1>2. ASSUME NEW n \in Name, NEW c \in Content, r = Upload(n, c)
      PROVE  ViewAfter(v, r) \in Views
  <2>1. r.op = "upload" /\ r.name = n /\ r.content = c
    BY <1>2 DEF Upload
  <2>2. Append(v.names, n) \in Seq(Name)
    BY <1>1
  <2>3. [v.files EXCEPT ![n] = c] \in [Name -> Stored]
    BY <1>1 DEF Stored
  <2> QED BY <2>1, <2>2, <2>3 DEF ViewAfter, Views
<1>3. ASSUME NEW n \in Name, r = Delete(n)
      PROVE  ViewAfter(v, r) \in Views
  <2>1. r.op = "delete" /\ r.name = n
    BY <1>3 DEF Delete
  <2>2. Without(v.names, n) \in Seq(Name)
    BY <1>1, WithoutSeq
  <2>3. [v.files EXCEPT ![n] = NoFile] \in [Name -> Stored]
    BY <1>1 DEF Stored
  <2> QED BY <2>1, <2>2, <2>3 DEF ViewAfter, Views
<1>4. CASE r = SeeList \/ \E n \in Name : r = Download(n)
  BY <1>4 DEF ViewAfter, SeeList, Download
<1> QED BY <1>2, <1>3, <1>4 DEF Requests

\* Of the store's own names, the client's discipline is the store's.
LEMMA SensibleIsCareful ==
    ASSUME TypeOK, Paired, NEW n \in Name
    PROVE  /\ View.files[n] # NoFile => OnList(n)
           /\ View.files[n] # NoFile /\ KnownCleanFrom(View, n) => Careful(n)
<1>1. VaultFiles[n] # NoFile => n \in Listed
  BY DEF VaultFiles
<1>2. NamesRead(index) = index.names
  BY PairedReads
<1>3. KnownCleanFrom(View, n) => CleanFrom(n)
  BY <1>2 DEF KnownCleanFrom, CleanFrom, View
<1> QED BY <1>1, <1>3 DEF OnList, Careful, View

(***************************************************************************)
(* A handler takes the store from the view before a request to the one     *)
(* after it and answers what the client expects.                           *)
(***************************************************************************)
LEMMA UploadHandled ==
    ASSUME TypeOK, Paired, NEW n \in Name, NEW c \in Content, AddFile(n, c)
    PROVE  /\ TypeOK' /\ Paired'
           /\ View' = ViewAfter(View, Upload(n, c))
           /\ reply' = NoReply
<1>1. TypeOK' /\ Paired'
  BY TypeAddFile, PairedAddFile
<1>2. index'.names = Append(index.names, n) /\ reply' = NoReply
  BY CarefulAdd DEF Index
<1>3. VaultFiles' = [VaultFiles EXCEPT ![n] = c]
  BY <1>1, VaultUpload DEF Vault!Upload
<1>4. /\ Upload(n, c).op = "upload"
      /\ Upload(n, c).name = n
      /\ Upload(n, c).content = c
  BY DEF Upload
<1> QED BY <1>1, <1>2, <1>3, <1>4 DEF View, ViewAfter

LEMMA DownloadHandled ==
    ASSUME TypeOK, Paired, NEW n \in Name, OnList(n), GetFile(n)
    PROVE  /\ TypeOK' /\ Paired'
           /\ View' = View
           /\ reply' = FileReply(View.files[n])
<1>1. UNCHANGED <<index, body>>
  BY DEF GetFile
<1>2. TypeOK' /\ Paired'
  BY <1>1, TypeGetFile DEF Paired, FirstSlot
<1>3. VaultReply' = Vault!FileReply(VaultFiles[n])
  BY VaultDownload DEF OnList, Vault!Download
<1>4. reply' = FileReply(VaultFiles[n])
  <2>1. VaultReply'.kind = "file"
    BY <1>3 DEF Vault!FileReply
  <2>2. reply'.kind # "list"
    BY <2>1 DEF VaultReply, ListReply
  <2> QED BY <1>3, <2>2 DEF VaultReply, FileReply, Vault!FileReply
<1>5. View' = View
  BY <1>1 DEF View, VaultFiles, Listed, NamesRead
<1> QED BY <1>2, <1>4, <1>5 DEF View

LEMMA ListHandled ==
    ASSUME TypeOK, Paired, ListFiles
    PROVE  /\ TypeOK' /\ Paired'
           /\ View' = View
           /\ reply' = ListReply(View.names)
<1>1. UNCHANGED <<index, body>>
  BY DEF ListFiles
<1>2. TypeOK' /\ Paired'
  BY <1>1, TypeListFiles DEF Paired, FirstSlot
<1>3. index.names \in Seq(Name) /\ NamesRead(index) = index.names
  BY PairedReads
<1>4. Hits(index.names, Junk) = {}
  BY <1>3, FileStoreAssumption DEF Hits
<1>5. reply' = ListReply(index.names)
  BY <1>3, <1>4 DEF ListFiles, ListReplies
<1>6. View' = View
  BY <1>1 DEF View, VaultFiles, Listed, NamesRead
<1> QED BY <1>2, <1>5, <1>6 DEF View

LEMMA DeleteHandled ==
    ASSUME TypeOK, Paired, NEW n \in Name, Careful(n), DeleteFile(n)
    PROVE  /\ TypeOK' /\ Paired'
           /\ View' = ViewAfter(View, Delete(n))
           /\ reply' = NoReply
<1>1. TypeOK' /\ Paired'
  BY TypeDeleteFile, PairedDeleteFile
<1>2. reply' = NoReply
  BY CarefulDelete
<1>3. NamesRead(index) = index.names /\ Seen = {index}
  BY PairedReads, ListedSlot DEF Careful
<1>4. ~ Throw
  BY <1>2 DEF Throw, NoReply, Closed
<1>5. index' = Index(index.total - 1, Without(index.names, n))
  BY <1>3, <1>4 DEF DeleteFile, Deleted, DeleteMeetsHole, DeleteMeetsEnd
<1>6. VaultFiles' = [VaultFiles EXCEPT ![n] = NoFile]
  BY <1>1, VaultDelete DEF Vault!Delete
<1>7. Delete(n).op = "delete" /\ Delete(n).name = n
  BY DEF Delete
<1> QED BY <1>1, <1>2, <1>5, <1>6, <1>7 DEF View, ViewAfter, Index

LEMMA Handled ==
    ASSUME TypeOK, Paired, NEW r \in Requests, Sensible(View, r), Solve(r)
    PROVE  /\ TypeOK' /\ Paired'
           /\ View' = ViewAfter(View, r)
           /\ reply' = Expected(View, r)
<1> USE DEF Upload, Download, Delete, SeeList
<1>1. ASSUME NEW n \in Name, NEW c \in Content, r = Upload(n, c)
      PROVE  /\ TypeOK' /\ Paired'
             /\ View' = ViewAfter(View, r)
             /\ reply' = Expected(View, r)
  <2>1. AddFile(n, c)
    BY <1>1 DEF Solve
  <2>2. Expected(View, r) = NoReply
    BY <1>1 DEF Expected
  <2> QED BY <1>1, <2>1, <2>2, UploadHandled
<1>2. ASSUME NEW n \in Name, r = Download(n)
      PROVE  /\ TypeOK' /\ Paired'
             /\ View' = ViewAfter(View, r)
             /\ reply' = Expected(View, r)
  <2>1. GetFile(n) /\ View.files[n] # NoFile
    BY <1>2 DEF Solve, Sensible
  <2>2. Expected(View, r) = FileReply(View.files[n]) /\ ViewAfter(View, r) = View
    BY <1>2 DEF Expected, ViewAfter
  <2> QED BY <2>1, <2>2, SensibleIsCareful, DownloadHandled
<1>3. ASSUME NEW n \in Name, r = Delete(n)
      PROVE  /\ TypeOK' /\ Paired'
             /\ View' = ViewAfter(View, r)
             /\ reply' = Expected(View, r)
  <2>1. DeleteFile(n) /\ View.files[n] # NoFile /\ KnownCleanFrom(View, n)
    BY <1>3 DEF Solve, Sensible
  <2>2. Expected(View, r) = NoReply
    BY <1>3 DEF Expected
  <2> QED BY <1>3, <2>1, <2>2, SensibleIsCareful, DeleteHandled
<1>4. CASE r = SeeList
  <2>1. ListFiles
    BY <1>4 DEF Solve
  <2>2. Expected(View, r) = ListReply(View.names) /\ ViewAfter(View, r) = View
    BY <1>4 DEF Expected, ViewAfter
  <2> QED BY <2>1, <2>2, ListHandled
<1> QED BY <1>1, <1>2, <1>3, <1>4 DEF Requests

-----------------------------------------------------------------------------
(* The key, in the composition *)

LEMMA E2EKey == [E2ENext]_allVars => [KeyNext]_keyVars
<1> SUFFICES ASSUME [E2ENext]_allVars PROVE [KeyNext]_keyVars
  OBVIOUS
<1>1. CASE Connect
  BY <1>1 DEF Connect
<1>2. ASSUME NEW r \in Requests, Send(r) PROVE [KeyNext]_keyVars
  BY <1>2 DEF Send
<1>3. CASE Receive
  BY <1>3 DEF Receive
<1>4. CASE Leave
  BY <1>4 DEF Leave
<1>5. CASE Handle
  BY <1>5 DEF Handle, Solve, KeyNext
<1>6. CASE EndConnection
  BY <1>6 DEF EndConnection
<1>7. CASE StartServer
  BY <1>7 DEF StartServer, KeyNext
<1>8. CASE EndServer
  BY <1>8 DEF EndServer, KeyNext
<1>9. CASE UNCHANGED allVars
  BY <1>9 DEF allVars
<1> QED BY <1>1, <1>2, <1>3, <1>4, <1>5, <1>6, <1>7, <1>8, <1>9 DEF E2ENext

(***************************************************************************)
(* The composition behaves as KeySetup does towards the key, and so has    *)
(* one key for all data: that a name has one cipher text, which FileStore  *)
(* takes for granted, is true of it (data.cpp:193-243).                    *)
(***************************************************************************)
THEOREM ComposedKey == E2ESpec => []OneKey /\ PasswordOpensData
<1>1. E2EInit => KeyInit
  BY DEF E2EInit
<1>2. E2ESpec => KeySpec
  BY <1>1, E2EKey, PTL DEF E2ESpec, KeySpec
<1> QED BY <1>2, DataHasOneKey, PasswordAlwaysOpens

-----------------------------------------------------------------------------
(* The client and its answers *)

(***************************************************************************)
(* The request that is waited for is the last in the queue or answered.    *)
(***************************************************************************)
AwaitInv ==
    /\ conn # "open" => down = <<>> /\ asked = NoRequest
    /\ conn = "none" => up = <<>>
    /\ conn = "open" => \A i \in 1 .. Len(up) :
                           Awaited(up[i]) => i = Len(up) /\ asked = up[i]
    /\ down # <<>> => up = <<>> /\ asked # NoRequest

E2EInv == E2ETypeOK /\ Paired /\ KeyInv /\ ViewsAgree /\ AwaitInv /\ AnswerAsExpected

LEMMA EmptyLens ==
    /\ \A S : <<>> \in Seq(S)
    /\ Len(<<>>) = 0
    /\ \A x : Len(<<x>>) = 1
OBVIOUS

LEMMA E2EInvInit == E2EInit => E2EInv
<1> SUFFICES ASSUME E2EInit PROVE E2EInv
  OBVIOUS
<1>1. TypeOK /\ Paired /\ KeyInv
  BY TypeInit, PairedInit, KeyInvInit DEF E2EInit
<1>2. up = <<>> /\ down = <<>> /\ views = <<>> /\ asked = NoRequest /\ conn = "none"
  BY DEF E2EInit
<1>3. E2ETypeOK
  <2>1. /\ up \in Seq(Requests) /\ views \in Seq(Views)
        /\ Len(up) <= MaxQueue /\ Len(down) <= 1
    BY <1>2, EmptyLens, EndToEndAssumption
  <2> QED BY <1>1, <1>2, <2>1 DEF E2ETypeOK, KeyInv
<1>4. ViewsAgree /\ AwaitInv
  BY <1>2 DEF ViewsAgree, AwaitInv
<1>5. AnswerAsExpected
  BY <1>2 DEF AnswerAsExpected, E2EInit, Init, NoReply, Closed
<1> QED BY <1>1, <1>3, <1>4, <1>5 DEF E2EInv

\* What all steps that leave the store alone keep.
LEMMA StoreKept ==
    ASSUME TypeOK, Paired, UNCHANGED store
    PROVE  TypeOK' /\ Paired' /\ View' = View
BY DEF store, TypeOK, IsListReply, Paired, FirstSlot, View, VaultFiles, Listed, NamesRead

LEMMA ConnectKeeps ==
    ASSUME E2EInv, Connect PROVE E2EInv'
<1>1. TypeOK' /\ Paired' /\ View' = View
  BY StoreKept DEF E2EInv, E2ETypeOK, Connect
<1>2. KeyInv'
  BY KeyInvStep DEF E2EInv, Connect
<1>3. View \in Views
  BY ViewType DEF E2EInv, E2ETypeOK
<1>4. /\ up = <<>> /\ up' = <<>> /\ down = <<>> /\ down' = <<>>
      /\ asked' = NoRequest /\ conn' = "open" /\ views' = <<View>>
      /\ main' = "serving" /\ reply' = reply
  BY DEF E2EInv, AwaitInv, Connect, store, keyVars
<1>5. views' \in Seq(Views) /\ Len(views') = 1 /\ views'[1] = View
  BY <1>3, <1>4
<1>6. up' \in Seq(Requests) /\ Len(up') = 0 /\ Len(down') = 0
  BY <1>4, EmptySeq
<1>7. E2ETypeOK'
  BY <1>1, <1>2, <1>4, <1>5, <1>6, EndToEndAssumption DEF E2ETypeOK, KeyInv
<1>8. ViewsAgree'
  BY <1>1, <1>5, <1>6 DEF ViewsAgree
<1>9. AwaitInv' /\ AnswerAsExpected'
  BY <1>4, <1>6 DEF AwaitInv, AnswerAsExpected, E2EInv
<1> QED BY <1>1, <1>2, <1>7, <1>8, <1>9 DEF E2EInv

LEMMA SendKeeps ==
    ASSUME E2EInv, NEW r \in Requests, Send(r) PROVE E2EInv'
<1> DEFINE n == Len(up)
           v == views[Len(views)]
<1>1. TypeOK' /\ Paired' /\ View' = View
  BY StoreKept DEF E2EInv, E2ETypeOK, Send
<1>2. KeyInv'
  BY KeyInvStep DEF E2EInv, Send
<1>3. /\ up \in Seq(Requests) /\ n \in Nat /\ n < MaxQueue
      /\ views \in Seq(Views) /\ Len(views) = n + 1
      /\ views[1] = View
      /\ v \in Views
  <2>1. /\ up \in Seq(Requests) /\ n \in Nat /\ n < MaxQueue
        /\ views \in Seq(Views) /\ Len(views) = n + 1
        /\ views[1] = View
    BY DEF E2EInv, E2ETypeOK, ViewsAgree, Send
  <2>2. Len(views) \in 1 .. Len(views)
    BY <2>1
  <2> QED BY <2>1, <2>2
<1>4. /\ up' = Append(up, r) /\ views' = Append(views, ViewAfter(v, r))
      /\ Sensible(v, r)
      /\ conn = "open" /\ conn' = "open" /\ main' = main
      /\ asked = NoRequest /\ asked' = (IF Awaited(r) THEN r ELSE NoRequest)
      /\ down' = down /\ reply' = reply
  BY DEF Send, Queued, store, keyVars
<1>5. down = <<>>
  BY <1>4 DEF E2EInv, AwaitInv
<1>6. ViewAfter(v, r) \in Views
  BY <1>3, ViewAfterType
<1> HIDE DEF v
<1>7. /\ up' \in Seq(Requests) /\ Len(up') = n + 1
      /\ up'[n+1] = r /\ \A i \in 1 .. n : up'[i] = up[i]
  BY <1>3, <1>4
<1>8. /\ views' \in Seq(Views) /\ Len(views') = n + 2
      /\ views'[n+2] = ViewAfter(v, r) /\ \A i \in 1 .. n+1 : views'[i] = views[i]
  BY <1>3, <1>4, <1>6
<1>9. E2ETypeOK'
  <2>1. Len(up') <= MaxQueue
    BY <1>3, <1>7, EndToEndAssumption
  <2>2. main' = "serving"
    BY <1>4 DEF E2EInv, E2ETypeOK
  <2>3. asked' \in Requests \union {NoRequest}
    BY <1>4
  <2>4. Len(down') <= 1
    BY <1>4 DEF E2EInv, E2ETypeOK
  <2> QED BY <1>1, <1>2, <1>4, <1>7, <1>8, <2>1, <2>2, <2>3, <2>4
          DEF E2ETypeOK, KeyInv
<1>10. ViewsAgree'
  <2>1. Len(views') = Len(up') + 1 /\ views'[1] = View'
    BY <1>1, <1>3, <1>7, <1>8
  <2>2. ASSUME NEW i \in 1 .. n
        PROVE  Sensible(views'[i], up'[i]) /\ views'[i+1] = ViewAfter(views'[i], up'[i])
    <3>1. Sensible(views[i], up[i]) /\ views[i+1] = ViewAfter(views[i], up[i])
      BY <1>4 DEF E2EInv, ViewsAgree
    <3>2. i \in 1 .. n+1 /\ i+1 \in 1 .. n+1
      BY <1>3
    <3> QED BY <1>7, <1>8, <3>1, <3>2
  <2>3. Sensible(views'[n+1], up'[n+1])
        /\ views'[(n+1)+1] = ViewAfter(views'[n+1], up'[n+1])
    <3>1. views'[n+1] = v
      BY <1>3, <1>8 DEF v
    <3>2. (n+1)+1 = n+2
      BY <1>3
    <3> QED BY <1>4, <1>7, <1>8, <3>1, <3>2
  <2>4. ASSUME NEW i \in 1 .. Len(up')
        PROVE  Sensible(views'[i], up'[i]) /\ views'[i+1] = ViewAfter(views'[i], up'[i])
    <3>1. i \in 1 .. n \/ i = n+1
      BY <1>3, <1>7
    <3> QED BY <2>2, <2>3, <3>1
  <2> QED BY <2>1, <2>4 DEF ViewsAgree
<1>11. AwaitInv'
  <2>1. ASSUME NEW i \in 1 .. n PROVE ~ Awaited(up[i])
    <3>1. Awaited(up[i]) => asked = up[i]
      BY <1>4 DEF E2EInv, AwaitInv
    <3>2. ~ Awaited(NoRequest)
      BY DEF Awaited, NoRequest
    <3> QED BY <1>4, <3>1, <3>2
  <2>2. ASSUME NEW i \in 1 .. Len(up'), Awaited(up'[i])
        PROVE  i = Len(up') /\ asked' = up'[i]
    <3>1. i \in 1 .. n \/ i = n+1
      BY <1>3, <1>7
    <3> QED BY <1>4, <1>7, <2>1, <2>2, <3>1
  <2> QED BY <1>4, <1>5, <2>2 DEF AwaitInv
<1>12. AnswerAsExpected'
  BY <1>4, <1>5 DEF AnswerAsExpected, E2EInv
<1> QED BY <1>1, <1>2, <1>9, <1>10, <1>11, <1>12 DEF E2EInv

LEMMA ReceiveKeeps ==
    ASSUME E2EInv, Receive PROVE E2EInv'
<1>1. TypeOK' /\ Paired' /\ View' = View
  BY StoreKept DEF E2EInv, E2ETypeOK, Receive
<1>2. KeyInv'
  BY KeyInvStep DEF E2EInv, Receive
<1>3. /\ up' = up /\ up = <<>> /\ views' = views /\ conn' = conn /\ conn = "open"
      /\ asked' = NoRequest /\ main' = main /\ reply' = reply
  BY DEF E2EInv, AwaitInv, Receive, store, keyVars
<1>4. down' = <<>>
  <2>1. down = <<Expected(views[Len(views)], asked)>>
    BY DEF E2EInv, AnswerAsExpected, Receive
  <2> QED BY <2>1 DEF Receive
<1>5. E2ETypeOK'
  <2>1. Len(down') <= 1
    BY <1>4
  <2> QED BY <1>1, <1>2, <1>3, <2>1 DEF E2ETypeOK, E2EInv, KeyInv
<1>6. ViewsAgree'
  BY <1>1, <1>3 DEF ViewsAgree, E2EInv
<1>7. AwaitInv' /\ AnswerAsExpected'
  BY <1>3, <1>4 DEF AwaitInv, AnswerAsExpected, E2EInv
<1> QED BY <1>1, <1>2, <1>5, <1>6, <1>7 DEF E2EInv

LEMMA LeaveKeeps ==
    ASSUME E2EInv, Leave PROVE E2EInv'
<1>1. TypeOK' /\ Paired' /\ View' = View
  BY StoreKept DEF E2EInv, E2ETypeOK, Leave
<1>2. KeyInv'
  BY KeyInvStep DEF E2EInv, Leave
<1>3. /\ up' = up /\ views' = views /\ conn' = "left" /\ conn = "open"
      /\ down' = <<>> /\ asked' = NoRequest /\ main' = main /\ reply' = reply
  BY DEF Leave, store, keyVars
<1>4. E2ETypeOK'
  BY <1>1, <1>2, <1>3 DEF E2ETypeOK, E2EInv, KeyInv
<1>5. ViewsAgree'
  BY <1>1, <1>3 DEF ViewsAgree, E2EInv
<1>6. AwaitInv' /\ AnswerAsExpected'
  BY <1>3 DEF AwaitInv, AnswerAsExpected, E2EInv
<1> QED BY <1>1, <1>2, <1>4, <1>5, <1>6 DEF E2EInv

\* Steps that end the connection, or happen while there is none.
LEMMA GoneKeeps ==
    ASSUME E2EInv, Gone, UNCHANGED store, KeyInv' PROVE E2EInv'
<1>1. TypeOK' /\ Paired' /\ View' = View
  BY StoreKept DEF E2EInv, E2ETypeOK
<1>2. /\ up' = <<>> /\ views' = <<>> /\ conn' = "none" /\ down' = <<>>
      /\ asked' = NoRequest /\ reply' = reply
  BY DEF Gone, store
<1>3. E2ETypeOK'
  <2>1. /\ up' \in Seq(Requests) /\ views' \in Seq(Views)
        /\ Len(up') <= MaxQueue /\ Len(down') <= 1
    BY <1>2, EmptyLens, EndToEndAssumption
  <2> QED BY <1>1, <1>2, <2>1 DEF E2ETypeOK, KeyInv
<1>4. ViewsAgree' /\ AwaitInv' /\ AnswerAsExpected'
  BY <1>2 DEF ViewsAgree, AwaitInv, AnswerAsExpected, E2EInv
<1> QED BY <1>1, <1>3, <1>4 DEF E2EInv

LEMMA StartKeeps ==
    ASSUME E2EInv, StartServer PROVE E2EInv'
<1>1. TypeOK' /\ Paired' /\ View' = View
  BY StoreKept DEF E2EInv, E2ETypeOK, StartServer
<1>2. KeyInv'
  BY KeyInvStep DEF E2EInv, StartServer, KeyNext
<1>3. conn = "none"
  BY DEF E2EInv, E2ETypeOK, StartServer, StartUp, Start, SetUp, WriteKey, Check
<1>4. UNCHANGED session /\ reply' = reply
  BY DEF StartServer, store
<1>5. E2ETypeOK'
  BY <1>1, <1>2, <1>3, <1>4 DEF E2ETypeOK, E2EInv, KeyInv, session
<1>6. ViewsAgree' /\ AwaitInv' /\ AnswerAsExpected'
  BY <1>3, <1>4 DEF ViewsAgree, AwaitInv, AnswerAsExpected, E2EInv, session
<1> QED BY <1>1, <1>2, <1>5, <1>6 DEF E2EInv

LEMMA HandleKeeps ==
    ASSUME E2EInv, Handle PROVE E2EInv'
<1> DEFINE n == Len(up)
           r == up[1]
<1>1. /\ up \in Seq(Requests) /\ n \in Nat /\ n >= 1 /\ up # <<>>
      /\ Head(up) = r /\ r \in Requests
  BY DEF E2EInv, E2ETypeOK, Handle
<1>2. conn \in {"open", "left"}
  BY <1>1 DEF E2EInv, E2ETypeOK, AwaitInv
<1>3. /\ views \in Seq(Views) /\ Len(views) = n + 1 /\ views[1] = View
      /\ \A i \in 1 .. n : /\ Sensible(views[i], up[i])
                           /\ views[i+1] = ViewAfter(views[i], up[i])
  BY <1>2 DEF E2EInv, E2ETypeOK, ViewsAgree
<1>4. Sensible(View, r) /\ views[2] = ViewAfter(View, r)
  <2>1. 1 \in 1 .. n /\ 1+1 = 2
    BY <1>1
  <2> QED BY <1>3, <2>1
<1>5. Solve(r)
  BY <1>1 DEF Handle
<1>6. /\ TypeOK' /\ Paired'
      /\ View' = views[2]
      /\ reply' = Expected(View, r)
  BY <1>1, <1>4, <1>5, Handled DEF E2EInv, E2ETypeOK
<1>7. reply' # Closed
  BY <1>6 DEF Expected, FileReply, ListReply, NoReply, Closed
<1>8. KeyInv' /\ main' = "serving"
  BY <1>5, KeyInvStep DEF E2EInv, Handle, Solve, Store, KeyNext, keyVars
<1>9. /\ up' = Tail(up) /\ views' = Tail(views) /\ conn' = conn /\ asked' = asked
      /\ down' = (IF reply' = NoReply \/ conn = "left" THEN down ELSE Append(down, reply'))
  BY <1>7 DEF Handle
<1>10. down = <<>>
  BY <1>1 DEF E2EInv, AwaitInv
<1> HIDE DEF r
<1>11. /\ up' \in Seq(Requests) /\ Len(up') = n - 1
       /\ \A i \in 1 .. n-1 : up'[i] = up[i+1]
  BY <1>1, <1>9
<1>12. /\ views' \in Seq(Views) /\ Len(views') = n
       /\ \A i \in 1 .. n : views'[i] = views[i+1]
  BY <1>1, <1>3, <1>9
<1>13. down' = <<>> \/ down' = <<reply'>>
  BY <1>9, <1>10
<1>14. E2ETypeOK'
  <2>1. Len(up') <= MaxQueue
    BY <1>1, <1>11, EndToEndAssumption DEF E2EInv, E2ETypeOK
  <2>2. Len(down') <= 1
    <3>1. Len(<<reply'>>) = 1 /\ Len(<<>>) = 0
      BY EmptyLens
    <3>2. CASE down' = <<>>
      BY <3>1, <3>2
    <3>3. CASE down' = <<reply'>>
      BY <3>1, <3>3
    <3> QED BY <1>13, <3>2, <3>3
  <2> QED BY <1>2, <1>6, <1>8, <1>9, <1>11, <1>12, <2>1, <2>2
          DEF E2ETypeOK, E2EInv, KeyInv
<1>15. ViewsAgree'
  <2>1. Len(views') = Len(up') + 1 /\ views'[1] = View'
    BY <1>1, <1>6, <1>11, <1>12
  <2>2. ASSUME NEW i \in 1 .. Len(up')
        PROVE  Sensible(views'[i], up'[i]) /\ views'[i+1] = ViewAfter(views'[i], up'[i])
    <3>1. i \in 1 .. n-1 /\ i \in 1 .. n /\ i+1 \in 1 .. n
      BY <1>1, <1>11
    <3>2. /\ Sensible(views[i+1], up[i+1])
          /\ views[(i+1)+1] = ViewAfter(views[i+1], up[i+1])
      BY <1>3, <3>1
    <3> QED BY <1>11, <1>12, <3>1, <3>2
  <2> QED BY <2>1, <2>2 DEF ViewsAgree
<1>16. CASE Awaited(r) /\ conn = "open"
  <2>1. n = 1 /\ asked = r
    <3>1. 1 \in 1 .. n
      BY <1>1
    <3> QED BY <1>16, <3>1 DEF E2EInv, AwaitInv, r
  <2>2. up' = <<>>
    BY <1>11, <2>1, EmptySeq
  <2>3. reply' # NoReply
    BY <1>6, <1>16 DEF Expected, Awaited, FileReply, ListReply, NoReply
  <2>4. down' = <<reply'>>
    BY <1>9, <1>10, <1>16, <2>3
  <2>5. views'[Len(views')] = View
    <3>1. views'[Len(views')] = views[2]
      BY <1>12, <2>1
    <3>2. ViewAfter(View, r) = View
      BY <1>16 DEF ViewAfter, Awaited
    <3> QED BY <1>4, <3>1, <3>2
  <2>6. asked' # NoRequest
    BY <1>9, <1>16, <2>1 DEF Awaited, NoRequest
  <2>7. AnswerAsExpected'
    BY <1>6, <1>7, <1>9, <1>16, <2>1, <2>4, <2>5, <2>6 DEF AnswerAsExpected
  <2>8. AwaitInv'
    BY <1>9, <1>16, <2>2, <2>6 DEF AwaitInv
  <2> QED BY <1>6, <1>8, <1>14, <1>15, <2>7, <2>8 DEF E2EInv
<1>17. CASE ~ (Awaited(r) /\ conn = "open")
  <2>1. down' = <<>>
    <3>1. CASE conn = "left"
      BY <1>9, <1>10, <3>1
    <3>2. CASE conn = "open"
      <4>1. reply' = NoReply
        BY <1>6, <1>17, <3>2 DEF Expected, Awaited
      <4> QED BY <1>9, <1>10, <4>1
    <3> QED BY <1>2, <3>1, <3>2
  <2>2. AnswerAsExpected'
    BY <1>7, <2>1 DEF AnswerAsExpected
  <2>3. ASSUME NEW i \in 1 .. Len(up'), Awaited(up'[i]), conn = "open"
        PROVE  i = Len(up') /\ asked' = up'[i]
    <3>1. i \in 1 .. n-1 /\ i+1 \in 1 .. n
      BY <1>1, <1>11
    <3>2. i+1 = n /\ asked = up[i+1]
      BY <1>11, <2>3, <3>1 DEF E2EInv, AwaitInv
    <3>3. i = Len(up')
      BY <1>1, <1>11, <3>1, <3>2
    <3>4. up'[i] = up[i+1]
      BY <1>11, <3>1
    <3> QED BY <1>9, <3>2, <3>3, <3>4
  <2>4. AwaitInv'
    <3>1. conn' # "none"
      BY <1>2, <1>9
    <3>2. conn' # "open" => asked' = NoRequest
      BY <1>9 DEF E2EInv, AwaitInv
    <3> QED BY <1>9, <2>1, <2>3, <3>1, <3>2 DEF AwaitInv
  <2> QED BY <1>6, <1>8, <1>14, <1>15, <2>2, <2>4 DEF E2EInv
<1> QED BY <1>16, <1>17

LEMMA E2EInvStep == E2EInv /\ [E2ENext]_allVars => E2EInv'
<1> SUFFICES ASSUME E2EInv, [E2ENext]_allVars PROVE E2EInv'
  OBVIOUS
<1>1. CASE EndConnection
  <2>1. KeyInv'
    BY <1>1, KeyInvStep DEF E2EInv, EndConnection
  <2> QED BY <1>1, <2>1, GoneKeeps DEF EndConnection
<1>2. CASE EndServer
  <2>1. KeyInv'
    BY <1>2, KeyInvStep DEF E2EInv, EndServer, KeyNext
  <2> QED BY <1>2, <2>1, GoneKeeps DEF EndServer
<1>3. CASE UNCHANGED allVars
  <2>1. UNCHANGED store /\ UNCHANGED keyVars /\ UNCHANGED session
    BY <1>3 DEF allVars
  <2>2. TypeOK' /\ Paired' /\ View' = View
    BY <2>1, StoreKept DEF E2EInv, E2ETypeOK
  <2>3. KeyInv'
    BY <2>1, KeyInvStep DEF E2EInv
  <2>4. E2ETypeOK'
    BY <2>1, <2>2, <2>3 DEF E2ETypeOK, E2EInv, KeyInv, session, keyVars
  <2>5. ViewsAgree' /\ AwaitInv' /\ AnswerAsExpected'
    BY <2>1, <2>2 DEF ViewsAgree, AwaitInv, AnswerAsExpected, E2EInv, session, store
  <2> QED BY <2>2, <2>3, <2>4, <2>5 DEF E2EInv
<1> QED BY <1>1, <1>2, <1>3, ConnectKeeps, SendKeeps, ReceiveKeeps, LeaveKeeps,
           HandleKeeps, StartKeeps DEF E2ENext

LEMMA E2EInvAlways == E2ESpec => []E2EInv
BY E2EInvInit, E2EInvStep, PTL DEF E2ESpec

(***************************************************************************)
(* Read your writes, for any number of names, files and queued requests:   *)
(* the answer that the client takes is the one its earlier requests make   *)
(* it expect, and no request of a careful client is refused by a throw     *)
(* (client.cpp:268-330, data.cpp:193-243).                                 *)
(***************************************************************************)
THEOREM ReadYourWrites == E2ESpec => []AnswerAsExpected
BY E2EInvAlways, PTL DEF E2EInv

(***************************************************************************)
(* The handlers take the store through the client's views, so that the     *)
(* discipline of CarefulNext can be kept by memory alone.                  *)
(***************************************************************************)
THEOREM ViewsAlwaysAgree == E2ESpec => []ViewsAgree
BY E2EInvAlways, PTL DEF E2EInv

(***************************************************************************)
(* And the composition is type correct.                                    *)
(***************************************************************************)
THEOREM E2ETypeCorrect == E2ESpec => []E2ETypeOK
BY E2EInvAlways, PTL DEF E2EInv

\* Every step is one of the store under a careful client, or none of its own.
LEMMA E2EIsCareful == E2EInv /\ [E2ENext]_allVars => [CarefulNext]_vars
<1> SUFFICES ASSUME E2EInv, [E2ENext]_allVars PROVE [CarefulNext]_vars
  OBVIOUS
<1>1. CASE Handle
  <2> DEFINE r == up[1]
  <2>1. up \in Seq(Requests) /\ Len(up) \in Nat /\ Len(up) >= 1 /\ Head(up) = r /\ r \in Requests
    BY <1>1 DEF E2EInv, E2ETypeOK, Handle
  <2>2. conn # "none" /\ 1 \in 1 .. Len(up)
    BY <1>1, <2>1 DEF E2EInv, AwaitInv, Handle
  <2>3. Sensible(View, r)
    BY <2>2 DEF E2EInv, ViewsAgree
  <2>4. Solve(r)
    BY <1>1, <2>1 DEF Handle
  <2> HIDE DEF r
  <2> USE DEF Upload, Download, Delete, SeeList
  <2>5. ASSUME NEW n \in Name, NEW c \in Content, r = Upload(n, c)
        PROVE  AddFile(n, c)
    BY <2>4, <2>5 DEF Solve
  <2>6. ASSUME NEW n \in Name, r = Download(n) PROVE OnList(n) /\ GetFile(n)
    <3>1. GetFile(n) /\ View.files[n] # NoFile
      BY <2>3, <2>4, <2>6 DEF Solve, Sensible
    <3> QED BY <3>1, SensibleIsCareful DEF E2EInv, E2ETypeOK
  <2>7. ASSUME NEW n \in Name, r = Delete(n) PROVE Careful(n) /\ DeleteFile(n)
    <3>1. DeleteFile(n) /\ View.files[n] # NoFile /\ KnownCleanFrom(View, n)
      BY <2>3, <2>4, <2>7 DEF Solve, Sensible
    <3> QED BY <3>1, SensibleIsCareful DEF E2EInv, E2ETypeOK
  <2>8. CASE r = SeeList
    BY <2>4, <2>8 DEF Solve, CarefulNext, Request
  <2> QED BY <2>1, <2>5, <2>6, <2>7, <2>8 DEF CarefulNext, Request, Requests
<1>2. CASE ~ Handle
  <2>1. UNCHANGED store
    BY <1>2 DEF E2ENext, Connect, Send, Receive, Leave, EndConnection, EndServer,
                StartServer, allVars
  <2> QED BY <2>1 DEF store, vars
<1> QED BY <1>1, <1>2

(***************************************************************************)
(* The whole system implements the store under a careful client, and so    *)
(* the vault of UserFiles: queued requests, unanswered uploads, ends and   *)
(* starts of the server do not show in it (client.cpp:268-330,             *)
(* server.cpp:63-77, data.cpp:67-243).                                     *)
(***************************************************************************)
THEOREM E2EKeepsVault == E2ESpec => KeepsVault /\ []Paired
<1>1. E2EInit => Init
  BY DEF E2EInit
<1>2. E2ESpec => CarefulSpec
  BY <1>1, E2EInvAlways, E2EIsCareful, PTL DEF E2ESpec, CarefulSpec
<1> QED BY <1>2, CarefulVault, CarefulPairing
=============================================================================
