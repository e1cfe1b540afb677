------------------------ MODULE FileStoreStepsProofs ------------------------
(***************************************************************************)
(* Proofs about FileStoreSteps, for every set of names and contents, every *)
(* outcome of the uninitialized reads and every bound: the types for any   *)
(* sessions; the atomicity of handlers that run alone and what survives    *)
(* the end of the process; and what a reader sees of an upload.            *)
(***************************************************************************)
EXTENDS FileStoreHistory, FileIndexProofs

-----------------------------------------------------------------------------
(* Types: at each place, what the handler carries there. *)

IndexNames == Seq(Name \union {Junk})

\* The indices that are read and written, and those found on disk.
Indices(T) == [exists : BOOLEAN, total : T, names : IndexNames]
Counted    == Indices(MinTotal .. MaxFiles)
Deletable  == Indices(MinTotal+1 .. MaxFiles)
Found      == Counted \union {BlankIndex}

Bodies == Content \union {NoFile, Blank}

Rewriting == {"truncate_index", "write_index"}
Uploading == {"open_body", "write_body"}
Moving    == {"open_target", "write_target", "remove_source"}

AddJobs    == [at : Rewriting, op : {"add"}, n : Name, c : Content, ix : Counted]
DropJobs   == [at : Rewriting, op : {"delete"}, k : Slots, ix : Counted]
LookupJobs == [at : {"lookup"}, n : Name, c : Content]
UploadJobs == [at : Uploading, n : Name, slot : Slots, c : Content]
ReadJobs   == [at : {"read_body"}, n : Name, slot : Slots]
LoopJobs   == {j \in [at : {"next"}, n : Name, ix : Deletable, k : Slots, i : Int] :
                  j.i < j.ix.total => j.i >= 1}
MoveJobs   == [at : Moving, n : Name, ix : Deletable, k : Slots,
               i : 1 .. MaxFiles-1, buf : Content \union {Blank}]

Jobs == {Idle} \union AddJobs \union DropJobs \union LookupJobs \union UploadJobs
          \union ReadJobs \union LoopJobs \union MoveJobs

TypeInv ==
    /\ index \in Found
    /\ body \in [Slots -> Bodies]
    /\ job \in [Session -> Jobs]

\* The place of a handler tells what it carries.
LEMMA JobAt ==
    ASSUME TypeInv, NEW s \in Session
    PROVE  /\ job[s].at \in Rewriting => job[s] \in AddJobs \union DropJobs
           /\ At(s, "lookup") => job[s] \in LookupJobs
           /\ job[s].at \in Uploading => job[s] \in UploadJobs
           /\ At(s, "read_body") => job[s] \in ReadJobs
           /\ At(s, "next") => job[s] \in LoopJobs
           /\ job[s].at \in Moving => job[s] \in MoveJobs
           /\ job[s].at \in Places
<1> DEFINE j == job[s]
<1>1. j \in Jobs
  BY DEF TypeInv
<1> HIDE DEF j
<1>2. CASE j = Idle
  BY <1>2 DEF Idle, Rewriting, Uploading, Moving, Places, At, j
<1>3. CASE j \in AddJobs \union DropJobs
  <2>1. j.at \in Rewriting
    BY <1>3 DEF AddJobs, DropJobs
  <2> QED BY <1>3, <2>1 DEF Rewriting, Uploading, Moving, Places, At, j
<1>4. CASE j \in LookupJobs
  <2>1. j.at = "lookup"
    BY <1>4 DEF LookupJobs
  <2> QED BY <1>4, <2>1 DEF Rewriting, Uploading, Moving, Places, At, j
<1>5. CASE j \in UploadJobs
  <2>1. j.at \in Uploading
    BY <1>5 DEF UploadJobs
  <2> QED BY <1>5, <2>1 DEF Rewriting, Uploading, Moving, Places, At, j
<1>6. CASE j \in ReadJobs
  <2>1. j.at = "read_body"
    BY <1>6 DEF ReadJobs
  <2> QED BY <1>6, <2>1 DEF Rewriting, Uploading, Moving, Places, At, j
<1>7. CASE j \in LoopJobs
  <2>1. j.at = "next"
    BY <1>7 DEF LoopJobs
  <2> QED BY <1>7, <2>1 DEF Rewriting, Uploading, Moving, Places, At, j
<1>8. CASE j \in MoveJobs
  <2>1. j.at \in Moving
    BY <1>8 DEF MoveJobs
  <2> QED BY <1>8, <2>1 DEF Rewriting, Uploading, Moving, Places, At, j
<1> QED BY <1>1, <1>2, <1>3, <1>4, <1>5, <1>6, <1>7, <1>8 DEF Jobs

\* A change of one job keeps the types of the others.
LEMMA GoTypes ==
    ASSUME TypeInv, NEW s \in Session, NEW j \in Jobs,
           job' = [job EXCEPT ![s] = j]
    PROVE  job' \in [Session -> Jobs]
BY DEF TypeInv

LEMMA FinishTypes ==
    ASSUME TypeInv, NEW s \in Session, NEW r, Finish(s, r)
    PROVE  job' \in [Session -> Jobs]
<1>1. Idle \in Jobs
  BY DEF Jobs
<1> QED BY <1>1, GoTypes DEF Finish

\* What an index that is read may be.
LEMMA ReadTypes ==
    ASSUME NEW x \in Found,
           NEW ix \in (IF x.exists /\ x # BlankIndex
                       THEN {x} ELSE {Index(g, <<>>) : g \in JunkTotals})
                        \union {NoIndex}
    PROVE  ix \in Counted
<1>1. <<>> \in IndexNames
  BY DEF IndexNames
<1>2. CASE ix = NoIndex
  BY <1>1, <1>2, StepsAssumption DEF NoIndex, Counted, Indices
<1>3. CASE ix = x /\ x # BlankIndex
  BY <1>3 DEF Found
<1>4. ASSUME NEW g \in JunkTotals, ix = Index(g, <<>>) PROVE ix \in Counted
  BY <1>1, <1>4, StepsAssumption DEF Index, Counted, Indices
<1> QED BY <1>2, <1>3, <1>4

\* The names read, and the slot of a name among them.
LEMMA SlotTypes ==
    ASSUME NEW ix \in Counted, NEW n
    PROVE  /\ NamesRead(ix) \in IndexNames
           /\ Len(NamesRead(ix)) = IF ix.total <= 0 THEN 0 ELSE ix.total
           /\ Len(NamesRead(ix)) \in Nat
           /\ Slot(ix, n) \in Slots
           /\ Slot(ix, n) \in -1 .. Len(NamesRead(ix))-1
           /\ Slot(ix, n) # -1 => /\ NamesRead(ix)[Slot(ix, n) + 1] = n
                                  /\ Slot(ix, n) < ix.total
<1> DEFINE ns == NamesRead(ix)
<1>1. /\ ix.total \in MinTotal .. MaxFiles
      /\ ix.total \in Int
      /\ ix.names \in IndexNames
      /\ MaxFiles \in Nat
  BY StepsAssumption DEF Counted, Indices
<1>2. /\ ns \in IndexNames
      /\ Len(ns) = IF ix.total <= 0 THEN 0 ELSE ix.total
      /\ Len(ns) \in Nat
  BY <1>1, NamesReadType DEF IndexNames
<1> HIDE DEF ns
<1>3. CASE Hits(ns, n) = {}
  <2>1. GetIndex(ns, n) = -1
    BY <1>3, GetIndexNone
  <2> QED BY <1>1, <1>2, <2>1 DEF Slot, Slots, Atomic!Slots, ns
<1>4. CASE Hits(ns, n) # {}
  <2>1. GetIndex(ns, n) \in 0 .. Len(ns)-1 /\ ns[GetIndex(ns, n) + 1] = n
    BY <1>2, <1>4, GetIndexFirst
  <2> QED BY <1>1, <1>2, <2>1 DEF Slot, Slots, Atomic!Slots, ns
<1> QED BY <1>3, <1>4

\* The index that add_file writes.
LEMMA IndexWithTypes ==
    ASSUME NEW ix \in Counted, ix.total < MaxFiles, NEW n \in Name
    PROVE  /\ IndexWith(ix, n) \in Counted
           /\ IndexWith(ix, n).exists
<1>1. ix.total \in MinTotal .. MaxFiles /\ ix.total \in Int /\ MinTotal \in Int
  BY StepsAssumption DEF Counted, Indices
<1>2. NamesRead(ix) \in IndexNames /\ n \in Name \union {Junk}
  BY SlotTypes
<1>3. Append(NamesRead(ix), n) \in IndexNames /\ <<>> \in IndexNames
  BY <1>2 DEF IndexNames
<1>4. ix.total + 1 \in MinTotal .. MaxFiles
  BY <1>1, StepsAssumption
<1> QED BY <1>3, <1>4 DEF IndexWith, Index, Counted, Indices

\* The bytes of a closed stream over the file.
LEMMA OverlayTypes ==
    ASSUME NEW old \in Found, NEW new \in Counted
    PROVE  /\ Overlay(old, new) \in Counted
           /\ Overlay(old, new).exists = new.exists
           /\ Overlay(old, new).total = new.total
<1>1. old.names \in IndexNames /\ new.names \in IndexNames
  <2>1. BlankIndex.names = <<>> /\ <<>> \in IndexNames
    BY DEF BlankIndex, IndexNames
  <2> QED BY <2>1 DEF Found, Counted, Indices
<1> DEFINE t == SubSeq(old.names, Len(new.names)+1, Len(old.names))
<1>2. t \in IndexNames
  BY <1>1 DEF IndexNames
<1>3. new.names \o t \in IndexNames
  BY <1>1, <1>2 DEF IndexNames
<1> HIDE DEF t
<1> QED BY <1>3 DEF Overlay, Counted, Indices, t

-----------------------------------------------------------------------------
(* Each operation keeps the types. *)

LEMMA TypeStartAdd ==
    ASSUME TypeInv, NEW s \in Session, NEW n \in Name, NEW c \in Content,
           StartAdd(s, n, c)
    PROVE  TypeInv'
<1>1. index' \in Found
  BY DEF StartAdd, TypeInv, Found
<1>2. PICK ix \in IF index.exists THEN Read ELSE {NoIndex} :
            /\ ix.total < MaxFiles
            /\ \/ Go(s, [at |-> "truncate_index", op |-> "add", n |-> n, c |-> c,
                         ix |-> IndexWith(ix, n)])
               \/ ReadFails(ix) /\ Throw(s)
  BY Zenon DEF StartAdd
<1>3. ix \in Counted
  BY ReadTypes DEF Read, TypeInv
<1>4. [at |-> "truncate_index", op |-> "add", n |-> n, c |-> c,
       ix |-> IndexWith(ix, n)] \in Jobs
  <2>1. IndexWith(ix, n) \in Counted
    BY <1>2, <1>3, IndexWithTypes
  <2> QED BY <2>1 DEF Jobs, AddJobs, Rewriting
<1>5. job' \in [Session -> Jobs]
  BY <1>2, <1>4, GoTypes, FinishTypes DEF Go, Throw
<1> QED BY <1>1, <1>5 DEF TypeInv, StartAdd

LEMMA TypeAddLookup ==
    ASSUME TypeInv, NEW s \in Session, AddLookup(s)
    PROVE  TypeInv'
<1>1. PICK ix \in Read :
          \/ Go(s, [at |-> "open_body", n |-> job[s].n,
                    slot |-> Slot(ix, job[s].n), c |-> job[s].c])
          \/ LookupFails(ix, job[s].n) /\ Throw(s)
  BY Zenon DEF AddLookup
<1>2. ix \in Counted
  BY ReadTypes DEF Read, TypeInv
<1>3. job[s] \in LookupJobs
  BY JobAt DEF AddLookup
<1>4. [at |-> "open_body", n |-> job[s].n,
       slot |-> Slot(ix, job[s].n), c |-> job[s].c] \in Jobs
  BY <1>2, <1>3, SlotTypes DEF Jobs, LookupJobs, UploadJobs, Uploading
<1>5. job' \in [Session -> Jobs]
  BY <1>1, <1>4, GoTypes, FinishTypes DEF Go, Throw
<1> QED BY <1>5 DEF TypeInv, AddLookup

LEMMA TypeUpload ==
    ASSUME TypeInv, NEW s \in Session, OpenBody(s) \/ WriteBody(s)
    PROVE  TypeInv'
<1>1. job[s] \in UploadJobs
  BY JobAt DEF OpenBody, WriteBody, At, Uploading
<1>2. CASE OpenBody(s)
  <2>1. body' \in [Slots -> Bodies]
    BY <1>2 DEF OpenBody, TypeInv, Bodies
  <2>2. [job[s] EXCEPT !.at = "write_body"] \in Jobs
    BY <1>1 DEF Jobs, UploadJobs, Uploading
  <2>3. job' \in [Session -> Jobs]
    BY <1>2, <2>2, GoTypes DEF OpenBody, Go
  <2> QED BY <1>2, <2>1, <2>3 DEF OpenBody, TypeInv
<1>3. CASE WriteBody(s)
  <2>1. body' \in [Slots -> Bodies]
    BY <1>1, <1>3 DEF WriteBody, TypeInv, Bodies, UploadJobs
  <2>2. job' \in [Session -> Jobs]
    BY <1>3, FinishTypes DEF WriteBody
  <2> QED BY <1>3, <2>1, <2>2 DEF WriteBody, TypeInv
<1> QED BY <1>2, <1>3

LEMMA TypeRewrite ==
    ASSUME TypeInv, NEW s \in Session, TruncateIndex(s) \/ WriteIndex(s)
    PROVE  TypeInv'
<1>1. job[s] \in AddJobs \union DropJobs
  BY JobAt DEF TruncateIndex, WriteIndex, At, Rewriting
<1>2. job[s].ix \in Counted
  BY <1>1 DEF AddJobs, DropJobs
<1>3. CASE TruncateIndex(s)
  <2>1. [job[s] EXCEPT !.at = "write_index"] \in Jobs
    <3>1. CASE job[s] \in AddJobs
      BY <3>1 DEF Jobs, AddJobs, Rewriting
    <3>2. CASE job[s] \in DropJobs
      BY <3>2 DEF Jobs, DropJobs, Rewriting
    <3> QED BY <1>1, <3>1, <3>2
  <2>2. job' \in [Session -> Jobs]
    BY <1>3, <2>1, GoTypes DEF TruncateIndex, Go
  <2> QED BY <1>3, <2>2 DEF TruncateIndex, TypeInv, Found
<1>4. CASE WriteIndex(s)
  <2>1. index' \in Found
    BY <1>2, <1>4, OverlayTypes DEF WriteIndex, TypeInv, Found
  <2>2. CASE job[s].op = "add"
    <3>1. job[s] \in AddJobs
      BY <1>1, <2>2 DEF DropJobs
    <3>2. [at |-> "lookup", n |-> job[s].n, c |-> job[s].c] \in Jobs
      BY <3>1 DEF AddJobs, LookupJobs, Jobs
    <3>3. job' \in [Session -> Jobs]
      BY <1>4, <2>2, <3>2, GoTypes DEF WriteIndex, Go
    <3> QED BY <1>4, <2>1, <3>3 DEF WriteIndex, TypeInv
  <2>3. CASE job[s].op # "add"
    <3>1. job' \in [Session -> Jobs]
      BY <1>4, <2>3, FinishTypes DEF WriteIndex
    <3> QED BY <1>4, <2>1, <3>1 DEF WriteIndex, TypeInv
  <2> QED BY <2>2, <2>3
<1> QED BY <1>3, <1>4

LEMMA TypeRead ==
    ASSUME TypeInv, NEW s \in Session,
           (\E n \in Name : StartGet(s, n)) \/ ReadBody(s) \/ List(s)
    PROVE  TypeInv'
<1>1. ASSUME NEW n \in Name, StartGet(s, n) PROVE TypeInv'
  <2>1. PICK ix \in Read :
            \/ Go(s, [at |-> "read_body", n |-> n, slot |-> Slot(ix, n)])
            \/ LookupFails(ix, n) /\ Throw(s)
    BY <1>1, Zenon DEF StartGet
  <2>2. ix \in Counted
    BY ReadTypes DEF Read, TypeInv
  <2>3. [at |-> "read_body", n |-> n, slot |-> Slot(ix, n)] \in Jobs
    BY <2>2, SlotTypes DEF Jobs, ReadJobs
  <2>4. job' \in [Session -> Jobs]
    BY <2>1, <2>3, GoTypes, FinishTypes DEF Go, Throw
  <2> QED BY <1>1, <2>4 DEF TypeInv, StartGet
<1>2. CASE ReadBody(s)
  <2>1. \E r : Finish(s, r)
    BY <1>2 DEF ReadBody
  <2> QED BY <1>2, <2>1, FinishTypes DEF TypeInv, ReadBody
<1>3. CASE List(s)
  <2>1. \E r : Finish(s, r)
    BY <1>3 DEF List, Throw
  <2> QED BY <1>3, <2>1, FinishTypes DEF TypeInv, List
<1> QED BY <1>1, <1>2, <1>3

LEMMA TypeStartDelete ==
    ASSUME TypeInv, NEW s \in Session, NEW n \in Name, StartDelete(s, n)
    PROVE  TypeInv'
<1>1. PICK ix \in Read :
          /\ ix.total > MinTotal
          /\ \/ Go(s, [at |-> "next", n |-> n, ix |-> ix, k |-> Slot(ix, n),
                       i |-> IF Slot(ix, n) = -1 THEN ix.total ELSE Slot(ix, n) + 1])
             \/ Slot(ix, n) = -1 /\ ReadFails(ix) /\ Throw(s)
  BY Zenon DEF StartDelete
<1>2. ix \in Counted /\ ix.total \in Int
  BY ReadTypes DEF Read, TypeInv, Counted, Indices
<1>3. ix \in Deletable
  BY <1>1, <1>2, StepsAssumption DEF Counted, Deletable, Indices
<1> DEFINE k == Slot(ix, n)
           i == IF k = -1 THEN ix.total ELSE k + 1
<1>4. k \in Slots /\ k \in Int /\ k >= -1
  BY <1>2, SlotTypes, StepsAssumption DEF Slots, Atomic!Slots
<1> HIDE DEF k
<1>5. i \in Int /\ (i < ix.total => i >= 1)
  BY <1>2, <1>4
<1> HIDE DEF i
<1>6. [at |-> "next", n |-> n, ix |-> ix, k |-> k, i |-> i] \in LoopJobs
  BY <1>3, <1>4, <1>5 DEF LoopJobs
<1>7. job' \in [Session -> Jobs]
  BY <1>1, <1>6, GoTypes, FinishTypes DEF Go, Throw, Jobs, k, i
<1> QED BY <1>7 DEF TypeInv, StartDelete

LEMMA TypeLoop ==
    ASSUME TypeInv, NEW s \in Session, ReadSource(s) \/ EndLoop(s)
    PROVE  TypeInv'
<1> DEFINE j == job[s]
<1>1. j \in LoopJobs
  BY JobAt DEF ReadSource, EndLoop
<1>2. /\ j.n \in Name /\ j.ix \in Deletable /\ j.k \in Slots /\ j.i \in Int
      /\ j.i < j.ix.total => j.i >= 1
      /\ j.ix.total \in MinTotal+1 .. MaxFiles
      /\ j.ix.names \in IndexNames
      /\ MinTotal \in Int /\ MaxFiles \in Nat
  BY <1>1, StepsAssumption DEF LoopJobs, Deletable, Indices
<1> HIDE DEF j
<1>3. CASE ReadSource(s)
  <2>1. j.i \in 1 .. MaxFiles-1
    BY <1>2, <1>3 DEF ReadSource, j
  <2> DEFINE found == body[j.i]
  <2>2. found \in Bodies
    BY <2>1 DEF TypeInv, Slots, Atomic!Slots
  <2>3. CASE found = NoFile
    BY <1>3, <2>3, FinishTypes DEF ReadSource, Throw, TypeInv, j
  <2>4. CASE found # NoFile
    <3> DEFINE m == [at |-> "open_target", n |-> j.n, ix |-> j.ix,
                     k |-> j.k, i |-> j.i, buf |-> found]
    <3>1. found \in Content \union {Blank}
      BY <2>2, <2>4 DEF Bodies
    <3> HIDE DEF found
    <3>2. m \in MoveJobs
      BY <1>2, <2>1, <3>1 DEF MoveJobs, Moving
    <3>3. job' \in [Session -> Jobs]
      BY <1>3, <2>4, <3>2, GoTypes DEF ReadSource, Go, Jobs, found, j
    <3> QED BY <1>3, <3>3 DEF ReadSource, TypeInv
  <2> QED BY <2>3, <2>4
<1>4. CASE EndLoop(s)
  <2> DEFINE w == Without(NamesRead(j.ix), j.n)
             m == [at |-> "truncate_index", op |-> "delete", k |-> j.k,
                   ix |-> Index(j.ix.total - 1, w)]
  <2>1. NamesRead(j.ix) \in IndexNames
    BY <1>2, NamesReadType DEF IndexNames
  <2>2. w \in IndexNames
    BY <2>1, WithoutSeq DEF IndexNames
  <2> HIDE DEF w
  <2>3. j.ix.total - 1 \in MinTotal .. MaxFiles
    BY <1>2
  <2>4. m \in DropJobs
    BY <1>2, <2>2, <2>3 DEF DropJobs, Rewriting, Index, Counted, Indices
  <2>5. job' \in [Session -> Jobs]
    BY <1>4, <2>4, GoTypes DEF EndLoop, Go, Jobs, w, j
  <2> QED BY <1>4, <2>5 DEF EndLoop, TypeInv
<1> QED BY <1>3, <1>4

LEMMA TypeMove ==
    ASSUME TypeInv, NEW s \in Session,
           OpenTarget(s) \/ WriteTarget(s) \/ RemoveSource(s)
    PROVE  TypeInv'
<1> DEFINE j == job[s]
<1>1. j \in MoveJobs
  BY JobAt DEF OpenTarget, WriteTarget, RemoveSource, At, Moving
<1>2. j.n \in Name /\ j.ix \in Deletable /\ j.k \in Slots
      /\ j.i \in 1 .. MaxFiles-1 /\ j.buf \in Content \union {Blank}
  BY <1>1 DEF MoveJobs
<1>3. /\ [j EXCEPT !.at = "write_target"] \in Jobs
      /\ [j EXCEPT !.at = "remove_source"] \in Jobs
  BY <1>1 DEF MoveJobs, Moving, Jobs
<1> HIDE DEF j
<1>4. CASE OpenTarget(s)
  <2>1. body' \in [Slots -> Bodies]
    BY <1>4 DEF OpenTarget, TypeInv, Bodies
  <2>2. job' \in [Session -> Jobs]
    BY <1>3, <1>4, GoTypes DEF OpenTarget, Go, j
  <2> QED BY <1>4, <2>1, <2>2 DEF OpenTarget, TypeInv
<1>5. CASE WriteTarget(s)
  <2>1. body' \in [Slots -> Bodies]
    BY <1>2, <1>5 DEF WriteTarget, TypeInv, Bodies, j
  <2>2. job' \in [Session -> Jobs]
    BY <1>3, <1>5, GoTypes DEF WriteTarget, Go, j
  <2> QED BY <1>5, <2>1, <2>2 DEF WriteTarget, TypeInv
<1>6. CASE RemoveSource(s)
  <2>1. body' \in [Slots -> Bodies]
    BY <1>6 DEF RemoveSource, TypeInv, Bodies
  <2> DEFINE m == [at |-> "next", n |-> j.n, ix |-> j.ix, k |-> j.k, i |-> j.i + 1]
  <2>2. j.i + 1 \in Int /\ j.i + 1 >= 1
    BY <1>2, StepsAssumption
  <2>3. m \in LoopJobs
    BY <1>2, <2>2 DEF LoopJobs
  <2>4. m \in Jobs
    BY <2>3 DEF Jobs
  <2> HIDE DEF m
  <2>5. job' \in [Session -> Jobs]
    BY <1>6, <2>4, GoTypes, FinishTypes DEF RemoveSource, Go, Throw, m, j
  <2> QED BY <1>6, <2>1, <2>5 DEF RemoveSource, TypeInv
<1> QED BY <1>4, <1>5, <1>6

LEMMA TypeCrash ==
    ASSUME TypeInv, Crash
    PROVE  TypeInv'
BY DEF TypeInv, Crash, Jobs

LEMMA StepsTypeInit == Init => TypeInv
<1>1. NoIndex \in Found
  <2>1. <<>> \in IndexNames
    BY DEF IndexNames
  <2> QED BY <2>1, StepsAssumption DEF NoIndex, Found, Counted, Indices
<1> QED BY <1>1 DEF Init, TypeInv, Bodies, Jobs

LEMMA StepsTypeStep == TypeInv /\ [Next]_vars => TypeInv'
<1> SUFFICES ASSUME TypeInv, [Next]_vars PROVE TypeInv'
  OBVIOUS
<1>1. ASSUME NEW s \in Session, Start(s) PROVE TypeInv'
  BY <1>1, TypeStartAdd, TypeRead, TypeStartDelete DEF Start
<1>2. ASSUME NEW s \in Session, Continue(s) PROVE TypeInv'
  BY <1>2, TypeAddLookup, TypeUpload, TypeRewrite, TypeRead, TypeLoop, TypeMove
     DEF Continue
<1>3. CASE UNCHANGED vars
  BY <1>3 DEF vars, TypeInv
<1> QED BY <1>1, <1>2, <1>3, TypeCrash DEF Next

LEMMA TypeInvTypes == TypeInv => StepsTypeOK
<1> SUFFICES ASSUME TypeInv PROVE StepsTypeOK
  OBVIOUS
<1>1. index.total \in MinTotal-1 .. MaxFiles /\ index.names \in IndexNames
  <2>1. CASE index = BlankIndex
    <3>1. <<>> \in IndexNames
      BY DEF IndexNames
    <3> QED BY <2>1, <3>1, StepsAssumption DEF BlankIndex
  <2>2. CASE index \in Counted
    BY <2>2, StepsAssumption DEF Counted, Indices
  <2> QED BY <2>1, <2>2 DEF TypeInv, Found
<1>2. ASSUME NEW s \in Session
      PROVE  /\ job[s].at \in Places
             /\ job[s].at \in {"open_body", "write_body", "read_body"}
                   => job[s].slot \in Slots
             /\ job[s].at \in {"open_target", "write_target", "remove_source"}
                   => {job[s].i, job[s].i - 1} \subseteq 0 .. MaxFiles-1
  <2>1. job[s].at \in Places
    BY JobAt
  <2>2. job[s].at \in Uploading => job[s].slot \in Slots
    BY JobAt DEF UploadJobs
  <2>3. At(s, "read_body") => job[s].slot \in Slots
    BY JobAt DEF ReadJobs
  <2>4. job[s].at \in Moving => job[s].i \in 1 .. MaxFiles-1
    BY JobAt DEF MoveJobs
  <2>5. job[s].i \in 1 .. MaxFiles-1
           => {job[s].i, job[s].i - 1} \subseteq 0 .. MaxFiles-1
    BY StepsAssumption
  <2> QED BY <2>1, <2>2, <2>3, <2>4, <2>5 DEF Uploading, Moving, At
<1> QED BY <1>1, <1>2 DEF StepsTypeOK, TypeInv, Bodies, IndexNames

LEMMA TypeInvAlways == HSpec => []TypeInv
<1>1. HInit => TypeInv
  BY StepsTypeInit DEF HInit
<1>2. TypeInv /\ [HNext]_hvars => TypeInv'
  BY StepsTypeStep DEF HNext, hvars, vars
<1> QED BY <1>1, <1>2, PTL DEF HSpec

(***************************************************************************)
(* Whatever sessions run, whatever they ask for, in whatever order their   *)
(* file operations come and wherever the process ends, every handler works *)
(* on slots and counts in range (data.cpp:48-243).                         *)
(***************************************************************************)
THEOREM StepsTypeCorrect == HSpec => []StepsTypeOK
BY TypeInvAlways, TypeInvTypes, PTL

-----------------------------------------------------------------------------
(* One session: the files, given those its handler began with. *)

ReadOf(x) == IF x.exists /\ x # BlankIndex
             THEN {x}
             ELSE {Index(g, <<>>) : g \in JunkTotals}

ReadToAdd(x) == IF x.exists THEN ReadOf(x) ELSE {NoIndex}

\* Moved and CanMove of FileStore, of bodies b.
MovedOf(b, k, j) ==
    IF k >= 0 /\ j > k
    THEN [p \in Slots |-> IF k <= p /\ p < j THEN b[p+1]
                          ELSE IF k < p /\ p = j THEN NoFile
                          ELSE b[p]]
    ELSE b

CanMoveOf(b, k, j) == k >= 0 => \A p \in k+1 .. j : b[p] # NoFile

\* A missing index is no index at all.
Present(x) == x.exists \/ x = NoIndex

Begun(b) == /\ b.index \in Found
            /\ Present(b.index)
            /\ b.body \in [Slots -> Bodies]

\* The handler has read one index r and appends n to it.
Adds(x, n, ix) ==
    \E r \in ReadToAdd(x) : r.total < MaxFiles /\ ix = IndexWith(r, n)

\* Files x and bd, for a handler at j that began with b: first an upload.
AddProgress(b, j, x, bd) ==
    /\ j \in AddJobs =>
          /\ x = IF j.at = "truncate_index" /\ b.index.exists
                 THEN b.index ELSE BlankIndex
          /\ bd = b.body
          /\ Adds(b.index, j.n, j.ix)
    /\ j \in LookupJobs => bd = b.body /\ Adds(b.index, j.n, x)
    /\ j \in UploadJobs =>
          /\ Adds(b.index, j.n, x)
          /\ j.slot = GetIndex(x.names, j.n)
          /\ bd = IF j.at = "open_body" THEN b.body
                  ELSE [b.body EXCEPT ![j.slot] = Blank]

GetProgress(b, j, x, bd) ==
    j \in ReadJobs =>
        /\ x = b.index /\ bd = b.body
        /\ \E r \in ReadOf(b.index) : j.slot = Slot(r, j.n)

\* The loop of delete_file has read j.ix and handled the slots before j.i.
Loops(b, j) ==
    /\ j.ix \in ReadOf(b.index)
    /\ j.ix.total > MinTotal
    /\ j.k = Slot(j.ix, j.n)
    /\ IF j.k = -1 THEN j.i = j.ix.total ELSE j.i \in j.k+1 .. j.ix.total
    /\ CanMoveOf(b.body, j.k, j.i - 1)

\* The loop is done.
Drops(b, j, bd) ==
    \E r \in ReadOf(b.index), n \in Name :
        /\ r.total > MinTotal
        /\ j.k = Slot(r, n)
        /\ j.ix = Index(r.total - 1, Without(NamesRead(r), n))
        /\ CanMoveOf(b.body, j.k, r.total - 1)
        /\ bd = MovedOf(b.body, j.k, r.total - 1)

\* The bodies while one moves down.
HalfMoved(b, j) ==
    LET m == MovedOf(b.body, j.k, j.i - 1)
    IN  IF j.at = "open_target" THEN m
        ELSE IF j.at = "write_target" THEN [m EXCEPT ![j.i - 1] = Blank]
        ELSE [m EXCEPT ![j.i - 1] = j.buf]

DeleteProgress(b, j, x, bd) ==
    /\ j \in LoopJobs =>
          /\ x = b.index
          /\ Loops(b, j)
          /\ bd = MovedOf(b.body, j.k, j.i - 1)
    /\ j \in MoveJobs =>
          /\ x = b.index
          /\ Loops(b, j)
          /\ j.i < j.ix.total
          /\ b.body[j.i] = j.buf
          /\ bd = HalfMoved(b, j)
    /\ j \in DropJobs =>
          /\ x = IF j.at = "truncate_index" THEN b.index ELSE BlankIndex
          /\ Drops(b, j, bd)

Progress(b, j, x, bd) ==
    /\ AddProgress(b, j, x, bd)
    /\ GetProgress(b, j, x, bd)
    /\ DeleteProgress(b, j, x, bd)

AloneInv ==
    \A s \in Session :
        IF job[s] = Idle THEN Present(index)
        ELSE Begun(began[s]) /\ Progress(began[s], job[s], index, body)

\* Only one of the kinds of jobs applies.
LEMMA JobKinds ==
    ASSUME NEW j
    PROVE  /\ j \in AddJobs => j.at \in Rewriting /\ j.op = "add"
           /\ j \in DropJobs => j.at \in Rewriting /\ j.op = "delete"
           /\ j \in LookupJobs => j.at = "lookup"
           /\ j \in UploadJobs => j.at \in Uploading
           /\ j \in ReadJobs => j.at = "read_body"
           /\ j \in LoopJobs => j.at = "next"
           /\ j \in MoveJobs => j.at \in Moving
BY DEF AddJobs, DropJobs, LookupJobs, UploadJobs, ReadJobs, LoopJobs, MoveJobs

\* An index with a count in range is not an empty file.
LEMMA CountedNotBlank ==
    ASSUME NEW x \in Counted
    PROVE  x # BlankIndex
BY StepsAssumption DEF Counted, Indices, BlankIndex

LEMMA ReadOfTypes ==
    ASSUME NEW x \in Found
    PROVE  /\ ReadOf(x) \subseteq Counted
           /\ ReadToAdd(x) \subseteq Counted
BY ReadTypes DEF ReadOf, ReadToAdd

\* The index that an upload has written is read in full, and has the name.
LEMMA AddedIsRead ==
    ASSUME NEW x \in Found, NEW n \in Name, NEW ix, Adds(x, n, ix)
    PROVE  /\ ix \in Counted
           /\ ix.exists
           /\ ReadOf(ix) = {ix}
           /\ NamesRead(ix) = ix.names
           /\ ~ LookupFails(ix, n)
<1>1. PICK r \in ReadToAdd(x) : r.total < MaxFiles /\ ix = IndexWith(r, n)
  BY DEF Adds
<1>2. r \in Counted /\ r.total \in Int /\ r.total \in MinTotal .. MaxFiles
  BY ReadOfTypes DEF Counted, Indices
<1>3. ix \in Counted /\ ix.exists
  BY <1>1, <1>2, IndexWithTypes
<1>4. ReadOf(ix) = {ix}
  BY <1>3, CountedNotBlank DEF ReadOf
<1> DEFINE ns == NamesRead(r)
<1>5. ns \in IndexNames /\ Len(ns) = IF r.total <= 0 THEN 0 ELSE r.total
  BY <1>2, SlotTypes
<1>6. ix = Index(r.total + 1, IF r.total >= 0 THEN Append(ns, n) ELSE <<>>)
  BY <1>1 DEF IndexWith
<1> HIDE DEF ns
<1>7. CASE r.total >= 0
  <2>1. ix.names = Append(ns, n) /\ ix.total = r.total + 1
    BY <1>6, <1>7 DEF Index
  <2>2. n \in Name \union {Junk}
    OBVIOUS
  <2>3. Append(ns, n) \in IndexNames /\ Len(Append(ns, n)) = r.total + 1
    BY <1>2, <1>5, <1>7, <2>2 DEF IndexNames
  <2>4. NamesRead(ix) = ix.names
    BY <2>1, <2>3, NamesReadAll DEF IndexNames
  <2>5. ~ ReadFails(ix)
    BY <1>2, <2>1, <2>3 DEF ReadFails
  <2> QED BY <1>3, <1>4, <2>4, <2>5 DEF LookupFails
<1>8. CASE ~ (r.total >= 0)
  <2>1. ix.names = <<>> /\ ix.total = r.total + 1 /\ Len(ix.names) = 0
    BY <1>6, <1>8 DEF Index
  <2>2. ix.total <= 0
    BY <1>2, <1>8, <2>1
  <2>3. NamesRead(ix) = ix.names /\ ~ ReadFails(ix)
    BY <1>2, <2>1, <2>2 DEF NamesRead, ReadFails
  <2> QED BY <1>3, <1>4, <2>3 DEF LookupFails
<1> QED BY <1>7, <1>8

\* Written over an empty file, an index is as it was meant.
LEMMA OverlayBlank ==
    ASSUME NEW new \in Counted
    PROVE  Overlay(BlankIndex, new) = new
<1>1. new.names \in IndexNames /\ Len(new.names) \in Nat
  BY DEF Counted, Indices, IndexNames
<1>2. SubSeq(<<>>, Len(new.names)+1, 0) = <<>>
  <2>1. Len(new.names) + 1 > 0
    BY <1>1
  <2> QED BY <1>1, <2>1
<1>3. new.names \o <<>> = new.names
  BY <1>1 DEF IndexNames
<1>4. Overlay(BlankIndex, new) = [new EXCEPT !.names = new.names]
  BY <1>2, <1>3 DEF Overlay, BlankIndex
<1> QED BY <1>4 DEF Counted, Indices

\* Wherever a handler is, it leaves an index that is one.
LEMMA ProgressPresent ==
    ASSUME NEW b, NEW j \in Jobs, j # Idle, NEW x, NEW bd,
           Begun(b), Progress(b, j, x, bd)
    PROVE  Present(x)
<1>1. BlankIndex.exists
  BY DEF BlankIndex
<1>2. \A n \in Name : Adds(b.index, n, x) => x.exists
  BY AddedIsRead DEF Begun
<1>3. CASE j \in AddJobs \union DropJobs
  BY <1>1, <1>3 DEF Begun, Present, Progress, AddProgress, DeleteProgress
<1>4. CASE j \in LookupJobs \union UploadJobs
  <2>1. j.n \in Name
    BY <1>4 DEF LookupJobs, UploadJobs
  <2> QED BY <1>2, <1>4, <2>1 DEF Present, Progress, AddProgress
<1>5. CASE j \in ReadJobs \union LoopJobs \union MoveJobs
  BY <1>5 DEF Begun, Progress, GetProgress, DeleteProgress
<1> QED BY <1>3, <1>4, <1>5 DEF Jobs

-----------------------------------------------------------------------------
(* Bodies on their way down *)

\* Nothing has moved yet.
LEMMA MovedNone ==
    ASSUME NEW b, NEW k \in Int, NEW j \in Int, k = -1 \/ j <= k
    PROVE  MovedOf(b, k, j) = b /\ CanMoveOf(b, k, j)
<1>1. k >= 0 => \A p \in k+1 .. j : FALSE
  OBVIOUS
<1> QED BY <1>1 DEF MovedOf, CanMoveOf

\* Slots above j, and slots below k, are as they were.
LEMMA MovedOutside ==
    ASSUME NEW b \in [Slots -> Bodies], NEW k \in Int, NEW j \in Int, k >= -1,
           NEW p \in Slots, p < k \/ p > j
    PROVE  MovedOf(b, k, j)[p] = b[p]
<1>1. p \in Int
  BY StepsAssumption DEF Slots, Atomic!Slots
<1>2. CASE k >= 0 /\ j > k
  <2>1. ~ (k <= p /\ p < j) /\ ~ (k < p /\ p = j)
    BY <1>1
  <2> QED BY <1>2, <2>1, Zenon DEF MovedOf
<1>3. CASE ~ (k >= 0 /\ j > k)
  BY <1>3 DEF MovedOf
<1> QED BY <1>2, <1>3

LEMMA MovedType ==
    ASSUME NEW b \in [Slots -> Bodies], NEW k \in Slots, NEW j \in Int,
           j <= MaxFiles-1
    PROVE  MovedOf(b, k, j) \in [Slots -> Bodies]
<1>1. CASE k >= 0 /\ j > k
  <2>1. ASSUME NEW p \in Slots, k <= p, p < j PROVE b[p+1] \in Bodies
    <3>1. p+1 \in Slots
      BY <2>1, StepsAssumption DEF Slots, Atomic!Slots
    <3> QED BY <3>1
  <2> QED BY <1>1, <2>1 DEF MovedOf, Bodies
<1>2. CASE ~ (k >= 0 /\ j > k)
  BY <1>2 DEF MovedOf
<1> QED BY <1>1, <1>2

\* The copy of the body of slot i to i-1, and its removal, are one more slot.
LEMMA MovedOneMore ==
    ASSUME NEW b \in [Slots -> Bodies], NEW k \in Slots, NEW i \in Slots,
           k >= 0, k < i
    PROVE  [[MovedOf(b, k, i-1) EXCEPT ![i-1] = b[i]] EXCEPT ![i] = NoFile]
              = MovedOf(b, k, i)
<1>1. /\ k \in Int /\ i \in Int /\ i-1 \in Slots /\ i-1 \in Int /\ i-1 <= MaxFiles-1
      /\ i <= MaxFiles-1 /\ (i-1)+1 = i
  BY StepsAssumption DEF Slots, Atomic!Slots
<1> DEFINE m == MovedOf(b, k, i-1)
           l == [[m EXCEPT ![i-1] = b[i]] EXCEPT ![i] = NoFile]
           r == MovedOf(b, k, i)
<1>2. m \in [Slots -> Bodies] /\ r \in [Slots -> Bodies]
  BY <1>1, MovedType
<1>3. b[i] \in Bodies /\ NoFile \in Bodies
  BY DEF Bodies
<1>4. r = [p \in Slots |-> IF k <= p /\ p < i THEN b[p+1]
                           ELSE IF k < p /\ p = i THEN NoFile
                           ELSE b[p]]
  BY <1>1 DEF MovedOf
<1>5. ASSUME NEW p \in Slots PROVE l[p] = r[p]
  <2>1. p \in Int
    BY StepsAssumption DEF Slots, Atomic!Slots
  <2>2. CASE p = i
    <3>1. l[p] = NoFile
      BY <1>2, <2>2
    <3>2. ~ (k <= p /\ p < i) /\ k < p
      BY <1>1, <2>1, <2>2
    <3> QED BY <1>4, <2>2, <3>1, <3>2
  <2>3. CASE p = i-1
    <3>1. l[p] = b[i]
      BY <1>1, <1>2, <2>3
    <3>2. k <= p /\ p < i /\ p+1 = i
      BY <1>1, <2>1, <2>3
    <3> QED BY <1>4, <3>1, <3>2
  <2>4. CASE p # i /\ p # i-1
    <3>1. l[p] = m[p]
      BY <1>2, <2>4
    <3>2. CASE i-1 > k
      <4>1. m = [q \in Slots |-> IF k <= q /\ q < i-1 THEN b[q+1]
                                 ELSE IF k < q /\ q = i-1 THEN NoFile
                                 ELSE b[q]]
        BY <3>2 DEF MovedOf
      <4>2. (k <= p /\ p < i-1) <=> (k <= p /\ p < i)
        BY <1>1, <2>1, <2>4
      <4> HIDE DEF l, r, m
      <4> QED BY <1>4, <2>4, <3>1, <4>1, <4>2
    <3>3. CASE ~ (i-1 > k)
      <4>1. m[p] = b[p]
        BY <3>3 DEF MovedOf
      <4>2. ~ (k <= p /\ p < i)
        BY <1>1, <2>1, <2>4, <3>3
      <4> HIDE DEF l, r, m
      <4> QED BY <1>4, <2>4, <3>1, <4>1, <4>2
    <3> QED BY <3>2, <3>3
  <2> QED BY <2>2, <2>3, <2>4
<1>6. l \in [Slots -> Bodies]
  BY <1>2, <1>3
<1> HIDE DEF l, r
<1>7. l = r
  BY <1>2, <1>5, <1>6
<1> QED BY <1>7 DEF l, r, m

-----------------------------------------------------------------------------
(* A handler begins *)

LEMMA ProgressStart ==
    ASSUME TypeInv, NEW s \in Session, Start(s), job'[s] # Idle
    PROVE  Progress([index |-> index, body |-> body], job'[s], index', body')
<1> DEFINE b == [index |-> index, body |-> body]
           x == index'
           j == job'[s]
<1>0. index \in Found /\ body \in [Slots -> Bodies] /\ job \in [Session -> Jobs]
  BY DEF TypeInv
<1>1. ASSUME NEW n \in Name, NEW c \in Content, StartAdd(s, n, c)
      PROVE  Progress(b, j, x, body')
  <2>1. PICK ix \in IF index.exists THEN Read ELSE {NoIndex} :
              /\ ix.total < MaxFiles
              /\ \/ Go(s, [at |-> "truncate_index", op |-> "add", n |-> n, c |-> c,
                           ix |-> IndexWith(ix, n)])
                 \/ ReadFails(ix) /\ Throw(s)
    BY <1>1, Zenon DEF StartAdd
  <2>2. j = [at |-> "truncate_index", op |-> "add", n |-> n, c |-> c,
             ix |-> IndexWith(ix, n)]
    BY <1>0, <2>1 DEF Go, Throw, Finish
  <2>3. Adds(index, n, IndexWith(ix, n))
    BY <2>1 DEF Adds, ReadToAdd, ReadOf, Read
  <2>4. x = (IF index.exists THEN index ELSE BlankIndex) /\ body' = body
    BY <1>1 DEF StartAdd
  <2>5. j.at = "truncate_index" /\ j.op = "add" /\ j.n = n /\ j.ix = IndexWith(ix, n)
    BY <2>2
  <2> HIDE DEF j, x
  <2> QED BY <2>3, <2>4, <2>5, JobKinds
          DEF Progress, AddProgress, GetProgress, DeleteProgress, Rewriting,
              Uploading, Moving
<1>2. ASSUME NEW n \in Name, StartGet(s, n)
      PROVE  Progress(b, j, x, body')
  <2>1. PICK ix \in Read :
            \/ Go(s, [at |-> "read_body", n |-> n, slot |-> Slot(ix, n)])
            \/ LookupFails(ix, n) /\ Throw(s)
    BY <1>2, Zenon DEF StartGet
  <2>2. j = [at |-> "read_body", n |-> n, slot |-> Slot(ix, n)]
    BY <1>0, <2>1 DEF Go, Throw, Finish
  <2>3. j.at = "read_body" /\ j.slot = Slot(ix, j.n) /\ ix \in ReadOf(index)
    BY <2>1, <2>2 DEF Read, ReadOf
  <2>4. x = index /\ body' = body
    BY <1>2 DEF StartGet
  <2> HIDE DEF j, x
  <2> QED BY <2>3, <2>4, JobKinds
          DEF Progress, AddProgress, GetProgress, DeleteProgress, Rewriting,
              Uploading, Moving
<1>3. ~ List(s)
  BY <1>0 DEF List, Throw, Finish
<1>4. ASSUME NEW n \in Name, StartDelete(s, n)
      PROVE  Progress(b, j, x, body')
  <2>1. PICK ix \in Read :
            /\ ix.total > MinTotal
            /\ \/ Go(s, [at |-> "next", n |-> n, ix |-> ix, k |-> Slot(ix, n),
                         i |-> IF Slot(ix, n) = -1 THEN ix.total ELSE Slot(ix, n) + 1])
               \/ Slot(ix, n) = -1 /\ ReadFails(ix) /\ Throw(s)
    BY <1>4, Zenon DEF StartDelete
  <2> DEFINE k == Slot(ix, n)
             i == IF k = -1 THEN ix.total ELSE k + 1
  <2>2. j = [at |-> "next", n |-> n, ix |-> ix, k |-> k, i |-> i]
    BY <1>0, <2>1 DEF Go, Throw, Finish
  <2>3. /\ j.at = "next" /\ j.n = n /\ j.ix = ix /\ j.k = k /\ j.i = i
        /\ ix \in ReadOf(index)
    BY <2>1, <2>2 DEF Read, ReadOf
  <2>4. ix \in Counted /\ ix.total \in Int
    BY <1>0, <2>3, ReadOfTypes DEF Counted, Indices
  <2>5. k \in -1 .. Len(NamesRead(ix))-1 /\ k \in Int
        /\ Len(NamesRead(ix)) \in Nat /\ (k # -1 => k < ix.total)
    BY <2>4, SlotTypes
  <2> HIDE DEF k
  <2>6. IF k = -1 THEN i = ix.total ELSE i \in k+1 .. ix.total
    BY <2>4, <2>5
  <2>7. i \in Int /\ (k = -1 \/ i-1 <= k)
    BY <2>4, <2>5
  <2>8. MovedOf(body, k, i-1) = body /\ CanMoveOf(body, k, i-1)
    BY <2>5, <2>7, MovedNone
  <2>9. x = index /\ body' = body
    BY <1>4 DEF StartDelete
  <2> HIDE DEF i, j, x
  <2>10. Loops(b, j)
    BY <2>1, <2>3, <2>6, <2>8 DEF Loops, k
  <2> QED BY <2>3, <2>8, <2>9, <2>10, JobKinds
          DEF Progress, AddProgress, GetProgress, DeleteProgress, Rewriting,
              Uploading, Moving
<1> QED BY <1>1, <1>2, <1>3, <1>4 DEF Start

-----------------------------------------------------------------------------
(* A handler goes on *)

LEMMA ProgressAdd ==
    ASSUME TypeInv, NEW s \in Session, NEW b, Begun(b),
           Progress(b, job[s], index, body), job'[s] # Idle,
           TruncateIndex(s) \/ WriteIndex(s) \/ AddLookup(s) \/ OpenBody(s)
    PROVE  Progress(b, job'[s], index', body')
<1> DEFINE j == job[s]
           l == job'[s]
           x == index'
<1> SUFFICES Progress(b, l, x, body')
  OBVIOUS
<1>0. index \in Found /\ body \in [Slots -> Bodies] /\ job \in [Session -> Jobs]
  BY DEF TypeInv
<1>1. CASE TruncateIndex(s)
  <2>1. j \in AddJobs \union DropJobs /\ j.at = "truncate_index"
    BY <1>1, JobAt DEF TruncateIndex, At, Rewriting
  <2>2. l = [j EXCEPT !.at = "write_index"] /\ x = BlankIndex /\ body' = body
    BY <1>0, <1>1 DEF TruncateIndex, Go
  <2>3. CASE j \in AddJobs
    <3>1. l.at = "write_index" /\ l.op = "add" /\ l.n = j.n /\ l.ix = j.ix
      BY <2>2, <2>3 DEF AddJobs
    <3>2. body = b.body /\ Adds(b.index, j.n, j.ix)
      BY <2>3 DEF Progress, AddProgress
    <3> HIDE DEF j, l, x
    <3> QED BY <2>2, <3>1, <3>2, JobKinds
            DEF Progress, AddProgress, GetProgress, DeleteProgress, Rewriting,
                Uploading, Moving
  <2>4. CASE j \in DropJobs
    <3>1. l.at = "write_index" /\ l.op = "delete" /\ l.k = j.k /\ l.ix = j.ix
      BY <2>2, <2>4 DEF DropJobs
    <3>2. Drops(b, j, body)
      BY <2>4 DEF Progress, DeleteProgress
    <3> HIDE DEF j, l, x
    <3>3. Drops(b, l, body)
      BY <3>1, <3>2 DEF Drops
    <3> QED BY <2>2, <3>1, <3>3, JobKinds
            DEF Progress, AddProgress, GetProgress, DeleteProgress, Rewriting,
                Uploading, Moving
  <2> QED BY <2>1, <2>3, <2>4
<1>2. CASE WriteIndex(s)
  <2>1. j \in AddJobs \union DropJobs /\ j.at = "write_index"
    BY <1>2, JobAt DEF WriteIndex, At, Rewriting
  <2>2. j.op = "add"
    BY <1>0, <1>2 DEF WriteIndex, Finish
  <2>3. j \in AddJobs
    BY <2>1, <2>2 DEF DropJobs
  <2>4. /\ l = [at |-> "lookup", n |-> j.n, c |-> j.c]
        /\ x = Overlay(index, j.ix) /\ body' = body
    BY <1>0, <1>2, <2>2 DEF WriteIndex, Go
  <2>5. index = BlankIndex /\ body = b.body /\ Adds(b.index, j.n, j.ix)
    BY <2>1, <2>3 DEF Progress, AddProgress
  <2>6. j.ix \in Counted
    BY <2>3 DEF AddJobs
  <2>7. x = j.ix
    BY <2>4, <2>5, <2>6, OverlayBlank
  <2>8. l.at = "lookup" /\ l.n = j.n
    BY <2>4
  <2> HIDE DEF j, l, x
  <2> QED BY <2>4, <2>5, <2>7, <2>8, JobKinds
          DEF Progress, AddProgress, GetProgress, DeleteProgress, Rewriting,
              Uploading, Moving
<1>3. CASE AddLookup(s)
  <2>1. j \in LookupJobs /\ j.n \in Name
    BY <1>3, JobAt DEF AddLookup, LookupJobs
  <2>2. body = b.body /\ Adds(b.index, j.n, index)
    BY <2>1 DEF Progress, AddProgress
  <2>3. PICK ix \in Read :
            \/ Go(s, [at |-> "open_body", n |-> j.n,
                      slot |-> Slot(ix, j.n), c |-> j.c])
            \/ LookupFails(ix, j.n) /\ Throw(s)
    BY <1>3, Zenon DEF AddLookup
  <2>4. ReadOf(index) = {index} /\ NamesRead(index) = index.names
    BY <2>1, <2>2, AddedIsRead DEF Begun
  <2>5. ix = index
    BY <2>3, <2>4 DEF Read, ReadOf
  <2>6. l = [at |-> "open_body", n |-> j.n, slot |-> Slot(ix, j.n), c |-> j.c]
    BY <1>0, <2>3 DEF Go, Throw, Finish
  <2>7. l.at = "open_body" /\ l.n = j.n /\ l.slot = GetIndex(index.names, j.n)
    BY <2>4, <2>5, <2>6 DEF Slot
  <2>8. x = index /\ body' = body
    BY <1>3 DEF AddLookup
  <2> HIDE DEF j, l, x
  <2> QED BY <2>2, <2>7, <2>8, JobKinds
          DEF Progress, AddProgress, GetProgress, DeleteProgress, Rewriting,
              Uploading, Moving
<1>4. CASE OpenBody(s)
  <2>1. j \in UploadJobs /\ j.at = "open_body"
    BY <1>4, JobAt DEF OpenBody, At, Uploading
  <2>2. l = [j EXCEPT !.at = "write_body"] /\ x = index
        /\ body' = [body EXCEPT ![j.slot] = Blank]
    BY <1>0, <1>4 DEF OpenBody, Go
  <2>3. l.at = "write_body" /\ l.n = j.n /\ l.slot = j.slot
    BY <2>1, <2>2 DEF UploadJobs
  <2>4. /\ Adds(b.index, j.n, index)
        /\ j.slot = GetIndex(index.names, j.n)
        /\ body = b.body
    BY <2>1 DEF Progress, AddProgress
  <2> HIDE DEF j, l, x
  <2> QED BY <2>2, <2>3, <2>4, JobKinds
          DEF Progress, AddProgress, GetProgress, DeleteProgress, Rewriting,
              Uploading, Moving
<1> QED BY <1>1, <1>2, <1>3, <1>4

\* Where the loop of a delete may be.
LEMMA LoopsSlots ==
    ASSUME NEW b, Begun(b), NEW j \in LoopJobs \union MoveJobs, Loops(b, j)
    PROVE  /\ j.k \in Slots /\ j.k \in Int /\ j.k >= -1
           /\ j.i \in Int
           /\ j.ix.total \in Int /\ j.ix.total <= MaxFiles /\ MaxFiles \in Nat
           /\ j.n \in Name
           /\ j.ix \in Counted
           /\ j.i < j.ix.total => j.k >= 0 /\ j.k < j.i /\ j.i \in Slots
           /\ j.k = -1 => j.i = j.ix.total
           /\ j.k # -1 => j.k >= 0 /\ j.k < j.i /\ j.i <= j.ix.total
<1>1. j.k \in Slots /\ j.i \in Int /\ j.n \in Name /\ j.ix \in Deletable
  BY StepsAssumption DEF LoopJobs, MoveJobs
<1>2. /\ j.k \in Int /\ j.k >= -1
      /\ j.ix.total \in Int /\ j.ix.total <= MaxFiles /\ MaxFiles \in Nat
  BY <1>1, StepsAssumption DEF Slots, Atomic!Slots, Deletable, Indices
<1>3. IF j.k = -1 THEN j.i = j.ix.total ELSE j.i \in j.k+1 .. j.ix.total
  BY DEF Loops
<1>4. j.ix \in Counted
  BY <1>1, StepsAssumption DEF Deletable, Counted, Indices
<1>5. j.i < j.ix.total => j.k >= 0 /\ j.k < j.i /\ j.i \in Slots
  BY <1>1, <1>2, <1>3 DEF Slots, Atomic!Slots
<1> QED BY <1>1, <1>2, <1>3, <1>4, <1>5

LEMMA ProgressDelete ==
    ASSUME TypeInv, NEW s \in Session, NEW b, Begun(b),
           Progress(b, job[s], index, body), job'[s] # Idle,
           ReadSource(s) \/ OpenTarget(s) \/ WriteTarget(s) \/ RemoveSource(s)
             \/ EndLoop(s)
    PROVE  Progress(b, job'[s], index', body')
<1> DEFINE j == job[s]
           l == job'[s]
           x == index'
           m == MovedOf(b.body, j.k, j.i - 1)
<1> SUFFICES Progress(b, l, x, body')
  OBVIOUS
<1>0. index \in Found /\ body \in [Slots -> Bodies] /\ job \in [Session -> Jobs]
      /\ b.body \in [Slots -> Bodies]
  BY DEF TypeInv, Begun
<1>1. CASE ReadSource(s)
  <2>1. j \in LoopJobs /\ j.i < j.ix.total
    BY <1>1, JobAt DEF ReadSource
  <2>2. index = b.index /\ Loops(b, j) /\ body = m
    BY <2>1 DEF Progress, DeleteProgress
  <2>3. /\ l = [at |-> "open_target", n |-> j.n, ix |-> j.ix, k |-> j.k,
                i |-> j.i, buf |-> body[j.i]]
        /\ x = index /\ body' = body
    BY <1>0, <1>1 DEF ReadSource, Go, Throw, Finish
  <2>4. j.k \in Int /\ j.k >= -1 /\ j.i \in Slots /\ j.i \in Int
    BY <2>1, <2>2, LoopsSlots
  <2>5. body[j.i] = b.body[j.i]
    <3>1. j.i - 1 \in Int /\ j.i > j.i - 1
      BY <2>4
    <3> HIDE DEF j
    <3> QED BY <1>0, <2>2, <2>4, <3>1, MovedOutside
  <2>6. /\ l.at = "open_target" /\ l.n = j.n /\ l.ix = j.ix /\ l.k = j.k
        /\ l.i = j.i /\ l.buf = b.body[j.i]
    BY <2>3, <2>5
  <2> HIDE DEF j, l, x
  <2>7. Loops(b, l)
    BY <2>2, <2>6 DEF Loops
  <2>8. HalfMoved(b, l) = m
    BY <2>6 DEF HalfMoved
  <2> HIDE DEF m
  <2> QED BY <2>1, <2>2, <2>3, <2>6, <2>7, <2>8, JobKinds
          DEF Progress, AddProgress, GetProgress, DeleteProgress, Rewriting,
              Uploading, Moving
<1>2. CASE OpenTarget(s) \/ WriteTarget(s)
  <2>1. j \in MoveJobs
    BY <1>2, JobAt DEF OpenTarget, WriteTarget, At, Moving
  <2>2. /\ index = b.index /\ Loops(b, j) /\ body = HalfMoved(b, j)
        /\ j.i < j.ix.total /\ b.body[j.i] = j.buf
    BY <2>1 DEF Progress, DeleteProgress
  <2>3. x = index
    BY <1>2 DEF OpenTarget, WriteTarget
  <2>4. /\ l.n = j.n /\ l.ix = j.ix /\ l.k = j.k /\ l.i = j.i /\ l.buf = j.buf
        /\ l.at = IF j.at = "open_target" THEN "write_target" ELSE "remove_source"
        /\ j.at \in {"open_target", "write_target"}
    BY <1>0, <1>2, <2>1 DEF OpenTarget, WriteTarget, Go, At, MoveJobs
  <2>5. body' = [body EXCEPT ![j.i - 1] = IF j.at = "open_target" THEN Blank
                                                                 ELSE j.buf]
    BY <1>2 DEF OpenTarget, WriteTarget, At
  <2>6. Loops(b, l)
    <3> HIDE DEF j, l
    <3> QED BY <2>2, <2>4 DEF Loops
  <2>7. m \in [Slots -> Bodies]
    <3>1. j.k \in Slots /\ j.i - 1 \in Int /\ j.i - 1 <= MaxFiles - 1
      BY <2>1, <2>2, LoopsSlots
    <3> QED BY <1>0, <3>1, MovedType
  <2>8. body' = HalfMoved(b, l)
    <3>1. CASE j.at = "open_target"
      <4>1. body = m /\ body' = [m EXCEPT ![j.i - 1] = Blank]
        BY <2>2, <2>5, <3>1 DEF HalfMoved
      <4> HIDE DEF j, l
      <4> QED BY <2>4, <3>1, <4>1 DEF HalfMoved, m
    <3>2. CASE j.at = "write_target"
      <4>1. body = [m EXCEPT ![j.i - 1] = Blank]
            /\ body' = [body EXCEPT ![j.i - 1] = j.buf]
        BY <2>2, <2>5, <3>2 DEF HalfMoved
      <4> HIDE DEF m
      <4>2. body' = [m EXCEPT ![j.i - 1] = j.buf]
        BY <2>7, <4>1
      <4> HIDE DEF j, l
      <4> QED BY <2>4, <3>2, <4>2 DEF HalfMoved, m
    <3> QED BY <2>4, <3>1, <3>2
  <2>9. l.at \in Moving
    BY <2>4 DEF Moving
  <2> HIDE DEF j, l, x, m
  <2> QED BY <2>2, <2>3, <2>4, <2>6, <2>8, <2>9, JobKinds
          DEF Progress, AddProgress, GetProgress, DeleteProgress, Rewriting,
              Uploading, Moving
<1>3. CASE RemoveSource(s)
  <2>1. j \in MoveJobs /\ j.at = "remove_source"
    BY <1>3, JobAt DEF RemoveSource, At, Moving
  <2>2. /\ index = b.index /\ Loops(b, j) /\ body = [m EXCEPT ![j.i - 1] = j.buf]
        /\ j.i < j.ix.total /\ b.body[j.i] = j.buf
    BY <2>1 DEF Progress, DeleteProgress, HalfMoved
  <2>3. /\ l = [at |-> "next", n |-> j.n, ix |-> j.ix, k |-> j.k, i |-> j.i + 1]
        /\ x = index /\ body' = [body EXCEPT ![j.i] = NoFile]
    BY <1>0, <1>3 DEF RemoveSource, Go, Throw, Finish
  <2>4. /\ j.k \in Int /\ j.k >= 0 /\ j.k \in Slots /\ j.i \in Slots /\ j.i \in Int
        /\ j.k < j.i /\ j.ix.total \in Int
    BY <2>1, <2>2, LoopsSlots
  <2>5. body' = MovedOf(b.body, j.k, j.i)
    <3>1. [[m EXCEPT ![j.i - 1] = b.body[j.i]] EXCEPT ![j.i] = NoFile]
             = MovedOf(b.body, j.k, j.i)
      <4> HIDE DEF j
      <4> QED BY <1>0, <2>4, MovedOneMore, Zenon
    <3>2. body' = [[m EXCEPT ![j.i - 1] = b.body[j.i]] EXCEPT ![j.i] = NoFile]
      <4> HIDE DEF j, m
      <4> QED BY <2>2, <2>3
    <3> HIDE DEF j, m
    <3> QED BY <3>1, <3>2
  <2>6. /\ l.at = "next" /\ l.n = j.n /\ l.ix = j.ix /\ l.k = j.k /\ l.i = j.i + 1
    BY <2>3
  <2>7. CanMoveOf(b.body, j.k, j.i)
    <3>1. CanMoveOf(b.body, j.k, j.i - 1)
      BY <2>2 DEF Loops
    <3>2. j.buf # NoFile
      BY <2>1, StepsAssumption DEF MoveJobs
    <3> HIDE DEF j
    <3>3. \A p \in j.k+1 .. j.i : p \in j.k+1 .. j.i-1 \/ p = j.i
      BY <2>4
    <3> QED BY <2>2, <2>4, <3>1, <3>2, <3>3 DEF CanMoveOf
  <2>8. l.i - 1 = j.i /\ l.i \in l.k+1 .. l.ix.total /\ l.k # -1
    <3> HIDE DEF j, l
    <3> QED BY <2>2, <2>4, <2>6
  <2> HIDE DEF j, l, x, m
  <2>9. Loops(b, l)
    BY <2>2, <2>6, <2>7, <2>8 DEF Loops
  <2> QED BY <2>2, <2>3, <2>5, <2>6, <2>8, <2>9, JobKinds
          DEF Progress, AddProgress, GetProgress, DeleteProgress, Rewriting,
              Uploading, Moving
<1>4. CASE EndLoop(s)
  <2>1. j \in LoopJobs /\ j.i >= j.ix.total
    BY <1>4, JobAt DEF EndLoop
  <2>2. index = b.index /\ Loops(b, j) /\ body = m
    BY <2>1 DEF Progress, DeleteProgress
  <2>3. /\ l = [at |-> "truncate_index", op |-> "delete", k |-> j.k,
                ix |-> Index(j.ix.total - 1, Without(NamesRead(j.ix), j.n))]
        /\ x = index /\ body' = body
    BY <1>0, <1>4, Zenon DEF EndLoop, Go
  <2>4. j.i = j.ix.total /\ j.n \in Name
    BY <2>1, <2>2, LoopsSlots
  <2>5. /\ l.at = "truncate_index" /\ l.op = "delete" /\ l.k = j.k
        /\ l.ix = Index(j.ix.total - 1, Without(NamesRead(j.ix), j.n))
    BY <2>3
  <2> HIDE DEF j, l, x
  <2>6. Drops(b, l, body)
    BY <2>2, <2>4, <2>5 DEF Drops, Loops, m
  <2> HIDE DEF m
  <2> QED BY <2>2, <2>3, <2>5, <2>6, JobKinds
          DEF Progress, AddProgress, GetProgress, DeleteProgress, Rewriting,
              Uploading, Moving
<1> QED BY <1>1, <1>2, <1>3, <1>4

-----------------------------------------------------------------------------
(* One session, all of it *)

\* The history of one session.
LEMMA BeganStep ==
    ASSUME NEW s \in Session, HNext, job'[s] # Idle
    PROVE  began'[s] = IF job[s] = Idle THEN [index |-> index, body |-> body]
                       ELSE began[s]
BY DEF HNext

LEMMA AloneInvStep ==
    ASSUME NEW s, Session = {s}, TypeInv, AloneInv, HNext
    PROVE  AloneInv'
<1>0. /\ s \in Session /\ job[s] \in Jobs
      /\ index \in Found /\ body \in [Slots -> Bodies] /\ job \in [Session -> Jobs]
  BY DEF TypeInv
<1>1. Start(s) \/ Continue(s) \/ Crash
  BY DEF HNext, Next
<1>2. SUFFICES IF job'[s] = Idle THEN Present(index')
               ELSE Begun(began'[s]) /\ Progress(began'[s], job'[s], index', body')
  BY DEF AloneInv
<1>3. job[s] = Idle => Present(index)
  BY <1>0 DEF AloneInv
<1>4. job[s] # Idle => Begun(began[s]) /\ Progress(began[s], job[s], index, body)
  BY <1>0 DEF AloneInv
<1>5. Present(index)
  BY <1>0, <1>3, <1>4, ProgressPresent
<1>6. Start(s) => job[s] = Idle
  BY DEF Start, StartAdd, StartGet, List, StartDelete, Ask
<1>7. Continue(s) => job[s] # Idle
  BY DEF Continue, TruncateIndex, WriteIndex, AddLookup, OpenBody, WriteBody, ReadBody,
         ReadSource, OpenTarget, WriteTarget, RemoveSource, EndLoop, At, Idle
<1>8. CASE job'[s] = Idle
  <2>1. CASE Start(s)
    <3>1. ASSUME NEW n \in Name, NEW c \in Content, StartAdd(s, n, c)
          PROVE  Present(index')
      <4>1. index' = IF index.exists THEN index ELSE BlankIndex
        BY <3>1, Zenon DEF StartAdd
      <4> QED BY <1>5, <4>1 DEF Present, BlankIndex
    <3>2. ASSUME NEW n \in Name, StartGet(s, n) PROVE index' = index
      BY <3>2, Zenon DEF StartGet
    <3>3. List(s) => index' = index
      BY Zenon DEF List
    <3>4. ASSUME NEW n \in Name, StartDelete(s, n) PROVE index' = index
      BY <3>4, Zenon DEF StartDelete
    <3> QED BY <1>5, <1>8, <2>1, <3>1, <3>2, <3>3, <3>4 DEF Start, Present
  <2>2. CASE Crash
    BY <1>5, <2>2 DEF Crash
  <2>3. CASE Continue(s)
    <3>1. CASE WriteIndex(s)
      <4>1. job[s] \in AddJobs \union DropJobs /\ job[s].at = "write_index"
        BY <3>1, JobAt DEF WriteIndex, At, Rewriting
      <4>2. job[s].op # "add"
        BY <1>0, <1>8, <3>1 DEF WriteIndex, Go, Idle
      <4>3. job[s] \in DropJobs /\ job[s].ix \in Counted
        BY <4>1, <4>2 DEF AddJobs, DropJobs
      <4>4. job[s].ix.exists
        <5>1. Drops(began[s], job[s], body)
          BY <1>4, <1>7, <2>3, <4>3 DEF Progress, DeleteProgress
        <5>2. PICK r \in ReadOf(began[s].index), n \in Name :
                 job[s].ix = Index(r.total - 1, Without(NamesRead(r), n))
          BY <5>1, Zenon DEF Drops
        <5> QED BY <5>2 DEF Index
      <4>5. index'.exists
        BY <1>0, <3>1, <4>3, <4>4, OverlayTypes DEF WriteIndex
      <4> QED BY <1>8, <4>5 DEF Present
    <3>2. CASE ~ WriteIndex(s)
      <4>1. index' = index \/ index' = BlankIndex
        BY <2>3, <3>2 DEF Continue, TruncateIndex, AddLookup, OpenBody, WriteBody,
               ReadBody, ReadSource, OpenTarget, WriteTarget, RemoveSource, EndLoop
      <4> QED BY <1>5, <1>8, <4>1 DEF Present, BlankIndex
    <3> QED BY <3>1, <3>2
  <2> QED BY <1>1, <2>1, <2>2, <2>3
<1>9. CASE job'[s] # Idle
  <2>1. ~ Crash
    BY <1>0, <1>9 DEF Crash
  <2>2. CASE Start(s)
    <3>1. began'[s] = [index |-> index, body |-> body]
      BY <1>0, <1>6, <1>9, <2>2, BeganStep
    <3>2. Begun([index |-> index, body |-> body])
      BY <1>0, <1>5 DEF Begun
    <3> QED BY <1>0, <1>9, <2>2, <3>1, <3>2, ProgressStart
  <2>3. CASE Continue(s)
    <3>1. began'[s] = began[s]
      BY <1>0, <1>7, <1>9, <2>3, BeganStep
    <3>2. ~ WriteBody(s) /\ ~ ReadBody(s)
      BY <1>0, <1>9 DEF WriteBody, ReadBody, Finish
    <3>3. Begun(began[s]) /\ Progress(began[s], job[s], index, body)
      BY <1>4, <1>7, <2>3
    <3>4. Progress(began[s], job'[s], index', body')
      BY <1>0, <1>9, <2>3, <3>2, <3>3, ProgressAdd, ProgressDelete DEF Continue
    <3> QED BY <1>9, <3>1, <3>3, <3>4
  <2> QED BY <1>1, <2>1, <2>2, <2>3
<1> QED BY <1>8, <1>9

LEMMA AloneInvAlways ==
    ASSUME NEW CONSTANT s, Session = {s}
    PROVE  HSpec => []AloneInv
<1>1. HInit => AloneInv
  <2>1. Present(NoIndex)
    BY DEF Present
  <2> QED BY <2>1 DEF HInit, Init, AloneInv
<1>2. TypeInv /\ AloneInv /\ [HNext]_hvars => AloneInv'
  <2>1. TypeInv /\ AloneInv /\ HNext => AloneInv'
    BY AloneInvStep
  <2>2. AloneInv /\ UNCHANGED hvars => AloneInv'
    BY DEF AloneInv, hvars
  <2> QED BY <2>1, <2>2
<1> QED BY <1>1, <1>2, TypeInvAlways, PTL DEF HSpec

-----------------------------------------------------------------------------
(* What the end of the process costs *)

\* A body on its way down is in its slot or in the one before.
LEMMA MovedKeeps ==
    ASSUME NEW b \in [Slots -> Bodies], NEW k \in Slots, NEW j \in Int,
           NEW i \in Slots, i # k
    PROVE  \E p \in Slots \cap {i, i-1} :
              /\ MovedOf(b, k, j)[p] = b[i]
              /\ p = i \/ i <= j
<1>1. k \in Int /\ i \in Int /\ MaxFiles \in Nat /\ k >= -1
  BY StepsAssumption DEF Slots, Atomic!Slots
<1>2. CASE k >= 0 /\ j > k /\ k < i /\ i <= j
  <2>1. i-1 \in Slots /\ i-1 \in {i, i-1} /\ k <= i-1 /\ i-1 < j /\ (i-1)+1 = i
    BY <1>1, <1>2 DEF Slots, Atomic!Slots
  <2>2. MovedOf(b, k, j)[i-1] = b[i]
    BY <1>2, <2>1 DEF MovedOf
  <2> QED BY <1>2, <2>1, <2>2
<1>3. CASE ~ (k >= 0 /\ j > k /\ k < i /\ i <= j)
  <2>1. MovedOf(b, k, j)[i] = b[i]
    <3>1. CASE k >= 0 /\ j > k
      <4>1. i < k \/ i > j
        BY <1>1, <1>3, <3>1
      <4> QED BY <1>1, <4>1, MovedOutside
    <3>2. CASE ~ (k >= 0 /\ j > k)
      BY <3>2 DEF MovedOf
    <3> QED BY <3>1, <3>2
  <2> QED BY <2>1
<1> QED BY <1>2, <1>3

LEMMA ProgressKeeps ==
    ASSUME NEW b, Begun(b), NEW j \in Jobs, j # Idle, NEW x, NEW bd,
           Progress(b, j, x, bd),
           NEW i \in Slots \ {OwnSlot(j)}, b.body[i] \in Content
    PROVE  \E p \in Slots \cap {i, i-1} : bd[p] = b.body[i]
<1>0. b.body \in [Slots -> Bodies] /\ i \in Slots
  BY DEF Begun
<1>1. CASE j \in AddJobs \union LookupJobs \union ReadJobs
  <2>1. bd = b.body
    BY <1>1 DEF Progress, AddProgress, GetProgress
  <2> QED BY <2>1
<1>2. CASE j \in UploadJobs
  <2>1. OwnSlot(j) = j.slot
    BY <1>2, JobKinds DEF OwnSlot, Uploading
  <2>2. bd[i] = b.body[i]
    <3>1. bd = b.body \/ bd = [b.body EXCEPT ![j.slot] = Blank]
      BY <1>2 DEF Progress, AddProgress
    <3> QED BY <1>0, <2>1, <3>1
  <2> QED BY <2>2
<1>3. CASE j \in LoopJobs
  <2>1. OwnSlot(j) = j.k
    BY <1>3, JobKinds DEF OwnSlot
  <2>2. bd = MovedOf(b.body, j.k, j.i - 1) /\ Loops(b, j)
    BY <1>3 DEF Progress, DeleteProgress
  <2>3. j.k \in Slots /\ j.i - 1 \in Int
    BY <1>3, <2>2, LoopsSlots
  <2>4. i # j.k
    BY <2>1
  <2> DEFINE t == j.i - 1
  <2>5. t \in Int
    BY <2>3
  <2> HIDE DEF t
  <2>6. PICK p \in Slots \cap {i, i-1} :
            MovedOf(b.body, j.k, t)[p] = b.body[i] /\ (p = i \/ i <= t)
    <3>1. b.body \in [Slots -> Bodies] /\ j.k \in Slots /\ i \in Slots /\ i # j.k
      BY <1>0, <2>3, <2>4
    <3> HIDE DEF t
    <3> QED BY <2>5, <3>1, MovedKeeps
  <2> QED BY <2>2, <2>6 DEF t
<1>4. CASE j \in MoveJobs
  <2>1. OwnSlot(j) = j.k
    BY <1>4, JobKinds DEF OwnSlot, Moving
  <2>2. bd = HalfMoved(b, j) /\ Loops(b, j) /\ j.i < j.ix.total
    BY <1>4 DEF Progress, DeleteProgress
  <2>3. /\ j.k \in Slots /\ j.k \in Int /\ j.i \in Int /\ j.k >= 0 /\ j.k < j.i
        /\ j.i - 1 \in Int /\ j.i - 1 <= MaxFiles - 1 /\ j.i \in Slots
    BY <1>4, <2>2, LoopsSlots
  <2> DEFINE m == MovedOf(b.body, j.k, j.i - 1)
  <2>4. m \in [Slots -> Bodies]
    BY <1>0, <2>3, MovedType
  <2>5. PICK p \in Slots \cap {i, i-1} : m[p] = b.body[i] /\ (p = i \/ i <= j.i - 1)
    BY <1>0, <2>1, <2>3, MovedKeeps
  <2>6. p # j.i - 1
    <3>1. i \in Int /\ p \in Int
      BY <1>0, StepsAssumption DEF Slots, Atomic!Slots
    <3>2. ASSUME p = j.i - 1 PROVE FALSE
      <4>1. i = j.i - 1
        BY <2>3, <2>5, <3>1, <3>2
      <4>2. j.k < i
        BY <2>1, <2>3, <4>1
      <4>3. m[p] = NoFile
        <5>1. j.i - 1 > j.k /\ ~ (p < j.i - 1) /\ j.k < p
          BY <2>3, <3>1, <3>2, <4>1, <4>2
        <5> QED BY <2>3, <3>2, <5>1 DEF MovedOf
      <4> QED BY <2>5, <4>3, StepsAssumption
    <3> QED BY <3>2
  <2>7. bd[p] = m[p]
    BY <2>2, <2>4, <2>6 DEF HalfMoved
  <2> QED BY <2>5, <2>7
<1>5. CASE j \in DropJobs
  <2>1. OwnSlot(j) = j.k /\ j.k \in Slots
    BY <1>5, JobKinds DEF OwnSlot, Rewriting, DropJobs
  <2>2. PICK r \in ReadOf(b.index) : bd = MovedOf(b.body, j.k, r.total - 1)
    BY <1>5 DEF Progress, DeleteProgress, Drops
  <2>3. r.total - 1 \in Int
    <3>1. r \in Counted
      BY ReadOfTypes DEF Begun
    <3>2. r.total \in Int
      BY <3>1, StepsAssumption DEF Counted, Indices
    <3> QED BY <3>2
  <2>4. i # j.k
    BY <2>1
  <2> DEFINE t == r.total - 1
  <2>5. t \in Int
    BY <2>3
  <2> HIDE DEF t
  <2>6. PICK p \in Slots \cap {i, i-1} :
            MovedOf(b.body, j.k, t)[p] = b.body[i] /\ (p = i \/ i <= t)
    BY <1>0, <2>1, <2>4, <2>5, MovedKeeps
  <2> QED BY <2>2, <2>6 DEF t
<1> QED BY <1>1, <1>2, <1>3, <1>4, <1>5 DEF Jobs

(***************************************************************************)
(* For one session, whatever it asks for and however often its process     *)
(* ends, each content that is not the running handler's own is complete in *)
(* its slot or in the one before (data.cpp:126-161, 193-206).              *)
(***************************************************************************)
THEOREM CrashLosesOwnBodyOnly ==
    ASSUME NEW CONSTANT s, Session = {s}
    PROVE  HSpec => []OtherBodiesSurvive
<1>1. TypeInv /\ AloneInv => OtherBodiesSurvive
  <2> SUFFICES ASSUME TypeInv, AloneInv, job[s] # Idle,
                      NEW i \in Slots \ {OwnSlot(job[s])},
                      began[s].body[i] \in Content
               PROVE  \E j \in Slots \cap {i, i-1} : body[j] = began[s].body[i]
    BY DEF OtherBodiesSurvive
  <2>1. Begun(began[s]) /\ Progress(began[s], job[s], index, body) /\ job[s] \in Jobs
    BY DEF AloneInv, TypeInv
  <2> QED BY <2>1, ProgressKeeps
<1> QED BY <1>1, TypeInvAlways, AloneInvAlways, PTL

-----------------------------------------------------------------------------
(* One handler at a time: FileStore, of the files that are shown *)

\* Alone computes with the index as FileStoreSteps does.
LEMMA AloneOps ==
    /\ \A t, ns : Alone!Index(t, ns) = Index(t, ns)
    /\ \A ix : Alone!NamesRead(ix) = NamesRead(ix)
    /\ \A ix : Alone!ReadFails(ix) = ReadFails(ix)
    /\ \A ns, n : Alone!Hits(ns, n) = Hits(ns, n)
    /\ \A ns, n : Alone!GetIndex(ns, n) = GetIndex(ns, n)
    /\ \A ns, n : Alone!Without(ns, n) = Without(ns, n)
    /\ Alone!NoIndex = NoIndex /\ Alone!Slots = Slots
    /\ Alone!Closed = Atomic!Closed /\ Alone!NoReply = Atomic!NoReply
    /\ \A c : Alone!FileReply(c) = Atomic!FileReply(c)
    /\ \A ns : Alone!ListReply(ns) = Atomic!ListReply(ns)
<1>1. \A t, ns : Alone!Index(t, ns) = Index(t, ns)
  BY DEF Alone!Index, Index
<1>2. \A ix : Alone!NamesRead(ix) = NamesRead(ix)
  BY DEF Alone!NamesRead, NamesRead
<1>3. \A ix : Alone!ReadFails(ix) = ReadFails(ix)
  BY DEF Alone!ReadFails, ReadFails
<1>4. \A ns, n : Alone!Hits(ns, n) = Hits(ns, n)
  BY DEF Alone!Hits, Hits
<1>5. \A ns, n : Alone!GetIndex(ns, n) = GetIndex(ns, n)
  BY DEF Alone!GetIndex, GetIndex, Alone!Hits, Hits
<1>6. \A ns, n : Alone!Without(ns, n) = Without(ns, n)
  BY DEF Alone!Without, Without
<1>7. Alone!NoIndex = NoIndex /\ Alone!Slots = Slots
  BY DEF Alone!NoIndex, NoIndex, Alone!Slots, Slots, Atomic!Slots
<1>8. /\ Alone!Closed = Atomic!Closed /\ Alone!NoReply = Atomic!NoReply
      /\ \A c : Alone!FileReply(c) = Atomic!FileReply(c)
      /\ \A ns : Alone!ListReply(ns) = Atomic!ListReply(ns)
  BY DEF Alone!Closed, Atomic!Closed, Alone!NoReply, Atomic!NoReply,
         Alone!FileReply, Atomic!FileReply, Alone!ListReply, Atomic!ListReply
<1> QED BY <1>1, <1>2, <1>3, <1>4, <1>5, <1>6, <1>7, <1>8

\* The steps of FileStore, each of them a request the client may send.
LEMMA AloneNext ==
    /\ \A n \in Name, c \in Content : Alone!AddFile(n, c) => Alone!Next
    /\ \A n \in Name : Alone!GetFile(n) => Alone!Next
    /\ Alone!ListFiles => Alone!Next
    /\ \A n \in Name : Alone!DeleteFile(n) => Alone!Next
BY DEF Alone!Next, Alone!Request, Alone!Anyhow

\* With one session the files shown are its own.
LEMMA ShownIs ==
    ASSUME NEW s, Session = {s}
    PROVE  /\ Sole = s
           /\ ShownIndex = IF job[s] = Idle THEN index ELSE began[s].index
           /\ ShownBody = IF job[s] = Idle THEN body ELSE began[s].body
<1>1. Sole = s
  BY DEF Sole
<1> QED BY <1>1 DEF ShownIndex, ShownBody

LEMMA ShownNext ==
    ASSUME NEW s, Session = {s}, job'[s] = Idle
    PROVE  ShownIndex' = index' /\ ShownBody' = body' /\ reply[Sole]' = reply'[s]
<1>1. Sole = s
  BY DEF Sole
<1> QED BY <1>1 DEF ShownIndex, ShownBody

Replies == reply = [t \in Session |-> reply[t]]

LEMMA FinishReply ==
    ASSUME NEW s, Session = {s}, TypeInv, Replies, NEW r, Finish(s, r)
    PROVE  /\ job'[s] = Idle /\ reply'[s] = r
           /\ ShownIndex' = index' /\ ShownBody' = body' /\ reply[Sole]' = r
<1>1. job'[s] = Idle /\ reply'[s] = r
  BY DEF Finish, Replies, TypeInv
<1> QED BY <1>1, ShownNext

\* What a reader of an index that is not blank takes it for.
LEMMA SeenFor ==
    ASSUME NEW x, ShownIndex = x, x # BlankIndex, NEW r \in ReadOf(x)
    PROVE  \E v \in Alone!Seen :
              /\ v.total = r.total /\ v.names = r.names
              /\ NamesRead(v) = NamesRead(r)
              /\ ReadFails(v) = ReadFails(r)
<1>1. CASE x.exists
  BY <1>1 DEF ReadOf, Alone!Seen
<1>2. CASE ~ x.exists
  <2>1. PICK g \in JunkTotals : r = Index(g, <<>>)
    BY <1>2 DEF ReadOf
  <2> DEFINE v == [NoIndex EXCEPT !.total = g]
  <2>2. v \in Alone!Seen
    BY <1>2, AloneOps DEF Alone!Seen
  <2>3. v.total = r.total /\ v.names = r.names
    BY <2>1 DEF NoIndex, Index
  <2> HIDE DEF v
  <2>4. NamesRead(v) = NamesRead(r) /\ ReadFails(v) = ReadFails(r)
    BY <2>3 DEF NamesRead, ReadFails
  <2> QED BY <2>2, <2>3, <2>4
<1> QED BY <1>1, <1>2

\* A reader begins: the answer to a list, or the failure of a lookup.
LEMMA IdleAtomic ==
    ASSUME NEW s, Session = {s}, TypeInv, AloneInv, Replies, Whole,
           Start(s), job'[s] = Idle
    PROVE  Alone!Next
<1>0. /\ s \in Session /\ job \in [Session -> Jobs] /\ job[s] = Idle
      /\ index \in Found /\ Present(index)
  BY DEF TypeInv, AloneInv, Start, StartAdd, StartGet, List, StartDelete, Ask
<1>1. ShownIndex = index /\ ShownBody = body /\ index # BlankIndex
  BY <1>0, ShownIs DEF Whole
<1>2. ReadOf(index) = Read
  BY DEF ReadOf, Read
<1>3. (IF index.exists THEN Read ELSE {NoIndex}) = {index}
  BY <1>0, <1>1 DEF Read, Present
<1>4. ASSUME NEW n \in Name, NEW c \in Content, StartAdd(s, n, c)
      PROVE  Alone!Next
  <2>1. /\ index.total < MaxFiles
        /\ \/ Go(s, [at |-> "truncate_index", op |-> "add", n |-> n, c |-> c,
                     ix |-> IndexWith(index, n)])
           \/ ReadFails(index) /\ Throw(s)
    BY <1>3, <1>4, Zenon DEF StartAdd
  <2>2. ReadFails(index) /\ Throw(s) /\ index' = index /\ body' = body
    <3>1. ReadFails(index) /\ Throw(s)
      BY <1>0, <2>1 DEF Go, Idle
    <3>2. index.exists
      BY <1>0, <3>1 DEF ReadFails, Present, NoIndex
    <3>3. /\ index' = IF index.exists THEN index ELSE BlankIndex
          /\ body' = body
      BY <1>4, Zenon DEF StartAdd
    <3> QED BY <3>1, <3>2, <3>3
  <2>3. ShownIndex' = index /\ ShownBody' = body /\ reply[Sole]' = Atomic!Closed
    BY <2>2, FinishReply DEF Throw
  <2>4. Alone!AddFile(n, c)
    BY <1>1, <2>1, <2>2, <2>3, AloneOps DEF Alone!AddFile, Alone!Throw
  <2> QED BY <2>4, AloneNext
<1>5. ASSUME NEW n \in Name, StartGet(s, n)
      PROVE  Alone!Next
  <2>1. PICK ix \in Read :
            \/ Go(s, [at |-> "read_body", n |-> n, slot |-> Slot(ix, n)])
            \/ LookupFails(ix, n) /\ Throw(s)
    BY <1>5, Zenon DEF StartGet
  <2>2. LookupFails(ix, n) /\ Throw(s)
    BY <1>0, <2>1 DEF Go, Idle
  <2>3. index' = index /\ body' = body
    BY <1>5, Zenon DEF StartGet
  <2>4. ShownIndex' = index /\ ShownBody' = body /\ reply[Sole]' = Atomic!Closed
    BY <2>2, <2>3, FinishReply DEF Throw
  <2>5. PICK v \in Alone!Seen :
            /\ v.total = ix.total /\ v.names = ix.names
            /\ NamesRead(v) = NamesRead(ix)
            /\ ReadFails(v) = ReadFails(ix)
    BY <1>1, <1>2, <2>1, SeenFor
  <2>6. Alone!Closed \in
          LET i == Alone!GetIndex(Alone!NamesRead(v), n)
          IN  Alone!BodyReplies(i) \union
                (IF i \notin 0 .. Len(v.names)-1 /\ Alone!ReadFails(v)
                 THEN {Alone!Closed} ELSE {})
    BY <2>2, <2>5, AloneOps DEF LookupFails, Slot
  <2>7. Alone!Closed \in Alone!GetReplies(n)
    BY <2>6 DEF Alone!GetReplies
  <2>8. Alone!GetFile(n)
    BY <1>1, <2>4, <2>7, AloneOps DEF Alone!GetFile
  <2> QED BY <2>8, AloneNext
<1>6. ASSUME List(s) PROVE Alone!Next
  <2>1. \/ Finish(s, Atomic!ListReply(NamesRead(index)))
        \/ Hits(NamesRead(index), Junk) # {} /\ Throw(s)
    BY <1>3, <1>6, Zenon DEF List
  <2>2. index' = index /\ body' = body
    BY <1>6 DEF List
  <2>3. PICK r \in Alone!ListReplies : Finish(s, r)
    BY <1>1, <2>1, AloneOps DEF Alone!ListReplies, Throw
  <2>4. ShownIndex' = index /\ ShownBody' = body /\ reply[Sole]' = r
    BY <2>2, <2>3, FinishReply
  <2>5. Alone!ListFiles
    BY <1>1, <2>3, <2>4 DEF Alone!ListFiles
  <2> QED BY <2>5, AloneNext
<1>7. ASSUME NEW n \in Name, StartDelete(s, n)
      PROVE  Alone!Next
  <2>1. PICK ix \in Read :
            /\ ix.total > MinTotal
            /\ \/ Go(s, [at |-> "next", n |-> n, ix |-> ix, k |-> Slot(ix, n),
                         i |-> IF Slot(ix, n) = -1 THEN ix.total ELSE Slot(ix, n) + 1])
               \/ Slot(ix, n) = -1 /\ ReadFails(ix) /\ Throw(s)
    BY <1>7, Zenon DEF StartDelete
  <2>2. Slot(ix, n) = -1 /\ ReadFails(ix) /\ Throw(s)
    BY <1>0, <2>1 DEF Go, Idle
  <2>3. index' = index /\ body' = body
    BY <1>7, Zenon DEF StartDelete
  <2>4. ShownIndex' = index /\ ShownBody' = body /\ reply[Sole]' = Atomic!Closed
    BY <2>2, <2>3, FinishReply DEF Throw
  <2>5. PICK v \in Alone!Seen :
            /\ v.total = ix.total /\ v.names = ix.names
            /\ NamesRead(v) = NamesRead(ix)
            /\ ReadFails(v) = ReadFails(ix)
    BY <1>1, <1>2, <2>1, SeenFor
  <2>6. Len(v.names) \in Nat /\ v.total \in Int /\ Len(v.names) < v.total
    <3>1. ix \in Counted
      BY <1>0, <1>2, <2>1, ReadOfTypes
    <3>2. ix.total \in Int /\ ix.names \in IndexNames
      BY <3>1, StepsAssumption DEF Counted, Indices
    <3>3. Len(ix.names) \in Nat
      BY <3>2 DEF IndexNames
    <3> QED BY <2>2, <2>5, <3>2, <3>3 DEF ReadFails
  <2>7. Alone!DeleteMeetsEnd(v, -1)
    <3>1. Len(v.names) \in Len(v.names) .. v.total-1
      BY <2>6
    <3>2. Alone!CanMove(-1, Len(v.names)) /\ Alone!Moved(-1, Len(v.names)) = body
      BY <1>1 DEF Alone!CanMove, Alone!Moved
    <3> QED BY <1>1, <2>4, <3>1, <3>2, AloneOps DEF Alone!DeleteMeetsEnd, Alone!Throw
  <2>8. Alone!DeleteFile(n)
    <3>1. Alone!GetIndex(Alone!NamesRead(v), n) = -1 /\ v.total > MinTotal
      BY <2>1, <2>2, <2>5, AloneOps DEF Slot
    <3> QED BY <2>7, <3>1 DEF Alone!DeleteFile
  <2> QED BY <2>8, AloneNext
<1> QED BY <1>4, <1>5, <1>6, <1>7 DEF Start

\* An upload ends: its body goes where AddFile puts it.
LEMMA AddAtomic ==
    ASSUME NEW s, Session = {s}, TypeInv, AloneInv, Replies, Whole,
           WriteBody(s) \/ AddLookup(s), job'[s] = Idle
    PROVE  Alone!Next
<1> DEFINE j == job[s]
           b == began[s]
           x == b.index
<1>0. /\ s \in Session /\ job \in [Session -> Jobs] /\ body \in [Slots -> Bodies]
      /\ j # Idle
  BY DEF TypeInv, WriteBody, AddLookup, At, Idle
<1>1. Begun(b) /\ Progress(b, j, index, body)
  BY <1>0 DEF AloneInv
<1>2. ShownIndex = x /\ ShownBody = b.body /\ x # BlankIndex
      /\ b.body \in [Slots -> Bodies]
  BY <1>0, <1>1, ShownIs DEF Whole, Begun
<1>3. ReadToAdd(x) = {x}
  BY <1>1, <1>2 DEF Begun, Present, ReadToAdd, ReadOf
<1>4. CASE WriteBody(s)
  <2>1. j \in UploadJobs /\ j.at = "write_body" /\ j.n \in Name /\ j.c \in Content
    BY <1>0, <1>4, JobAt DEF WriteBody, At, Uploading, UploadJobs
  <2>2. /\ Adds(x, j.n, index)
        /\ j.slot = GetIndex(index.names, j.n)
        /\ body = [b.body EXCEPT ![j.slot] = Blank]
    BY <1>1, <2>1 DEF Progress, AddProgress
  <2>3. x.total < MaxFiles /\ index = IndexWith(x, j.n)
    BY <1>3, <2>2 DEF Adds
  <2>4. index' = index /\ body' = [body EXCEPT ![j.slot] = j.c]
        /\ Finish(s, Atomic!NoReply)
    BY <1>4 DEF WriteBody
  <2>5. ShownIndex' = index /\ ShownBody' = body' /\ reply[Sole]' = Atomic!NoReply
    BY <2>4, FinishReply
  <2>6. body' = [b.body EXCEPT ![j.slot] = j.c]
    <3> HIDE DEF j
    <3> QED BY <1>2, <2>2, <2>4
  <2>7. index = Alone!Index(x.total + 1, Alone!NamesAfterAdd(j.n))
        /\ index.names = Alone!NamesAfterAdd(j.n)
    <3> HIDE DEF j, x
    <3> QED BY <1>2, <2>3, AloneOps DEF IndexWith, Index, Alone!NamesAfterAdd
  <2>8. Alone!AddFile(j.n, j.c)
    <3>1. /\ ShownIndex.total < MaxFiles
          /\ ShownIndex' = Alone!Index(ShownIndex.total + 1, Alone!NamesAfterAdd(j.n))
      BY <1>2, <2>3, <2>5, <2>7
    <3>2. j.slot = Alone!GetIndex(Alone!NamesAfterAdd(j.n), j.n)
      BY <2>2, <2>7, AloneOps
    <3>3. ShownBody' = [ShownBody EXCEPT
                          ![Alone!GetIndex(Alone!NamesAfterAdd(j.n), j.n)] = j.c]
      BY <1>2, <2>5, <2>6, <3>2
    <3>4. reply[Sole]' = Alone!NoReply
      BY <2>5, AloneOps
    <3> HIDE DEF j
    <3> QED BY <3>1, <3>3, <3>4 DEF Alone!AddFile
  <2> QED BY <2>1, <2>8, AloneNext
<1>5. CASE AddLookup(s)
  <2>1. j \in LookupJobs
    BY <1>5, JobAt DEF AddLookup
  <2>2. Adds(x, j.n, index)
    BY <1>1, <2>1 DEF Progress, AddProgress
  <2>3. ReadOf(index) = {index} /\ ~ LookupFails(index, j.n)
    <3>1. j.n \in Name
      BY <2>1 DEF LookupJobs
    <3> HIDE DEF j
    <3> QED BY <1>1, <2>2, <3>1, AddedIsRead DEF Begun
  <2>4. PICK ix \in Read :
            \/ Go(s, [at |-> "open_body", n |-> j.n,
                      slot |-> Slot(ix, j.n), c |-> j.c])
            \/ LookupFails(ix, j.n) /\ Throw(s)
    BY <1>5, Zenon DEF AddLookup
  <2>5. ix = index
    BY <2>3, <2>4 DEF Read, ReadOf
  <2>6. LookupFails(index, j.n)
    BY <1>0, <2>4, <2>5 DEF Go, Idle
  <2> QED BY <2>3, <2>6
<1> QED BY <1>4, <1>5

\* A download ends: what it found is what GetFile answers.
LEMMA GetAtomic ==
    ASSUME NEW s, Session = {s}, TypeInv, AloneInv, Replies, Whole, ReadBody(s)
    PROVE  Alone!Next
<1> DEFINE j == job[s]
           b == began[s]
           x == b.index
<1>0. /\ s \in Session /\ job \in [Session -> Jobs] /\ body \in [Slots -> Bodies]
      /\ j # Idle /\ j \in ReadJobs /\ j.slot \in Slots /\ j.n \in Name
  BY JobAt DEF TypeInv, ReadBody, At, Idle, ReadJobs
<1>1. Begun(b) /\ Progress(b, j, index, body)
  BY <1>0 DEF AloneInv
<1>2. ShownIndex = x /\ ShownBody = b.body /\ x # BlankIndex
      /\ \A i \in Slots : b.body[i] # Blank
  BY <1>0, <1>1, ShownIs DEF Whole, Begun
<1>3. /\ index = x /\ body = b.body
      /\ \E r \in ReadOf(x) : j.slot = Slot(r, j.n)
  BY <1>0, <1>1 DEF Progress, GetProgress
<1>4. PICK r \in ReadOf(x) : j.slot = Slot(r, j.n)
  BY <1>3
<1>5. PICK v \in Alone!Seen :
          /\ v.total = r.total /\ v.names = r.names
          /\ NamesRead(v) = NamesRead(r)
          /\ ReadFails(v) = ReadFails(r)
  BY <1>2, <1>4, SeenFor
<1>6. index' = index /\ body' = body
  BY DEF ReadBody
<1>7. PICK a : Finish(s, a) /\ a \in Alone!BodyReplies(j.slot)
  <2>1. body[j.slot] \in Content \union {NoFile}
    BY <1>0, <1>2, <1>3 DEF Bodies
  <2>2. CASE body[j.slot] \in Content
    <3>1. Finish(s, Atomic!FileReply(body[j.slot]))
      BY <2>2 DEF ReadBody
    <3>2. body[j.slot] # NoFile
      BY <2>2, StepsAssumption
    <3>3. Atomic!FileReply(body[j.slot]) \in Alone!BodyReplies(j.slot)
      <4> HIDE DEF j
      <4> QED BY <1>2, <1>3, <3>2, AloneOps DEF Alone!BodyReplies
    <3> QED BY <3>1, <3>3
  <2>3. CASE body[j.slot] = NoFile
    <3>1. NoFile \notin Content
      BY StepsAssumption
    <3>2. PICK a \in {Atomic!Closed, Atomic!FileReply(Garbage)} : Finish(s, a)
      BY <2>3, <3>1 DEF ReadBody
    <3>3. a \in Alone!BodyReplies(j.slot)
      <4> HIDE DEF j
      <4> QED BY <1>2, <1>3, <2>3, <3>2, AloneOps DEF Alone!BodyReplies
    <3> QED BY <3>2, <3>3
  <2> QED BY <2>1, <2>2, <2>3
<1>8. ShownIndex' = x /\ ShownBody' = b.body /\ reply[Sole]' = a
  BY <1>3, <1>6, <1>7, FinishReply
<1>9. a \in Alone!GetReplies(j.n)
  <2>1. j.slot = Alone!GetIndex(Alone!NamesRead(v), j.n)
    BY <1>4, <1>5, AloneOps DEF Slot
  <2> HIDE DEF j
  <2>2. a \in LET i == Alone!GetIndex(Alone!NamesRead(v), j.n)
              IN  Alone!BodyReplies(i) \union
                    (IF i \notin 0 .. Len(v.names)-1 /\ Alone!ReadFails(v)
                     THEN {Alone!Closed} ELSE {})
    BY <1>7, <2>1
  <2> QED BY <2>2 DEF Alone!GetReplies
<1>10. Alone!GetFile(j.n)
  BY <1>2, <1>8, <1>9 DEF Alone!GetFile
<1> QED BY <1>0, <1>10, AloneNext

\* Moved and CanMove of the files shown.
LEMMA AloneMoved ==
    ASSUME NEW d, ShownBody = d, NEW k, NEW j
    PROVE  Alone!Moved(k, j) = MovedOf(d, k, j) /\ Alone!CanMove(k, j) = CanMoveOf(d, k, j)
BY AloneOps DEF Alone!Moved, Alone!Shifted, Alone!CanMove, MovedOf, CanMoveOf

\* A delete ends: with its index written,
LEMMA DeletedAtomic ==
    ASSUME NEW s, Session = {s}, TypeInv, AloneInv, Replies, Whole,
           WriteIndex(s), job'[s] = Idle
    PROVE  Alone!Next
<1> DEFINE j == job[s]
           b == began[s]
           x == b.index
<1>0. /\ s \in Session /\ job \in [Session -> Jobs]
      /\ j # Idle /\ j.at = "write_index" /\ j \in AddJobs \union DropJobs
  BY JobAt DEF TypeInv, WriteIndex, At, Idle, Rewriting
<1>1. j.op # "add"
  BY <1>0 DEF WriteIndex, Go, Idle
<1>2. j \in DropJobs /\ j.ix \in Counted
  BY <1>0, <1>1 DEF AddJobs, DropJobs
<1>3. Begun(b) /\ Progress(b, j, index, body)
  BY <1>0 DEF AloneInv
<1>4. index = BlankIndex /\ Drops(b, j, body)
  BY <1>0, <1>2, <1>3 DEF Progress, DeleteProgress
<1>5. ShownIndex = x /\ ShownBody = b.body /\ x # BlankIndex
  BY <1>0, ShownIs DEF Whole
<1>6. PICK r \in ReadOf(x), n \in Name :
          /\ r.total > MinTotal
          /\ j.k = Slot(r, n)
          /\ j.ix = Index(r.total - 1, Without(NamesRead(r), n))
          /\ CanMoveOf(b.body, j.k, r.total - 1)
          /\ body = MovedOf(b.body, j.k, r.total - 1)
  BY <1>4, Zenon DEF Drops
<1>7. PICK v \in Alone!Seen :
          /\ v.total = r.total /\ v.names = r.names
          /\ NamesRead(v) = NamesRead(r)
          /\ ReadFails(v) = ReadFails(r)
  BY <1>5, <1>6, SeenFor
<1>8. index' = j.ix /\ body' = body /\ Finish(s, Atomic!NoReply)
  BY <1>1, <1>2, <1>4, OverlayBlank DEF WriteIndex
<1>9. ShownIndex' = j.ix /\ ShownBody' = body /\ reply[Sole]' = Atomic!NoReply
  BY <1>8, FinishReply
<1> HIDE DEF j
<1>10. Alone!Deleted(v, Alone!NamesRead(v), j.k, n)
  <2>1. Alone!CanMove(j.k, v.total - 1) /\ body = Alone!Moved(j.k, v.total - 1)
    BY <1>5, <1>6, <1>7, AloneMoved
  <2>2. j.ix = Alone!Index(v.total - 1, Alone!Without(Alone!NamesRead(v), n))
    BY <1>6, <1>7, AloneOps
  <2> QED BY <1>9, <2>1, <2>2, AloneOps DEF Alone!Deleted
<1>11. Alone!DeleteFile(n)
  <2>1. j.k = Alone!GetIndex(Alone!NamesRead(v), n) /\ v.total > MinTotal
    BY <1>6, <1>7, AloneOps DEF Slot
  <2> QED BY <1>10, <2>1 DEF Alone!DeleteFile
<1> QED BY <1>11, AloneNext

\* or at a slot without a body,
LEMMA HoleAtomic ==
    ASSUME NEW s, Session = {s}, TypeInv, AloneInv, Replies, Whole,
           ReadSource(s), job'[s] = Idle
    PROVE  Alone!Next
<1> DEFINE j == job[s]
           b == began[s]
           x == b.index
<1>0. /\ s \in Session /\ job \in [Session -> Jobs]
      /\ j # Idle /\ j \in LoopJobs /\ j.i < j.ix.total
  BY JobAt DEF TypeInv, ReadSource, At, Idle
<1>1. body[j.i] = NoFile /\ Throw(s) /\ index' = index /\ body' = body
  BY <1>0 DEF ReadSource, Go, Idle
<1>2. Begun(b) /\ Progress(b, j, index, body)
  BY <1>0 DEF AloneInv
<1>3. index = x /\ Loops(b, j) /\ body = MovedOf(b.body, j.k, j.i - 1)
  BY <1>0, <1>2 DEF Progress, DeleteProgress
<1>4. ShownIndex = x /\ ShownBody = b.body /\ x # BlankIndex
  BY <1>0, ShownIs DEF Whole
<1>5. /\ j.ix \in ReadOf(x) /\ j.ix.total > MinTotal /\ j.k = Slot(j.ix, j.n)
      /\ CanMoveOf(b.body, j.k, j.i - 1)
  BY <1>3 DEF Loops
<1>6. PICK v \in Alone!Seen :
          /\ v.total = j.ix.total /\ v.names = j.ix.names
          /\ NamesRead(v) = NamesRead(j.ix)
          /\ ReadFails(v) = ReadFails(j.ix)
  BY <1>4, <1>5, SeenFor
<1>7. ShownIndex' = x /\ ShownBody' = body /\ reply[Sole]' = Atomic!Closed
  BY <1>1, <1>3, FinishReply DEF Throw
<1>8. /\ j.k \in Int /\ j.k >= 0 /\ j.k < j.i /\ j.i \in Slots /\ j.i \in Int
      /\ j.ix.total \in Int /\ j.n \in Name
  BY <1>0, <1>2, <1>3, LoopsSlots
<1>9. b.body[j.i] = NoFile
  <2>1. j.i - 1 \in Int /\ j.i > j.i - 1 /\ j.k >= -1 /\ b.body \in [Slots -> Bodies]
    BY <1>2, <1>8 DEF Begun
  <2> HIDE DEF j
  <2> QED BY <1>1, <1>3, <1>8, <2>1, MovedOutside
<1> HIDE DEF j
<1>10. Alone!DeleteMeetsHole(v, j.k)
  <2>1. j.i \in j.k+1 .. v.total-1
    BY <1>0, <1>6, <1>8
  <2>2. Alone!CanMove(j.k, j.i - 1) /\ body = Alone!Moved(j.k, j.i - 1)
    BY <1>3, <1>4, <1>5, AloneMoved
  <2> QED BY <1>4, <1>7, <1>8, <1>9, <2>1, <2>2, AloneOps
          DEF Alone!DeleteMeetsHole, Alone!Throw
<1>11. Alone!DeleteFile(j.n)
  <2>1. j.k = Alone!GetIndex(Alone!NamesRead(v), j.n) /\ v.total > MinTotal
    BY <1>5, <1>6, AloneOps DEF Slot
  <2> QED BY <1>10, <2>1 DEF Alone!DeleteFile
<1> QED BY <1>8, <1>11, AloneNext

\* or at one whose name is past the end of the index.
LEMMA EndAtomic ==
    ASSUME NEW s, Session = {s}, TypeInv, AloneInv, Replies, Whole,
           RemoveSource(s), job'[s] = Idle
    PROVE  Alone!Next
<1> DEFINE j == job[s]
           b == began[s]
           x == b.index
           m == MovedOf(b.body, j.k, j.i - 1)
<1>0. /\ s \in Session /\ job \in [Session -> Jobs]
      /\ j # Idle /\ j \in MoveJobs /\ j.at = "remove_source"
  BY JobAt DEF TypeInv, RemoveSource, At, Idle, Moving
<1>1. /\ j.i >= Len(j.ix.names) /\ Throw(s)
      /\ index' = index /\ body' = [body EXCEPT ![j.i] = NoFile]
  BY <1>0 DEF RemoveSource, Go, Idle
<1>2. Begun(b) /\ Progress(b, j, index, body)
  BY <1>0 DEF AloneInv
<1>3. /\ index = x /\ Loops(b, j) /\ body = [m EXCEPT ![j.i - 1] = j.buf]
      /\ j.i < j.ix.total /\ b.body[j.i] = j.buf
  BY <1>0, <1>2 DEF Progress, DeleteProgress, HalfMoved
<1>4. ShownIndex = x /\ ShownBody = b.body /\ x # BlankIndex
  BY <1>0, ShownIs DEF Whole
<1>5. /\ j.ix \in ReadOf(x) /\ j.ix.total > MinTotal /\ j.k = Slot(j.ix, j.n)
      /\ CanMoveOf(b.body, j.k, j.i - 1)
  BY <1>3 DEF Loops
<1>6. PICK v \in Alone!Seen :
          /\ v.total = j.ix.total /\ v.names = j.ix.names
          /\ NamesRead(v) = NamesRead(j.ix)
          /\ ReadFails(v) = ReadFails(j.ix)
  BY <1>4, <1>5, SeenFor
<1>7. /\ ShownIndex' = x /\ ShownBody' = body' /\ reply[Sole]' = Atomic!Closed
  BY <1>1, <1>3, FinishReply DEF Throw
<1>8. /\ j.k \in Int /\ j.k >= 0 /\ j.k < j.i /\ j.k \in Slots /\ j.i \in Slots
      /\ j.i \in Int /\ j.ix.total \in Int /\ j.n \in Name /\ j.ix \in Counted
  BY <1>0, <1>2, <1>3, LoopsSlots
<1>9. body' = MovedOf(b.body, j.k, j.i)
  <2>1. [[m EXCEPT ![j.i - 1] = b.body[j.i]] EXCEPT ![j.i] = NoFile]
           = MovedOf(b.body, j.k, j.i)
    <3>1. b.body \in [Slots -> Bodies]
      BY <1>2 DEF Begun
    <3> HIDE DEF j
    <3> QED BY <1>8, <3>1, MovedOneMore, Zenon
  <2>2. body' = [[m EXCEPT ![j.i - 1] = b.body[j.i]] EXCEPT ![j.i] = NoFile]
    <3> HIDE DEF j, m
    <3> QED BY <1>1, <1>3
  <2> HIDE DEF j, m
  <2> QED BY <2>1, <2>2
<1>10. CanMoveOf(b.body, j.k, j.i)
  <2>1. j.buf # NoFile
    BY <1>0, StepsAssumption DEF MoveJobs
  <2> HIDE DEF j
  <2>2. \A p \in j.k+1 .. j.i : p \in j.k+1 .. j.i-1 \/ p = j.i
    BY <1>8
  <2> QED BY <1>3, <1>5, <1>8, <2>1, <2>2 DEF CanMoveOf
<1> HIDE DEF j
<1>11. Alone!DeleteMeetsEnd(v, j.k)
  <2>1. j.i \in Len(v.names) .. v.total-1
    <3>1. Len(v.names) \in Nat
      BY <1>6, <1>8 DEF Counted, Indices, IndexNames
    <3> QED BY <1>1, <1>3, <1>6, <1>8, <3>1
  <2>2. Alone!CanMove(j.k, j.i) /\ body' = Alone!Moved(j.k, j.i)
    BY <1>4, <1>9, <1>10, AloneMoved
  <2> QED BY <1>4, <1>7, <2>1, <2>2, AloneOps DEF Alone!DeleteMeetsEnd, Alone!Throw
<1>12. Alone!DeleteFile(j.n)
  <2>1. j.k = Alone!GetIndex(Alone!NamesRead(v), j.n) /\ v.total > MinTotal
    BY <1>5, <1>6, AloneOps DEF Slot
  <2> QED BY <1>11, <2>1 DEF Alone!DeleteFile
<1> QED BY <1>8, <1>12, AloneNext

\* Until the handler ends nothing is seen to change.
LEMMA BusyShown ==
    ASSUME NEW s, Session = {s}, TypeInv, HNext, job'[s] # Idle
    PROVE  UNCHANGED shown
<1>0. s \in Session /\ job \in [Session -> Jobs] /\ Sole = s
  BY DEF TypeInv, Sole
<1>1. Start(s) \/ Continue(s) \/ Crash
  BY DEF HNext, Next
<1>2. ~ Crash
  BY <1>0 DEF Crash
<1>3. \A r : ~ Finish(s, r)
  BY <1>0 DEF Finish
<1>4. Continue(s) => reply' = reply
  BY <1>3 DEF Continue, TruncateIndex, WriteIndex, AddLookup, OpenBody, WriteBody,
         ReadBody, ReadSource, OpenTarget, WriteTarget, RemoveSource, EndLoop,
         Go, Throw
<1>5. Start(s) => reply' = reply /\ job[s] = Idle
  <2>1. ASSUME NEW n \in Name, NEW c \in Content, StartAdd(s, n, c)
        PROVE  reply' = reply /\ job[s] = Idle
    BY <1>3, <2>1 DEF StartAdd, Go, Throw, Ask
  <2>2. ASSUME NEW n \in Name, StartGet(s, n)
        PROVE  reply' = reply /\ job[s] = Idle
    BY <1>3, <2>2 DEF StartGet, Go, Throw, Ask
  <2>3. ASSUME NEW n \in Name, StartDelete(s, n)
        PROVE  reply' = reply /\ job[s] = Idle
    <3>1. PICK ix \in Read :
              \/ Go(s, [at |-> "next", n |-> n, ix |-> ix, k |-> Slot(ix, n),
                        i |-> IF Slot(ix, n) = -1 THEN ix.total ELSE Slot(ix, n) + 1])
              \/ Throw(s)
      BY <2>3, Zenon DEF StartDelete
    <3> QED BY <1>3, <2>3, <3>1 DEF StartDelete, Go, Throw, Ask
  <2>4. ~ List(s)
    BY <1>3 DEF List, Throw
  <2> QED BY <2>1, <2>2, <2>3, <2>4 DEF Start
<1>6. began'[s] = IF job[s] = Idle THEN [index |-> index, body |-> body]
                  ELSE began[s]
  BY <1>0, BeganStep
<1>7. ShownIndex' = ShownIndex /\ ShownBody' = ShownBody
  BY <1>0, <1>6 DEF ShownIndex, ShownBody
<1> QED BY <1>1, <1>2, <1>4, <1>5, <1>7 DEF shown

LEMMA AtomicStep ==
    ASSUME NEW s, Session = {s}, TypeInv, AloneInv, Replies, HNext, Whole
    PROVE  Alone!Next \/ Crash \/ UNCHANGED shown
<1>1. Start(s) \/ Continue(s) \/ Crash
  BY DEF HNext, Next
<1>2. CASE job'[s] # Idle
  BY <1>2, BusyShown
<1>3. CASE job'[s] = Idle /\ Start(s)
  BY <1>3, IdleAtomic
<1>4. CASE job'[s] = Idle /\ Continue(s)
  <2>1. s \in Session /\ job \in [Session -> Jobs]
    BY DEF TypeInv
  <2>2. ~ TruncateIndex(s) /\ ~ OpenBody(s) /\ ~ OpenTarget(s) /\ ~ WriteTarget(s)
        /\ ~ EndLoop(s)
    <3>1. \A j : j.at # "idle" => ~ Go(s, j)
      BY <1>4, <2>1 DEF Go, Idle
    <3>2. job[s].at \in Rewriting \union Uploading \union Moving
             => \A p \in {"write_index", "write_body", "write_target", "remove_source"} :
                    [job[s] EXCEPT !.at = p].at = p
      BY <2>1 DEF Jobs, Idle, AddJobs, DropJobs, LookupJobs, UploadJobs, ReadJobs,
             LoopJobs, MoveJobs, Rewriting, Uploading, Moving
    <3> QED BY <3>1, <3>2 DEF TruncateIndex, OpenBody, OpenTarget, WriteTarget, EndLoop,
               At, Rewriting, Uploading, Moving
  <2> QED BY <1>4, <2>2, AddAtomic, GetAtomic, DeletedAtomic, HoleAtomic, EndAtomic
          DEF Continue
<1> QED BY <1>1, <1>2, <1>3, <1>4

LEMMA RepliesAlways == HSpec => []Replies
<1>1. HInit => Replies
  BY DEF HInit, Init, Replies
<1>2. Replies /\ [HNext]_hvars => Replies'
  <2> SUFFICES ASSUME Replies, [HNext]_hvars PROVE Replies'
    OBVIOUS
  <2>1. CASE UNCHANGED hvars
    BY <2>1 DEF Replies, hvars
  <2>2. ASSUME NEW s \in Session, NEW r, Finish(s, r) PROVE Replies'
    BY <2>2 DEF Finish, Replies
  <2>3. CASE reply' = reply
    BY <2>3 DEF Replies
  <2>4. CASE Crash
    BY <2>4 DEF Crash, Replies
  <2>5. ASSUME NEW s \in Session, Continue(s) PROVE Replies'
    BY <2>2, <2>3, <2>5 DEF Continue, TruncateIndex, WriteIndex, AddLookup, OpenBody,
           WriteBody, ReadBody, ReadSource, OpenTarget, WriteTarget, RemoveSource,
           EndLoop, Go, Throw
  <2>6. ASSUME NEW s \in Session, Start(s) PROVE Replies'
    <3>1. ASSUME NEW n \in Name, NEW c \in Content, StartAdd(s, n, c) PROVE Replies'
      BY <2>2, <2>3, <3>1 DEF StartAdd, Go, Throw
    <3>2. ASSUME NEW n \in Name, StartGet(s, n) PROVE Replies'
      BY <2>2, <2>3, <3>2 DEF StartGet, Go, Throw
    <3>3. ASSUME NEW n \in Name, StartDelete(s, n) PROVE Replies'
      <4>1. PICK ix \in Read :
              \/ Go(s, [at |-> "next", n |-> n, ix |-> ix, k |-> Slot(ix, n),
                        i |-> IF Slot(ix, n) = -1 THEN ix.total ELSE Slot(ix, n) + 1])
              \/ Throw(s)
        BY <3>3, Zenon DEF StartDelete
      <4> QED BY <2>2, <2>3, <4>1 DEF Go, Throw
    <3>4. List(s) => Replies'
      BY <2>2 DEF List, Throw
    <3> QED BY <2>6, <3>1, <3>2, <3>3, <3>4 DEF Start
  <2> QED BY <2>1, <2>4, <2>5, <2>6 DEF HNext, Next
<1> QED BY <1>1, <1>2, PTL DEF HSpec

(***************************************************************************)
(* For one session, whatever it asks for, each handler that finds the      *)
(* files whole ends with an outcome of FileStore's action for it, or the   *)
(* process ends; until then the files it began with are what FileStore     *)
(* shows (data.cpp:67-243). Throws halfway and uninitialized reads are     *)
(* among the outcomes.                                                     *)
(***************************************************************************)
THEOREM HandlersAloneAreAtomic ==
    ASSUME NEW CONSTANT s, Session = {s}
    PROVE  HSpec => HandlersAreAtomic
<1>1. HInit => Alone!Init
  <2> SUFFICES ASSUME HInit PROVE Alone!Init
    OBVIOUS
  <2>1. Sole = s /\ job[s] = Idle /\ reply[s] = Atomic!NoReply
    BY DEF Sole, HInit, Init
  <2>2. ShownIndex = index /\ ShownBody = body
    BY <2>1 DEF ShownIndex, ShownBody
  <2> QED BY <2>1, <2>2, AloneOps DEF Alone!Init, HInit, Init
<1>2. TypeInv /\ AloneInv /\ Replies /\ [HNext]_hvars
         => [Whole => Alone!Next \/ Crash \/ UNCHANGED shown]_hvars
  BY AtomicStep
<1> QED BY <1>1, <1>2, TypeInvAlways, AloneInvAlways, RepliesAlways, PTL
        DEF HSpec, HandlersAreAtomic

-----------------------------------------------------------------------------
(* One session uploads, the others read *)

\* The process does not end, nobody deletes, and only w uploads.
OneWriter(w) ==
    /\ w \in Session
    /\ ~ MayCrash
    /\ \A s \in Session : /\ "delete" \notin May[s]
                          /\ "add" \in May[s] => s = w

\* The names on disk, or those w is about to write; j is the job of w.
ListOf(j, x) == IF j.at \in Rewriting THEN j.ix.names ELSE x.names

IndexOK(j, x) ==
    /\ x.names \in Seq(Name)
    /\ ListOf(j, x) \in Seq(Name)
    /\ x = BlankIndex => j.at \in Rewriting
    /\ x # BlankIndex => /\ x.total = Len(x.names)
                         /\ Present(x)
                         /\ j.at \in Rewriting => j.ix.names = Append(x.names, j.n)
    /\ j.at \in Rewriting =>
          LET ns == j.ix.names
          IN  /\ j.ix = Index(Len(ns), ns)
              /\ Len(ns) > 0
              /\ ns[Len(ns)] = j.n
              /\ j.c \in Own[j.n]
              /\ j.at = "write_index" => x = BlankIndex

\* Each slot holds a content of its name.
BodyOK(ns, bd) ==
    /\ bd[-1] = NoFile
    /\ \A i \in Slots : bd[i] \in Content =>
          /\ i \in 0 .. Len(ns)-1
          /\ bd[i] \in Own[ns[i+1]]

HasSlot(ns, j) == j.slot \in 0 .. Len(ns)-1 /\ ns[j.slot + 1] = j.n

JobOK(ns, j) ==
    /\ j.at = "lookup" => j.c \in Own[j.n] /\ Hits(ns, j.n) # {}
    /\ j.at \in Uploading => j.c \in Own[j.n] /\ HasSlot(ns, j)
    /\ j.at = "read_body" => j.slot = -1 \/ HasSlot(ns, j)

Role(w, s, j) ==
    /\ j.at \in Rewriting \union Uploading \union {"lookup"} => s = w
    /\ j.at \in Rewriting => j.op = "add"
    /\ j.at \notin Moving \union {"next"}

ReaderInv(w) ==
    LET ns == ListOf(job[w], index)
    IN  /\ IndexOK(job[w], index)
        /\ BodyOK(ns, body)
        /\ \A s \in Session : JobOK(ns, job[s]) /\ Role(w, s, job[s])

\* A name appended disturbs no slot.
LEMMA AppendKeeps ==
    ASSUME NEW ns \in Seq(Name), NEW n \in Name
    PROVE  /\ \A bd : BodyOK(ns, bd) => BodyOK(Append(ns, n), bd)
           /\ \A j : JobOK(ns, j) => JobOK(Append(ns, n), j)
<1> DEFINE a == Append(ns, n)
<1>1. /\ Len(ns) \in Nat /\ Len(a) = Len(ns) + 1
      /\ \A i \in 0 .. Len(ns)-1 : i \in 0 .. Len(a)-1 /\ a[i+1] = ns[i+1]
  OBVIOUS
<1>2. \A m : Hits(ns, m) # {} => Hits(a, m) # {}
  BY AppendIndex
<1> HIDE DEF a
<1>3. ASSUME NEW bd, BodyOK(ns, bd) PROVE BodyOK(a, bd)
  BY <1>1, <1>3 DEF BodyOK
<1>4. ASSUME NEW j, JobOK(ns, j) PROVE JobOK(a, j)
  <2>1. HasSlot(ns, j) => HasSlot(a, j)
    BY <1>1 DEF HasSlot
  <2> QED BY <1>2, <1>4, <2>1 DEF JobOK
<1> QED BY <1>3, <1>4 DEF a

\* The change of one job, when the list is the same or longer by a name.
LEMMA ReaderFrame ==
    ASSUME TypeInv, NEW w, OneWriter(w), ReaderInv(w),
           NEW s \in Session, NEW j, job' = [job EXCEPT ![s] = j],
           NEW ns, ns = ListOf(job'[w], index'),
           \/ ns = ListOf(job[w], index)
           \/ \E n \in Name : ns = Append(ListOf(job[w], index), n),
           IndexOK(job'[w], index'),
           BodyOK(ListOf(job[w], index), body) => BodyOK(ns, body'),
           JobOK(ns, j), Role(w, s, j)
    PROVE  ReaderInv(w)'
<1> DEFINE l == ListOf(job[w], index)
<1>1. IndexOK(job[w], index) /\ BodyOK(l, body)
      /\ \A t \in Session : JobOK(l, job[t]) /\ Role(w, t, job[t])
  BY DEF ReaderInv
<1>2. l \in Seq(Name)
  BY <1>1 DEF IndexOK
<1> HIDE DEF l
<1>3. \A t \in Session : JobOK(ns, job[t])
  <2>1. CASE ns = l
    BY <1>1, <2>1
  <2>2. ASSUME NEW n \in Name, ns = Append(l, n)
        PROVE  \A t \in Session : JobOK(ns, job[t])
    BY <1>1, <1>2, <2>2, AppendKeeps
  <2> QED BY <2>1, <2>2 DEF l
<1>4. \A t \in Session : JobOK(ns, job'[t]) /\ Role(w, t, job'[t])
  <2> SUFFICES ASSUME NEW t \in Session
               PROVE  JobOK(ns, job'[t]) /\ Role(w, t, job'[t])
    OBVIOUS
  <2>1. CASE t = s
    <3>1. job'[t] = j
      BY <2>1 DEF TypeInv
    <3> QED BY <2>1, <3>1
  <2>2. CASE t # s
    <3>1. job'[t] = job[t]
      BY <2>2 DEF TypeInv
    <3> QED BY <1>1, <1>3, <3>1
  <2> QED BY <2>1, <2>2
<1>5. BodyOK(ns, body')
  BY <1>1 DEF l
<1> QED BY <1>4, <1>5 DEF ReaderInv

\* A step of a handler that leaves the index.
LEMMA ReaderSameIndex ==
    ASSUME TypeInv, NEW w, OneWriter(w), ReaderInv(w),
           NEW s \in Session, job[s].at \notin Rewriting,
           NEW j, job' = [job EXCEPT ![s] = j], j.at \notin Rewriting,
           index' = index,
           LET ns == ListOf(job[w], index)
           IN  /\ BodyOK(ns, body) => BodyOK(ns, body')
               /\ JobOK(ns, j)
               /\ Role(w, s, j)
    PROVE  ReaderInv(w)'
<1>1. w \in Session /\ job \in [Session -> Jobs]
  BY DEF OneWriter, TypeInv
<1>2. job'[w] = IF w = s THEN j ELSE job[w]
  BY <1>1
<1>3. ListOf(job'[w], index') = ListOf(job[w], index)
  BY <1>2 DEF ListOf
<1>4. IndexOK(job'[w], index')
  <2>1. IndexOK(job[w], index)
    BY DEF ReaderInv
  <2>2. CASE w = s
    <3>1. job'[w] = j /\ job[w].at \notin Rewriting
      BY <1>2, <2>2
    <3>2. index # BlankIndex /\ ListOf(j, index) = index.names
      BY <2>1, <3>1 DEF IndexOK, ListOf
    <3> HIDE DEF IndexOK
    <3>3. /\ index.names \in Seq(Name) /\ index.total = Len(index.names)
          /\ Present(index)
      BY <2>1, <3>2 DEF IndexOK
    <3> QED BY <3>1, <3>2, <3>3 DEF IndexOK
  <2>3. CASE w # s
    BY <1>2, <2>1, <2>3
  <2> QED BY <2>2, <2>3
<1> DEFINE ns == ListOf(job[w], index)
<1>5. /\ BodyOK(ns, body) => BodyOK(ns, body')
      /\ JobOK(ns, j)
      /\ Role(w, s, j)
  OBVIOUS
<1>6. ns = ListOf(job'[w], index')
  BY <1>3
<1> HIDE DEF ns
<1> QED BY <1>4, <1>5, <1>6, ReaderFrame DEF ns

\* A handler that ends, or is idle, asks nothing of the list.
LEMMA IdleOK == \A w, s, ns : JobOK(ns, Idle) /\ Role(w, s, Idle) /\ Idle.at \notin Rewriting
BY DEF JobOK, Role, Idle, Rewriting, Uploading, Moving

\* The places of w, and of the others.
LEMMA ReaderJob ==
    ASSUME TypeInv, NEW w, OneWriter(w), ReaderInv(w), NEW s \in Session
    PROVE  /\ IndexOK(job[w], index) /\ BodyOK(ListOf(job[w], index), body)
           /\ JobOK(ListOf(job[w], index), job[s]) /\ Role(w, s, job[s])
           /\ job[s].at \notin Rewriting /\ s = w =>
                 /\ ListOf(job[w], index) = index.names
                 /\ index # BlankIndex
                 /\ index.names \in Seq(Name)
                 /\ index.total = Len(index.names)
                 /\ Present(index)
<1>1. /\ IndexOK(job[w], index) /\ BodyOK(ListOf(job[w], index), body)
      /\ JobOK(ListOf(job[w], index), job[s]) /\ Role(w, s, job[s])
  BY DEF ReaderInv
<1> QED BY <1>1 DEF IndexOK, ListOf

LEMMA ReaderStartAdd ==
    ASSUME TypeInv, NEW w, OneWriter(w), ReaderInv(w), NEW s \in Session,
           NEW n \in Name, NEW c \in Content, StartAdd(s, n, c)
    PROVE  ReaderInv(w)'
<1>1. s = w /\ job[s] = Idle /\ c \in Own[n] /\ job \in [Session -> Jobs]
  BY DEF StartAdd, Ask, OneWriter, TypeInv
<1>2. /\ ListOf(job[w], index) = index.names
      /\ index # BlankIndex
      /\ index.names \in Seq(Name)
      /\ index.total = Len(index.names)
      /\ Present(index)
  BY <1>1, IdleOK, ReaderJob
<1>3. (IF index.exists THEN Read ELSE {NoIndex}) = {index}
  BY <1>2 DEF Present, Read
<1> DEFINE ix == IndexWith(index, n)
           j == [at |-> "truncate_index", op |-> "add", n |-> n, c |-> c, ix |-> ix]
           ns == Append(index.names, n)
<1>4. ix = Index(Len(ns), ns) /\ ns \in Seq(Name) /\ Len(ns) > 0 /\ ns[Len(ns)] = n
  <2>1. NamesRead(index) = index.names /\ index.total >= 0
    BY <1>2, NamesReadAll
  <2>2. Len(ns) = index.total + 1
    BY <1>2
  <2> QED BY <1>2, <2>1, <2>2 DEF IndexWith
<1>5. ~ ReadFails(index)
  BY <1>2 DEF ReadFails
<1>6. Go(s, j)
  BY <1>3, <1>5, Zenon DEF StartAdd
<1>7. job' = [job EXCEPT ![s] = j] /\ job'[w] = j
  BY <1>1, <1>6 DEF Go
<1>8. /\ j.at = "truncate_index" /\ j.op = "add" /\ j.n = n /\ j.c = c /\ j.ix = ix
      /\ ix.names = ns
  BY <1>4 DEF Index
<1>9. body' = body /\ index' = IF index.exists THEN index ELSE BlankIndex
  BY Zenon DEF StartAdd
<1> HIDE DEF j, ix
<1>10. ListOf(j, index') = ns
  BY <1>8 DEF ListOf, Rewriting
<1>11. IndexOK(j, index')
  <2>1. index'.names \in Seq(Name)
    <3>1. BlankIndex.names = <<>> /\ <<>> \in Seq(Name)
      BY DEF BlankIndex
    <3> QED BY <1>2, <1>9, <3>1
  <2>2. index' # BlankIndex => index' = index
    BY <1>9
  <2> HIDE DEF ns
  <2> QED BY <1>1, <1>2, <1>4, <1>8, <1>10, <2>1, <2>2 DEF IndexOK, Rewriting, ns
<1>12. JobOK(ns, j) /\ Role(w, s, j)
  BY <1>1, <1>8 DEF JobOK, Role, Rewriting, Uploading, Moving
<1>13. BodyOK(index.names, body) => BodyOK(ns, body')
  BY <1>2, <1>9, AppendKeeps
<1> HIDE DEF ns
<1>14. /\ ns = ListOf(job'[w], index')
       /\ \E m \in Name : ns = Append(ListOf(job[w], index), m)
       /\ BodyOK(ListOf(job[w], index), body) => BodyOK(ns, body')
  BY <1>2, <1>7, <1>10, <1>13 DEF ns
<1> QED BY <1>7, <1>11, <1>12, <1>14, ReaderFrame

LEMMA ReaderRewrite ==
    ASSUME TypeInv, NEW w, OneWriter(w), ReaderInv(w), NEW s \in Session,
           TruncateIndex(s) \/ WriteIndex(s)
    PROVE  ReaderInv(w)'
<1> DEFINE j == job[s]
<1>1. /\ job \in [Session -> Jobs] /\ index \in Found /\ j.at \in Rewriting
      /\ j \in AddJobs \union DropJobs
  BY JobAt DEF TypeInv, TruncateIndex, WriteIndex, At, Rewriting
<1>2. s = w /\ j.op = "add" /\ IndexOK(j, index) /\ ListOf(j, index) = j.ix.names
  BY <1>1, ReaderJob DEF Role, ListOf
<1>3. j \in AddJobs /\ j.ix \in Counted /\ j.n \in Name
  BY <1>1, <1>2 DEF AddJobs, DropJobs
<1> DEFINE ns == j.ix.names
<1>4. /\ ns \in Seq(Name) /\ j.ix = Index(Len(ns), ns) /\ Len(ns) > 0
      /\ ns[Len(ns)] = j.n /\ j.c \in Own[j.n]
      /\ j.at = "write_index" => index = BlankIndex
  BY <1>1, <1>2 DEF IndexOK
<1>5. body' = body
  BY DEF TruncateIndex, WriteIndex
<1>6. CASE TruncateIndex(s)
  <2> DEFINE l == [j EXCEPT !.at = "write_index"]
  <2>1. job' = [job EXCEPT ![s] = l] /\ index' = BlankIndex
    BY <1>6 DEF TruncateIndex, Go
  <2>2. l.at = "write_index" /\ l.op = "add" /\ l.n = j.n /\ l.c = j.c /\ l.ix = j.ix
    BY <1>2, <1>3 DEF AddJobs
  <2>3. job'[w] = l
    BY <1>1, <1>2, <2>1
  <2> HIDE DEF j, l
  <2>4. ListOf(l, index') = ns
    BY <2>2 DEF ListOf, Rewriting
  <2>5. IndexOK(l, index')
    <3>1. BlankIndex.names = <<>> /\ <<>> \in Seq(Name)
      BY DEF BlankIndex
    <3> QED BY <1>4, <2>1, <2>2, <2>4, <3>1 DEF IndexOK, Rewriting
  <2>6. JobOK(ns, l) /\ Role(w, s, l)
    BY <1>2, <2>2 DEF JobOK, Role, Rewriting, Uploading, Moving
  <2> HIDE DEF ns
  <2>7. ns = ListOf(job'[w], index') /\ ns = ListOf(job[w], index)
    BY <1>2, <2>3, <2>4 DEF ns, j
  <2> QED BY <1>5, <2>1, <2>3, <2>5, <2>6, <2>7, ReaderFrame
<1>7. CASE WriteIndex(s)
  <2> DEFINE l == [at |-> "lookup", n |-> j.n, c |-> j.c]
  <2>1. job' = [job EXCEPT ![s] = l] /\ index' = Overlay(index, j.ix)
        /\ j.at = "write_index"
    BY <1>2, <1>7 DEF WriteIndex, Go, At
  <2>2. index' = j.ix
    BY <1>3, <1>4, <2>1, OverlayBlank
  <2>3. job'[w] = l
    BY <1>1, <1>2, <2>1
  <2>4. l.at = "lookup" /\ l.n = j.n /\ l.c = j.c
    OBVIOUS
  <2> HIDE DEF j, l
  <2>5. ListOf(l, index') = ns
    BY <2>2, <2>4 DEF ListOf, Rewriting
  <2>6. IndexOK(l, index')
    <3>1. j.ix # BlankIndex
      BY <1>3, CountedNotBlank
    <3>2. j.ix.total = Len(ns) /\ Present(j.ix)
      BY <1>4 DEF Index, Present
    <3> QED BY <1>4, <2>2, <2>4, <2>5, <3>1, <3>2 DEF IndexOK, Rewriting
  <2>7. JobOK(ns, l) /\ Role(w, s, l)
    <3>1. Len(ns) \in Hits(ns, j.n)
      BY <1>4 DEF Hits
    <3> QED BY <1>2, <1>4, <2>4, <3>1 DEF JobOK, Role, Rewriting, Uploading, Moving
  <2> HIDE DEF ns
  <2>8. ns = ListOf(job'[w], index') /\ ns = ListOf(job[w], index)
    BY <1>2, <2>3, <2>5 DEF ns, j
  <2> QED BY <1>5, <2>1, <2>3, <2>6, <2>7, <2>8, ReaderFrame
<1> QED BY <1>6, <1>7

\* The slot of a name in the index as a reader finds it.
LEMMA SlotRead ==
    ASSUME NEW x, x.names \in Seq(Name), x # BlankIndex => x.total = Len(x.names),
           NEW r \in ReadOf(x), NEW n \in Name
    PROVE  \/ Slot(r, n) = -1
           \/ /\ Slot(r, n) \in 0 .. Len(x.names)-1
              /\ x.names[Slot(r, n) + 1] = n
<1> SUFFICES ASSUME Hits(NamesRead(r), n) # {}
             PROVE  /\ Slot(r, n) \in 0 .. Len(x.names)-1
                    /\ x.names[Slot(r, n) + 1] = n
  BY GetIndexNone DEF Slot
<1>1. CASE r = x /\ x # BlankIndex
  <2>1. NamesRead(r) = x.names /\ Len(x.names) \in Nat
    BY <1>1, NamesReadAll
  <2> QED BY <2>1, GetIndexFirst DEF Slot
<1>2. ASSUME NEW g \in JunkTotals, r = Index(g, <<>>) PROVE FALSE
  <2>1. /\ r.total = g /\ r.names = <<>> /\ g \in Int
    BY <1>2, StepsAssumption DEF Index
  <2>2. PICK i \in 1..Len(NamesRead(r)) : NamesRead(r)[i] = n
    BY DEF Hits
  <2>3. CASE g <= 0
    BY <2>1, <2>2, <2>3 DEF NamesRead
  <2>4. CASE ~ (g <= 0)
    <3>1. NamesRead(r) = [k \in 1..g |-> Junk]
      <4>1. \A k \in 1..g : ~ (k <= Len(r.names))
        BY <2>1
      <4> QED BY <2>1, <2>4, <4>1 DEF NamesRead
    <3>2. Len(NamesRead(r)) = g
      BY <2>1, <2>4, <3>1
    <3> QED BY <2>2, <3>1, <3>2, StepsAssumption
  <2> QED BY <2>3, <2>4
<1> QED BY <1>1, <1>2 DEF ReadOf

LEMMA ReaderLookup ==
    ASSUME TypeInv, NEW w, OneWriter(w), ReaderInv(w), NEW s \in Session,
           AddLookup(s)
    PROVE  ReaderInv(w)'
<1> DEFINE j == job[s]
<1>1. /\ job \in [Session -> Jobs] /\ j.at = "lookup" /\ j \in LookupJobs
  BY JobAt DEF TypeInv, AddLookup, At
<1>2. s = w /\ j.n \in Name /\ j.at \notin Rewriting
  BY <1>1, ReaderJob DEF Role, LookupJobs, Rewriting
<1>3. /\ ListOf(job[w], index) = index.names
      /\ index # BlankIndex
      /\ index.names \in Seq(Name)
      /\ index.total = Len(index.names)
      /\ Present(index)
      /\ j.c \in Own[j.n] /\ Hits(index.names, j.n) # {}
  BY <1>1, <1>2, ReaderJob DEF JobOK
<1>4. Read = {index} /\ Slot(index, j.n) = GetIndex(index.names, j.n)
  <2>1. index.exists
    BY <1>3 DEF Present, NoIndex, Hits
  <2> QED BY <1>3, <2>1, NamesReadAll DEF Read, Slot
<1>5. HasSlot(index.names, [slot |-> Slot(index, j.n), n |-> j.n])
  BY <1>3, <1>4, GetIndexFirst DEF HasSlot
<1>6. index' = index /\ body' = body
  BY DEF AddLookup
<1>7. CASE Throw(s)
  <2>1. job' = [job EXCEPT ![s] = Idle]
    BY <1>7 DEF Throw, Finish
  <2> QED BY <1>2, <1>6, <2>1, IdleOK, ReaderSameIndex
<1>8. CASE ~ Throw(s)
  <2> DEFINE l == [at |-> "open_body", n |-> j.n, slot |-> Slot(index, j.n), c |-> j.c]
  <2>1. job' = [job EXCEPT ![s] = l]
    BY <1>4, <1>8 DEF AddLookup, Go
  <2>2. l.at = "open_body" /\ l.n = j.n /\ l.c = j.c /\ l.slot = Slot(index, j.n)
    OBVIOUS
  <2> HIDE DEF j, l
  <2>3. JobOK(index.names, l) /\ Role(w, s, l) /\ l.at \notin Rewriting
    BY <1>2, <1>3, <1>5, <2>2 DEF JobOK, Role, HasSlot, Rewriting, Uploading, Moving
  <2>4. job[s].at \notin Rewriting
    BY <1>2 DEF j
  <2> QED BY <1>3, <1>6, <2>1, <2>3, <2>4, ReaderSameIndex
<1> QED BY <1>7, <1>8

LEMMA ReaderUpload ==
    ASSUME TypeInv, NEW w, OneWriter(w), ReaderInv(w), NEW s \in Session,
           OpenBody(s) \/ WriteBody(s)
    PROVE  ReaderInv(w)'
<1> DEFINE j == job[s]
           ns == ListOf(job[w], index)
<1>1. /\ job \in [Session -> Jobs] /\ body \in [Slots -> Bodies]
      /\ j.at \in Uploading /\ j \in UploadJobs
  BY JobAt DEF TypeInv, OpenBody, WriteBody, At, Uploading
<1>2. /\ s = w /\ j.at \notin Rewriting /\ j.c \in Own[j.n] /\ HasSlot(ns, j)
      /\ BodyOK(ns, body) /\ ns \in Seq(Name)
  BY <1>1, ReaderJob DEF Role, JobOK, Rewriting, Uploading, IndexOK
<1>3. j.slot \in Slots /\ j.slot \in Int /\ j.slot # -1 /\ j.slot \in 0 .. Len(ns)-1
      /\ ns[j.slot + 1] = j.n
  BY <1>1, <1>2, StepsAssumption DEF UploadJobs, HasSlot, Slots, Atomic!Slots
<1>4. index' = index
  BY DEF OpenBody, WriteBody
<1>5. Blank \notin Content
  BY StepsAssumption
<1> HIDE DEF j, ns
<1>6. ASSUME NEW v \in {Blank, j.c}, body' = [body EXCEPT ![j.slot] = v]
      PROVE  BodyOK(ns, body')
  <2>1. -1 \in Slots
    BY StepsAssumption DEF Slots, Atomic!Slots
  <2>2. body'[-1] = NoFile
    BY <1>1, <1>2, <1>3, <1>6, <2>1 DEF BodyOK
  <2>3. ASSUME NEW i \in Slots, body'[i] \in Content
        PROVE  i \in 0 .. Len(ns)-1 /\ body'[i] \in Own[ns[i+1]]
    <3>1. CASE i = j.slot
      <4>1. body'[i] = v
        BY <1>1, <1>6, <3>1
      <4> QED BY <1>2, <1>3, <1>5, <2>3, <3>1, <4>1
    <3>2. CASE i # j.slot
      <4>1. body'[i] = body[i]
        BY <1>1, <1>6, <3>2
      <4> QED BY <1>2, <2>3, <4>1 DEF BodyOK
    <3> QED BY <3>1, <3>2
  <2> QED BY <2>2, <2>3 DEF BodyOK
<1>7. CASE OpenBody(s)
  <2> DEFINE l == [j EXCEPT !.at = "write_body"]
  <2>1. job' = [job EXCEPT ![s] = l] /\ body' = [body EXCEPT ![j.slot] = Blank]
    BY <1>7 DEF OpenBody, Go, j
  <2>2. l.at = "write_body" /\ l.n = j.n /\ l.c = j.c /\ l.slot = j.slot
    BY <1>1 DEF UploadJobs
  <2> HIDE DEF l
  <2>3. JobOK(ns, l) /\ Role(w, s, l) /\ l.at \notin Rewriting
    BY <1>2, <2>2 DEF JobOK, Role, HasSlot, Rewriting, Uploading, Moving
  <2>4. BodyOK(ns, body')
    BY <1>6, <2>1
  <2>5. job[s].at \notin Rewriting
    BY <1>2 DEF j
  <2> QED BY <1>4, <2>1, <2>3, <2>4, <2>5, ReaderSameIndex DEF ns
<1>8. CASE WriteBody(s)
  <2>1. job' = [job EXCEPT ![s] = Idle] /\ body' = [body EXCEPT ![j.slot] = j.c]
    BY <1>8 DEF WriteBody, Finish, j
  <2>2. BodyOK(ns, body')
    BY <1>6, <2>1
  <2>3. job[s].at \notin Rewriting
    BY <1>2 DEF j
  <2> QED BY <1>4, <2>1, <2>2, <2>3, IdleOK, ReaderSameIndex DEF ns
<1> QED BY <1>7, <1>8

LEMMA ReaderStartGet ==
    ASSUME TypeInv, NEW w, OneWriter(w), ReaderInv(w), NEW s \in Session,
           NEW n \in Name, StartGet(s, n)
    PROVE  ReaderInv(w)'
<1> DEFINE ns == ListOf(job[w], index)
<1>1. job[s] = Idle /\ job[s].at \notin Rewriting /\ index' = index /\ body' = body
  BY IdleOK, Zenon DEF StartGet, Ask
<1>2. IndexOK(job[w], index) /\ w \in Session
  BY ReaderJob DEF OneWriter
<1>3. /\ index.names \in Seq(Name) /\ ns \in Seq(Name)
      /\ index # BlankIndex => index.total = Len(index.names)
  BY <1>2 DEF IndexOK
<1>4. PICK r \in Read :
          \/ Go(s, [at |-> "read_body", n |-> n, slot |-> Slot(r, n)])
          \/ Throw(s)
  BY Zenon DEF StartGet
<1>5. CASE Throw(s)
  <2>1. job' = [job EXCEPT ![s] = Idle]
    BY <1>5 DEF Throw, Finish
  <2> QED BY <1>1, <2>1, IdleOK, ReaderSameIndex
<1>6. CASE ~ Throw(s)
  <2> DEFINE l == [at |-> "read_body", n |-> n, slot |-> Slot(r, n)]
  <2>1. job' = [job EXCEPT ![s] = l]
    BY <1>4, <1>6 DEF Go
  <2>2. l.at = "read_body" /\ l.n = n /\ l.slot = Slot(r, n)
    OBVIOUS
  <2>3. \/ Slot(r, n) = -1
        \/ /\ Slot(r, n) \in 0 .. Len(index.names)-1
           /\ index.names[Slot(r, n) + 1] = n
    <3>1. r \in ReadOf(index)
      BY <1>4 DEF Read, ReadOf
    <3> QED BY <1>3, <3>1, SlotRead
  <2> DEFINE k == Slot(r, n)
  <2> HIDE DEF k, ns
  <2>4. k = -1 \/ (k \in 0 .. Len(ns)-1 /\ ns[k + 1] = n)
    <3>1. CASE k \in 0 .. Len(index.names)-1 /\ index.names[k + 1] = n
      <4>1. CASE index = BlankIndex
        BY <3>1, <4>1 DEF BlankIndex
      <4>2. CASE ns = index.names
        BY <3>1, <4>2
      <4>3. CASE index # BlankIndex /\ job[w].at \in Rewriting
        <5>1. ns = Append(index.names, job[w].n)
          BY <1>2, <4>3 DEF IndexOK, ListOf, ns
        <5> HIDE DEF IndexOK
        <5>2. job[w].n \in Name
          BY <1>2, <4>3, ReaderJob, JobAt DEF Role, AddJobs, DropJobs
        <5> QED BY <1>3, <3>1, <5>1, <5>2
      <4> QED BY <4>1, <4>2, <4>3 DEF ListOf, ns
    <3> QED BY <2>3, <3>1 DEF k
  <2> HIDE DEF l
  <2>5. JobOK(ns, l) /\ Role(w, s, l) /\ l.at \notin Rewriting
    BY <2>2, <2>4 DEF JobOK, Role, HasSlot, Rewriting, Uploading, Moving, k
  <2> QED BY <1>1, <2>1, <2>5, ReaderSameIndex DEF ns
<1> QED BY <1>5, <1>6

LEMMA ReaderEnds ==
    ASSUME TypeInv, NEW w, OneWriter(w), ReaderInv(w), NEW s \in Session,
           ReadBody(s) \/ List(s)
    PROVE  ReaderInv(w)'
<1>1. job[s].at \notin Rewriting /\ index' = index /\ body' = body
  <2>1. CASE ReadBody(s)
    BY <2>1 DEF ReadBody, At, Rewriting
  <2>2. CASE List(s)
    BY <2>2, IdleOK DEF List, Ask
  <2> QED BY <2>1, <2>2
<1>2. job' = [job EXCEPT ![s] = Idle]
  BY DEF ReadBody, List, Finish, Throw
<1> QED BY <1>1, <1>2, IdleOK, ReaderSameIndex

LEMMA ReaderStep ==
    ASSUME TypeInv, NEW w, OneWriter(w), ReaderInv(w), [HNext]_hvars
    PROVE  ReaderInv(w)'
<1>1. CASE UNCHANGED hvars
  BY <1>1 DEF hvars, ReaderInv
<1>2. CASE HNext
  <2>1. ~ Crash
    BY DEF Crash, OneWriter
  <2>2. PICK s \in Session : Start(s) \/ Continue(s)
    BY <1>2, <2>1 DEF HNext, Next
  <2>3. /\ job[s].at \notin Moving \union {"next"}
        /\ "delete" \notin May[s]
    BY <2>2, ReaderJob DEF Role, OneWriter
  <2>4. ~ \E n \in Name : StartDelete(s, n)
    BY <2>3 DEF StartDelete, Ask
  <2>5. ~ ReadSource(s) /\ ~ OpenTarget(s) /\ ~ WriteTarget(s) /\ ~ RemoveSource(s)
        /\ ~ EndLoop(s)
    BY <2>3 DEF ReadSource, OpenTarget, WriteTarget, RemoveSource, EndLoop, At, Moving
  <2>6. CASE Start(s)
    BY <2>4, <2>6, ReaderStartAdd, ReaderStartGet, ReaderEnds DEF Start
  <2>7. CASE Continue(s)
    BY <2>5, <2>7, ReaderRewrite, ReaderLookup, ReaderUpload, ReaderEnds DEF Continue
  <2> QED BY <2>2, <2>6, <2>7
<1> QED BY <1>1, <1>2

LEMMA ReaderInit ==
    ASSUME NEW w, OneWriter(w), HInit
    PROVE  ReaderInv(w)
<1>1. /\ index = NoIndex /\ job[w] = Idle /\ \A s \in Session : job[s] = Idle
      /\ body = [i \in Slots |-> NoFile]
  BY DEF HInit, Init, OneWriter
<1>2. ListOf(job[w], index) = <<>> /\ <<>> \in Seq(Name)
  BY <1>1, IdleOK DEF ListOf, NoIndex
<1>3. IndexOK(job[w], index)
  <2>1. NoIndex # BlankIndex /\ NoIndex.names = <<>> /\ NoIndex.total = 0 /\ Present(NoIndex)
    BY DEF NoIndex, BlankIndex, Present
  <2> QED BY <1>1, <1>2, <2>1, IdleOK DEF IndexOK
<1>4. BodyOK(<<>>, body)
  <2>1. -1 \in Slots /\ NoFile \notin Content
    BY StepsAssumption DEF Slots, Atomic!Slots
  <2> QED BY <1>1, <2>1 DEF BodyOK
<1> QED BY <1>1, <1>2, <1>3, <1>4, IdleOK DEF ReaderInv

\* A step of a handler changes no other.
LEMMA OneJobChanges ==
    ASSUME NEW t \in Session, Start(t) \/ Continue(t)
    PROVE  \E j : job' = [job EXCEPT ![t] = j]
<1>1. \A j : Go(t, j) => \E k : job' = [job EXCEPT ![t] = k]
  BY DEF Go
<1>2. \A r : Finish(t, r) => \E k : job' = [job EXCEPT ![t] = k]
  BY DEF Finish
<1>3. CASE Continue(t)
  BY <1>1, <1>2, <1>3 DEF Continue, TruncateIndex, WriteIndex, AddLookup, OpenBody,
     WriteBody, ReadBody, ReadSource, OpenTarget, WriteTarget, RemoveSource, EndLoop,
     Throw
<1>4. ASSUME NEW n \in Name, NEW c \in Content, StartAdd(t, n, c)
      PROVE  \E k : job' = [job EXCEPT ![t] = k]
  BY <1>1, <1>2, <1>4 DEF StartAdd, Throw
<1>5. ASSUME NEW n \in Name, StartGet(t, n)
      PROVE  \E k : job' = [job EXCEPT ![t] = k]
  BY <1>1, <1>2, <1>5 DEF StartGet, Throw
<1>6. List(t) => \E k : job' = [job EXCEPT ![t] = k]
  BY <1>2 DEF List, Throw
<1>7. ASSUME NEW n \in Name, StartDelete(t, n)
      PROVE  \E k : job' = [job EXCEPT ![t] = k]
  <2>1. PICK ix \in Read :
            \/ Go(t, [at |-> "next", n |-> n, ix |-> ix, k |-> Slot(ix, n),
                      i |-> IF Slot(ix, n) = -1 THEN ix.total ELSE Slot(ix, n) + 1])
            \/ Throw(t)
    BY <1>7, Zenon DEF StartDelete
  <2> QED BY <1>1, <1>2, <2>1 DEF Throw
<1> QED BY <1>3, <1>4, <1>5, <1>6, <1>7 DEF Start

\* What a download is answered with a file, it read from its own slot.
LEMMA ReaderReply ==
    ASSUME TypeInv, NEW w, OneWriter(w), ReaderInv(w), Replies, HNext,
           NEW s \in Session, At(s, "read_body"), job'[s] = Idle,
           reply'[s].kind = "file"
    PROVE  reply'[s].content \in Own[job[s].n] \union {Garbage}
<1>1. job[s].at = "read_body" /\ job \in [Session -> Jobs] /\ job[s] \in ReadJobs
  BY JobAt DEF At, TypeInv
<1>2. ~ Crash
  BY DEF Crash, OneWriter
<1>3. PICK t \in Session : Start(t) \/ Continue(t)
  BY <1>2 DEF HNext, Next
<1>4. t = s
  <2>1. ASSUME t # s PROVE job'[s] = job[s]
    <3>1. \E j : job' = [job EXCEPT ![t] = j]
      BY <1>3, OneJobChanges
    <3> QED BY <1>1, <2>1, <3>1
  <2> QED BY <1>1, <2>1 DEF Idle
<1>5. ReadBody(s)
  <2>1. ~ Start(s)
    BY <1>1 DEF Start, StartAdd, StartGet, List, StartDelete, Ask, Idle
  <2> QED BY <1>1, <1>3, <1>4, <2>1 DEF Continue, TruncateIndex, WriteIndex, AddLookup,
          OpenBody, WriteBody, ReadSource, OpenTarget, WriteTarget, RemoveSource,
          EndLoop, At
<1> DEFINE j == job[s]
           ns == ListOf(job[w], index)
<1>6. BodyOK(ns, body) /\ (j.slot = -1 \/ HasSlot(ns, j)) /\ j.slot \in Slots
  BY <1>1, ReaderJob DEF JobOK, ReadJobs
<1> HIDE DEF ns
<1>7. body[j.slot] \in Content => body[j.slot] \in Own[j.n]
  <2>1. NoFile \notin Content
    BY StepsAssumption
  <2> HIDE DEF j
  <2> QED BY <1>6, <2>1 DEF BodyOK, HasSlot
<1>8. PICK r : /\ Finish(s, r)
               /\ IF body[j.slot] \in Content THEN r = Atomic!FileReply(body[j.slot])
                  ELSE r \in {Atomic!Closed, Atomic!FileReply(Garbage)}
  BY <1>5 DEF ReadBody
<1>9. reply'[s] = r
  BY <1>8 DEF Finish, Replies
<1> HIDE DEF j
<1>10. reply'[s].content \in Own[j.n] \union {Garbage}
  <2>1. Atomic!Closed.kind # "file"
    BY DEF Atomic!Closed
  <2>2. \A c : Atomic!FileReply(c).content = c
    BY DEF Atomic!FileReply
  <2> QED BY <1>7, <1>8, <1>9, <2>1, <2>2
<1> QED BY <1>10 DEF j

(***************************************************************************)
(* While one session of a user uploads, nobody deletes and the process     *)
(* runs on, a download by any session, however many there are, gives bytes *)
(* of a content of that very name, or whatever bytes the read of a missing *)
(* or half-written body leaves, or fails (data.cpp:193-216).               *)
(***************************************************************************)
THEOREM ReaderGetsOwnFile ==
    ASSUME NEW CONSTANT w, OneWriter(w)
    PROVE  HSpec => DownloadsOwnFile
<1>1. HInit => ReaderInv(w)
  BY ReaderInit
<1>2. TypeInv /\ ReaderInv(w) /\ [HNext]_hvars => ReaderInv(w)'
  BY ReaderStep
<1>3. TypeInv /\ ReaderInv(w) /\ Replies /\ [HNext]_hvars
        => [\A s \in Session :
               /\ At(s, "read_body")
               /\ job'[s] = Idle
               /\ reply'[s].kind = "file"
               => reply'[s].content \in Own[job[s].n] \union {Garbage}
           ]_vars
  <2>1. ASSUME UNCHANGED hvars PROVE UNCHANGED vars
    BY <2>1 DEF hvars, vars
  <2>2. ASSUME TypeInv, ReaderInv(w), Replies, HNext, NEW s \in Session,
               At(s, "read_body"), job'[s] = Idle, reply'[s].kind = "file"
        PROVE  reply'[s].content \in Own[job[s].n] \union {Garbage}
    BY <2>2, ReaderReply
  <2> QED BY <2>1, <2>2
<1> QED BY <1>1, <1>2, <1>3, TypeInvAlways, RepliesAlways, PTL DEF HSpec, DownloadsOwnFile
=============================================================================
