----------------------------- MODULE FileStore -----------------------------
(***************************************************************************)
(* The vault of one user on the server: class Data                         *)
(* (src/Server/src/data.cpp) behind the handlers of the Resolver, when the *)
(* user has one session at a time, so that handlers run one after another. *)
(*                                                                         *)
(* On disk a user owns an index (FileIndex) and one body file              *)
(* <user>_file_<i>.bin per slot i of it. A missing index leaves its count  *)
(* uninitialized (JunkTotals). A missing body leaves the size and the heap *)
(* block uninitialized: the build throws or yields whatever bytes, Garbage. *)
(***************************************************************************)
EXTENDS Integers, Sequences, FileIndex

CONSTANTS
    Content,      \* file contents
    NoFile,       \* a body file that does not exist
    Garbage,      \* whatever bytes a read of a missing body leaves
    JunkTotals,   \* values an uninitialized total_files may hold
    MaxFiles,     \* bound: an upload needs total < MaxFiles
    MinTotal      \* bound: a delete needs total > MinTotal

ASSUME FileStoreAssumption ==
    /\ NoFile \notin Content
    /\ Junk \notin Name
    /\ MaxFiles \in Nat
    /\ MinTotal \in Int
    /\ MinTotal < 0
    /\ JunkTotals \subseteq MinTotal+1 .. MaxFiles

VARIABLES
    index,   \* <user>_files.dat
    body,    \* body[i] is <user>_file_<i>.bin; slot -1 is a real file name too
    reply    \* what the session sent for the latest request

vars == <<index, body, reply>>

Slots   == -1 .. MaxFiles-1
Stored  == Content \union {NoFile}
Indices == [exists : BOOLEAN, total : Int, names : Seq(Name \union {Junk})]

NoReply       == [kind |-> "none"]     \* the request has no answer
Closed        == [kind |-> "closed"]   \* the handler threw: connection closed
FileReply(c)  == [kind |-> "file", content |-> c]
ListReply(ns) == [kind |-> "list", names |-> ns]

-----------------------------------------------------------------------------
\* What _get_index, _remove_index see, which do not ask if the file exists.
Seen == IF index.exists THEN {index}
                        ELSE {[NoIndex EXCEPT !.total = g] : g \in JunkTotals}

-----------------------------------------------------------------------------
Init ==
    /\ index = NoIndex
    /\ body = [i \in Slots |-> NoFile]
    /\ reply = NoReply

Throw == reply' = Closed

(***************************************************************************)
(* add_file: append the name, equal names included, rewrite the index with *)
(* total names, look the name up again and write the body to the slot of   *)
(* its first occurrence. A negative total leaves no name to write.         *)
(***************************************************************************)
NamesAfterAdd(n) ==
    IF index.total >= 0 THEN Append(NamesRead(index), n) ELSE <<>>

\* Mutant: the body goes to the slot of the new last name.
AddFileAtEnd(n, c) ==
    /\ index.total < MaxFiles
    /\ \/ /\ index' = Index(index.total + 1, NamesAfterAdd(n))
          /\ body' = [body EXCEPT ![index.total] = c]
          /\ reply' = NoReply
       \/ /\ ReadFails(index)
          /\ Throw
          /\ UNCHANGED <<index, body>>

AddFile(n, c) ==
    /\ index.total < MaxFiles
    /\ \/ /\ index' = Index(index.total + 1, NamesAfterAdd(n))
          /\ body' = [body EXCEPT ![GetIndex(NamesAfterAdd(n), n)] = c]
          /\ reply' = NoReply
       \/ /\ ReadFails(index)
          /\ Throw
          /\ UNCHANGED <<index, body>>

(***************************************************************************)
(* get_file: an unknown name has index -1 and reads the body of slot -1.   *)
(***************************************************************************)
\* Mutant: get_file does not notice a missing body.
BodyRepliesUnchecked(i) == {FileReply(body[i])}

BodyReplies(i) ==
    IF body[i] # NoFile
    THEN {FileReply(body[i])}
    ELSE {Closed, FileReply(Garbage)}

GetReplies(n) ==
    UNION {LET i == GetIndex(NamesRead(ix), n)
           IN  BodyReplies(i) \union
                 (IF i \notin 0 .. Len(ix.names)-1 /\ ReadFails(ix)
                  THEN {Closed} ELSE {}) : ix \in Seen}

GetFile(n) ==
    /\ reply' \in GetReplies(n)
    /\ UNCHANGED <<index, body>>

(***************************************************************************)
(* list_files: the only reader that tests for a missing index. Decrypting  *)
(* a name that is Junk may fail as reading it may.                         *)
(***************************************************************************)
ListReplies ==
    LET ns == NamesRead(index)
    IN  {ListReply(ns)} \union (IF Hits(ns, Junk) # {} THEN {Closed} ELSE {})

ListFiles ==
    /\ reply' \in ListReplies
    /\ UNCHANGED <<index, body>>

(***************************************************************************)
(* delete_file: one loop reads the names and, once it has met n at slot k, *)
(* moves every later body down one slot. All names equal to n are dropped, *)
(* the count goes down by one whether or not n was met, and the index is   *)
(* written at the end only: a throw in the loop leaves the bodies already  *)
(* moved and the old index.                                                *)
(***************************************************************************)
\* Mutant: new_index is i - 2.
ShiftedTwo(k, j) ==
    [p \in Slots |-> IF k-1 <= p /\ p < j-1 /\ p >= 0 THEN body[p+2]
                     ELSE IF k < p /\ p = j THEN NoFile
                     ELSE body[p]]

\* The bodies once those of slots k+1..j have moved down.
Shifted(k, j) ==
    [p \in Slots |-> IF k <= p /\ p < j THEN body[p+1]
                     ELSE IF k < p /\ p = j THEN NoFile
                     ELSE body[p]]

\* Mutant: the slots are walked from the last to k+1.
MovedBackwards(k, j) ==
    IF k >= 0 /\ j > k
    THEN [p \in Slots |-> IF p = k THEN body[j]
                          ELSE IF k < p /\ p <= j THEN NoFile
                          ELSE body[p]]
    ELSE body

\* Bodies after the loop has handled slots 0..j; k = -1 means n not met.
Moved(k, j) == IF k >= 0 /\ j > k THEN Shifted(k, j) ELSE body

CanMove(k, j) == k >= 0 => \A p \in k+1..j : body[p] # NoFile

Deleted(ix, ns, k, n) ==
    /\ CanMove(k, ix.total - 1)
    /\ index' = Index(ix.total - 1, Without(ns, n))
    /\ body' = Moved(k, ix.total - 1)
    /\ reply' = NoReply

\* Slot i holds no body: tellg() is -1 and the buffer cannot be allocated.
DeleteMeetsHole(ix, k) ==
    \E i \in k+1 .. ix.total-1 :
        /\ k >= 0
        /\ CanMove(k, i-1)
        /\ body[i] = NoFile
        /\ body' = Moved(k, i-1)
        /\ Throw
        /\ UNCHANGED index

\* The name of slot i is past the end of the index file.
DeleteMeetsEnd(ix, k) ==
    \E i \in Len(ix.names) .. ix.total-1 :
        /\ CanMove(k, i)
        /\ body' = Moved(k, i)
        /\ Throw
        /\ UNCHANGED index

DeleteFile(n) ==
    \E ix \in Seen :
        LET ns == NamesRead(ix)
            k  == GetIndex(ns, n)
        IN  /\ ix.total > MinTotal
            /\ \/ Deleted(ix, ns, k, n)
               \/ DeleteMeetsHole(ix, k)
               \/ DeleteMeetsEnd(ix, k)
-----------------------------------------------------------------------------
(***************************************************************************)
(* Two environments. Next: a client that sends any request. CarefulNext:   *)
(* one that downloads and deletes only names on the list and never deletes *)
(* at or before the repeat of a name: the exact discipline under which the *)
(* store is UserFiles.                                                     *)
(***************************************************************************)
Listed == {n \in Name : Hits(NamesRead(index), n) # {}}

\* No name stored after n is the repeat of an earlier one.
CleanFrom(n) ==
    LET ns == NamesRead(index)
    IN  \A i \in GetIndex(ns, n)+1 .. Len(ns) : GetIndex(ns, ns[i]) = i-1

Request(MayGet(_), MayDelete(_)) ==
    \/ \E n \in Name, c \in Content : AddFile(n, c)
    \/ \E n \in Name : MayGet(n) /\ GetFile(n)
    \/ ListFiles
    \/ \E n \in Name : MayDelete(n) /\ DeleteFile(n)

Anyhow(n)  == TRUE
OnList(n)  == n \in Listed
Careful(n) == n \in Listed /\ CleanFrom(n)

Next        == Request(Anyhow, Anyhow)
CarefulNext == Request(OnList, Careful)

Spec        == Init /\ [][Next]_vars
CarefulSpec == Init /\ [][CarefulNext]_vars
=============================================================================
