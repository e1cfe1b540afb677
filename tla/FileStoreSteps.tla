--------------------------- MODULE FileStoreSteps ---------------------------
(***************************************************************************)
(* The files of one user while the handlers of several sessions of that    *)
(* user run, each in its own detached thread (src/Server/src/comms.cpp:88) *)
(* and none of them holding a lock: class Data at the grain of the file    *)
(* operations that another thread, or the end of the process, can come     *)
(* between. Opening a std::ofstream truncates the file; what is written to *)
(* it reaches the file when it is closed; a std::ifstream reads an index   *)
(* in one go (shorter than its 8 KB buffer) and takes a body as it finds   *)
(* it. Two streams open on one index write over each other from offset 0.  *)
(***************************************************************************)
EXTENDS Integers, Sequences, FileIndex

CONSTANTS
    Content, NoFile, Garbage, JunkTotals, MaxFiles, MinTotal,
    Session,    \* the sessions, each a thread of the server
    May,        \* May[s]: the requests s sends: "add", "get", "list", "delete"
    Own,        \* Own[n]: the contents uploaded under n
    Blank,      \* a body file of length 0
    MayCrash    \* whether the process may end with handlers running

VARIABLES
    index, body,   \* the files, as in FileStore
    job,           \* where the handler of each session is
    reply          \* the latest answer to each session

vars == <<index, body, job, reply>>

Atomic == INSTANCE FileStore WITH reply <- [kind |-> "none"]

ASSUME StepsAssumption ==
    /\ NoFile \notin Content
    /\ Junk \notin Name
    /\ MaxFiles \in Nat
    /\ MinTotal \in Int
    /\ MinTotal < 0
    /\ JunkTotals \subseteq MinTotal+1 .. MaxFiles
    /\ Blank \notin Content \union {NoFile, Garbage}
    /\ May \in [Session -> SUBSET {"add", "get", "list", "delete"}]
    /\ Own \in [Name -> SUBSET Content]
    /\ MayCrash \in BOOLEAN

Slots      == Atomic!Slots
Idle       == [at |-> "idle"]
\* An index file of length 0; its count is out of the bounds of a real one.
BlankIndex == [exists |-> TRUE, total |-> MinTotal - 1, names |-> <<>>]

Init ==
    /\ index = NoIndex
    /\ body = [i \in Slots |-> NoFile]
    /\ job = [s \in Session |-> Idle]
    /\ reply = [s \in Session |-> Atomic!NoReply]

-----------------------------------------------------------------------------
\* What reading the index yields; without a count total_files is unset.
Read == IF index.exists /\ index # BlankIndex
        THEN {index}
        ELSE {Index(g, <<>>) : g \in JunkTotals}

\* Mutant: slots counted from one.
SlotFromOne(ix, n) == GetIndex(NamesRead(ix), n) + 1

Slot(ix, n) == GetIndex(NamesRead(ix), n)

\* The lookup of n reads past the last name, so it may throw.
LookupFails(ix, n) ==
    Slot(ix, n) \notin 0 .. Len(ix.names)-1 /\ ReadFails(ix)

\* A closed stream's bytes over the file as it is by then.
Overlay(old, new) ==
    [new EXCEPT !.names = @ \o SubSeq(old.names, Len(@)+1, Len(old.names))]

Go(s, j) == job' = [job EXCEPT ![s] = j] /\ UNCHANGED reply

Finish(s, r) ==
    /\ job' = [job EXCEPT ![s] = Idle]
    /\ reply' = [reply EXCEPT ![s] = r]

Throw(s) == Finish(s, Atomic!Closed)

At(s, place) == job[s].at = place

Ask(s, op) == job[s] = Idle /\ op \in May[s]

-----------------------------------------------------------------------------
(* add_file *)

\* Mutant: the new name is put in front of the names read.
IndexWithFront(ix, n) ==
    Index(ix.total + 1, IF ix.total >= 0
                               THEN <<n>> \o NamesRead(ix) ELSE <<>>)

\* Mutant: total_files is not incremented.
IndexWithSameTotal(ix, n) ==
    Index(ix.total, Append(NamesRead(ix), n))

IndexWith(ix, n) ==
    Index(ix.total + 1, IF ix.total >= 0
                               THEN Append(NamesRead(ix), n) ELSE <<>>)

\* Read the index, or create it empty.
StartAdd(s, n, c) ==
    /\ Ask(s, "add")
    /\ c \in Own[n]
    /\ \E ix \in IF index.exists THEN Read ELSE {NoIndex} :
          /\ ix.total < MaxFiles
          /\ \/ Go(s, [at |-> "truncate_index", op |-> "add", n |-> n, c |-> c,
                       ix |-> IndexWith(ix, n)])
             \/ ReadFails(ix) /\ Throw(s)
    /\ index' = IF index.exists THEN index ELSE BlankIndex
    /\ UNCHANGED body

\* Mutant: the body goes to the last slot of the index just written.
AddLookupLast(s) ==
    /\ At(s, "lookup")
    /\ \E ix \in Read :
          \/ Go(s, [at |-> "open_body", n |-> job[s].n, slot |-> ix.total - 1,
                    c |-> job[s].c])
          \/ LookupFails(ix, job[s].n) /\ Throw(s)
    /\ UNCHANGED <<index, body>>

\* Look the name up in the index as it now is.
AddLookup(s) ==
    /\ At(s, "lookup")
    /\ \E ix \in Read :
          \/ Go(s, [at |-> "open_body", n |-> job[s].n,
                    slot |-> Slot(ix, job[s].n), c |-> job[s].c])
          \/ LookupFails(ix, job[s].n) /\ Throw(s)
    /\ UNCHANGED <<index, body>>

OpenBody(s) ==
    /\ At(s, "open_body")
    /\ body' = [body EXCEPT ![job[s].slot] = Blank]
    /\ Go(s, [job[s] EXCEPT !.at = "write_body"])
    /\ UNCHANGED index

WriteBody(s) ==
    /\ At(s, "write_body")
    /\ body' = [body EXCEPT ![job[s].slot] = job[s].c]
    /\ Finish(s, Atomic!NoReply)
    /\ UNCHANGED index

-----------------------------------------------------------------------------
(* The rewrite of the index that ends _add_file_to_index, _remove_index *)

TruncateIndex(s) ==
    /\ At(s, "truncate_index")
    /\ index' = BlankIndex
    /\ Go(s, [job[s] EXCEPT !.at = "write_index"])
    /\ UNCHANGED body

WriteIndex(s) ==
    /\ At(s, "write_index")
    /\ index' = Overlay(index, job[s].ix)
    /\ IF job[s].op = "add"
       THEN Go(s, [at |-> "lookup", n |-> job[s].n, c |-> job[s].c])
       ELSE Finish(s, Atomic!NoReply)
    /\ UNCHANGED body

-----------------------------------------------------------------------------
(* get_file and list_files *)

StartGet(s, n) ==
    /\ Ask(s, "get")
    /\ \E ix \in Read :
          \/ Go(s, [at |-> "read_body", n |-> n, slot |-> Slot(ix, n)])
          \/ LookupFails(ix, n) /\ Throw(s)
    /\ UNCHANGED <<index, body>>

ReadBody(s) ==
    /\ At(s, "read_body")
    /\ LET found == body[job[s].slot]
       IN  IF found \in Content
           THEN Finish(s, Atomic!FileReply(found))
           ELSE \E r \in {Atomic!Closed, Atomic!FileReply(Garbage)} : Finish(s, r)
    /\ UNCHANGED <<index, body>>

List(s) ==
    /\ Ask(s, "list")
    /\ \E ix \in IF index.exists THEN Read ELSE {NoIndex} :
          LET ns == NamesRead(ix)
          IN  \/ Finish(s, Atomic!ListReply(ns))
              \/ Hits(ns, Junk) # {} /\ Throw(s)
    /\ UNCHANGED <<index, body>>

-----------------------------------------------------------------------------
(* delete_file *)

\* Read the index and go to the first slot after that of n.
StartDelete(s, n) ==
    /\ Ask(s, "delete")
    /\ \E ix \in Read :
          LET k == Slot(ix, n)
          IN  /\ ix.total > MinTotal
              /\ \/ Go(s, [at |-> "next", n |-> n, ix |-> ix, k |-> k,
                           i |-> IF k = -1 THEN ix.total ELSE k + 1])
                 \/ k = -1 /\ ReadFails(ix) /\ Throw(s)
    /\ UNCHANGED <<index, body>>

\* Read the body to move down; tellg() of a missing file is -1.
ReadSource(s) ==
    /\ At(s, "next")
    /\ job[s].i < job[s].ix.total
    /\ LET found == body[job[s].i]
       IN  IF found = NoFile
           THEN Throw(s)
           ELSE Go(s, [at |-> "open_target", n |-> job[s].n, ix |-> job[s].ix,
                       k |-> job[s].k, i |-> job[s].i, buf |-> found])
    /\ UNCHANGED <<index, body>>

\* Mutant: the source is removed as soon as it is in memory.
OpenTargetRemoving(s) ==
    /\ At(s, "open_target")
    /\ body' = [body EXCEPT ![job[s].i - 1] = Blank, ![job[s].i] = NoFile]
    /\ Go(s, [job[s] EXCEPT !.at = "write_target"])
    /\ UNCHANGED index

OpenTarget(s) ==
    /\ At(s, "open_target")
    /\ body' = [body EXCEPT ![job[s].i - 1] = Blank]
    /\ Go(s, [job[s] EXCEPT !.at = "write_target"])
    /\ UNCHANGED index

WriteTarget(s) ==
    /\ At(s, "write_target")
    /\ body' = [body EXCEPT ![job[s].i - 1] = job[s].buf]
    /\ Go(s, [job[s] EXCEPT !.at = "remove_source"])
    /\ UNCHANGED index

\* Remove the source, then read the name of its slot.
RemoveSource(s) ==
    /\ At(s, "remove_source")
    /\ body' = [body EXCEPT ![job[s].i] = NoFile]
    /\ \/ Go(s, [at |-> "next", n |-> job[s].n, ix |-> job[s].ix,
                 k |-> job[s].k, i |-> job[s].i + 1])
       \/ job[s].i >= Len(job[s].ix.names) /\ Throw(s)
    /\ UNCHANGED index

\* All slots handled: the names that are left, one less by count.
EndLoop(s) ==
    /\ At(s, "next")
    /\ job[s].i >= job[s].ix.total
    /\ Go(s, [at |-> "truncate_index", op |-> "delete", k |-> job[s].k,
              ix |-> LET ns == NamesRead(job[s].ix)
                     IN  Index(job[s].ix.total - 1,
                                      Without(ns, job[s].n))])
    /\ UNCHANGED <<index, body>>

-----------------------------------------------------------------------------
(***************************************************************************)
(* main returns after "stop", or the process is killed, while detached     *)
(* handlers run: their threads are gone, what reached the files stays.     *)
(***************************************************************************)
Crash ==
    /\ MayCrash
    /\ \E s \in Session : job[s] # Idle
    /\ job' = [s \in Session |-> Idle]
    /\ reply' = [s \in Session |-> Atomic!Closed]
    /\ UNCHANGED <<index, body>>

Start(s) ==
    \/ \E n \in Name, c \in Content : StartAdd(s, n, c)
    \/ \E n \in Name : StartGet(s, n)
    \/ List(s)
    \/ \E n \in Name : StartDelete(s, n)

Continue(s) ==
    \/ TruncateIndex(s) \/ WriteIndex(s)
    \/ AddLookup(s) \/ OpenBody(s) \/ WriteBody(s)
    \/ ReadBody(s)
    \/ ReadSource(s) \/ OpenTarget(s) \/ WriteTarget(s) \/ RemoveSource(s)
    \/ EndLoop(s)

Next == (\E s \in Session : Start(s) \/ Continue(s)) \/ Crash

Spec == Init /\ [][Next]_vars
=============================================================================
