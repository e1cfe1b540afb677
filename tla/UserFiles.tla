----------------------------- MODULE UserFiles -----------------------------
(***************************************************************************)
(* What SilentVault promises one user: a vault of named files. An upload   *)
(* stores a content under a name, a download returns the content last      *)
(* stored, a list shows exactly the stored names and a delete removes the  *)
(* one file it names and no other. FileStore.tla is the code behind the    *)
(* promise; this module says nothing of indexes, slots or disk files.      *)
(***************************************************************************)
CONSTANTS
    Name,       \* file names a user may give
    Content,    \* contents of a file
    NoFile      \* "nothing is stored under this name"

VARIABLES
    files,      \* the content stored under each name
    reply       \* the server's answer to the latest request

vars == <<files, reply>>

NoReply      == [kind |-> "none"]
FileReply(c) == [kind |-> "file", content |-> c]
ListReply(S) == [kind |-> "list", names |-> S]

Stored == {n \in Name : files[n] # NoFile}

Init ==
    /\ files = [n \in Name |-> NoFile]
    /\ reply = NoReply

Upload(n, c) ==
    /\ files' = [files EXCEPT ![n] = c]
    /\ reply' = NoReply

Download(n) ==
    /\ n \in Stored
    /\ reply' = FileReply(files[n])
    /\ UNCHANGED files

List ==
    /\ reply' = ListReply(Stored)
    /\ UNCHANGED files

Delete(n) ==
    /\ n \in Stored
    /\ files' = [files EXCEPT ![n] = NoFile]
    /\ reply' = NoReply

Next ==
    \/ \E n \in Name, c \in Content : Upload(n, c)
    \/ \E n \in Name : Download(n)
    \/ List
    \/ \E n \in Name : Delete(n)

Spec == Init /\ [][Next]_vars
=============================================================================
