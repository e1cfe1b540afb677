------------------------------ MODULE EndToEnd ------------------------------
(***************************************************************************)
(* The system as one user sees it: the server with its key (KeySetup) and  *)
(* its files (FileStore), a connection that carries requests in order, and *)
(* a client (src/Client/src/client.cpp) that does not wait for uploads and *)
(* deletes, which have no answer. The server may end between any two       *)
(* requests and is started again, with whatever password.                  *)
(*                                                                         *)
(* The client keeps to the discipline of CarefulNext by what it remembers, *)
(* not by what the server holds, and connects when the handler of its last *)
(* connection is done. Handlers are single steps here and frames arrive    *)
(* whole: FileStoreSteps and Session take them apart. That FileStore lets  *)
(* a name stand for its cipher text needs one key for all data: OneKey.    *)
(***************************************************************************)
EXTENDS FileStoreProps, KeySetup

CONSTANT MaxQueue   \* bound: requests on their way to the server

ASSUME EndToEndAssumption == MaxQueue \in Nat \ {0}

VARIABLES
    conn,    \* the connection: none, open, or left by the client
    up,      \* requests on their way to the server
    down,    \* answers on their way to the client
    asked,   \* the request that the client waits for
    views    \* what the client takes its files to be: before each request
             \* in up, and, last, once they have all been handled

store   == <<index, body, reply>>
session == <<conn, up, down, asked, views>>
allVars == <<store, keyVars, session>>

NoRequest      == [op |-> "none"]
Upload(n, c)   == [op |-> "upload", name |-> n, content |-> c]
Download(n)    == [op |-> "download", name |-> n]
Delete(n)      == [op |-> "delete", name |-> n]
SeeList        == [op |-> "list"]

Requests ==
    {Upload(n, c) : n \in Name, c \in Content} \union {SeeList}
        \union {Download(n) : n \in Name} \union {Delete(n) : n \in Name}

\* The names in the order of their uploads, and the content of each.
View == [names |-> index.names, files |-> VaultFiles]

-----------------------------------------------------------------------------
(* The client *)

\* CleanFrom, on the client's list.
KnownCleanFrom(v, n) ==
    \A i \in GetIndex(v.names, n)+1 .. Len(v.names) :
        GetIndex(v.names, v.names[i]) = i-1

ViewAfter(v, r) ==
    CASE r.op = "upload" -> [names |-> Append(v.names, r.name),
                             files |-> [v.files EXCEPT ![r.name] = r.content]]
      [] r.op = "delete" -> [names |-> Without(v.names, r.name),
                             files |-> [v.files EXCEPT ![r.name] = NoFile]]
      [] OTHER           -> v

Expected(v, r) ==
    CASE r.op = "download" -> FileReply(v.files[r.name])
      [] r.op = "list"     -> ListReply(v.names)
      [] OTHER             -> NoReply

Sensible(v, r) ==
    CASE r.op = "upload"   -> Len(v.names) < MaxFiles
      [] r.op = "download" -> v.files[r.name] # NoFile
      [] r.op = "delete"   -> v.files[r.name] # NoFile /\ KnownCleanFrom(v, r.name)
      [] OTHER             -> TRUE

\* Mutant: the client does not wait for the list.
AwaitedFile(r) == r.op = "download"

Awaited(r) == r.op \in {"download", "list"}

Connect ==
    /\ conn = "none" /\ main = "serving"
    /\ conn' = "open"
    /\ views' = <<View>>
    /\ UNCHANGED <<store, keyVars, up, down, asked>>

\* Mutant: a request overtakes the ones before.
QueuedFirst(r) == <<r>> \o up

Queued(r) == Append(up, r)

\* serialize and send; recv for a download and a list only.
Send(r) ==
    LET v == views[Len(views)]
    IN  /\ conn = "open" /\ asked = NoRequest
        /\ Len(up) < MaxQueue
        /\ Sensible(v, r)
        /\ up' = Queued(r)
        /\ views' = Append(views, ViewAfter(v, r))
        /\ asked' = IF Awaited(r) THEN r ELSE NoRequest
        /\ UNCHANGED <<store, keyVars, conn, down>>

Receive ==
    /\ conn = "open" /\ down # <<>>
    /\ down' = Tail(down)
    /\ asked' = NoRequest
    /\ UNCHANGED <<store, keyVars, conn, up, views>>

\* The client exits; what it has sent still arrives.
Leave ==
    /\ conn = "open"
    /\ conn' = "left"
    /\ down' = <<>>
    /\ asked' = NoRequest
    /\ UNCHANGED <<store, keyVars, up, views>>

-----------------------------------------------------------------------------
(* The server *)

\* Resolver::solve. Adding a file encrypts it under the server's key.
Solve(r) ==
    \/ r.op = "upload"   /\ AddFile(r.name, r.content) /\ Store
    \/ r.op = "download" /\ GetFile(r.name) /\ UNCHANGED keyVars
    \/ r.op = "list"     /\ ListFiles /\ UNCHANGED keyVars
    \/ r.op = "delete"   /\ DeleteFile(r.name) /\ UNCHANGED keyVars

Gone ==
    /\ conn' = "none"
    /\ up' = <<>>
    /\ down' = <<>>
    /\ asked' = NoRequest
    /\ views' = <<>>

\* One request after the other, and its answer, if it has one. A handler
\* that throws closes the connection.
Handle ==
    /\ main = "serving" /\ up # <<>>
    /\ Solve(Head(up))
    /\ IF reply' = Closed
       THEN Gone
       ELSE /\ up' = Tail(up)
            /\ views' = Tail(views)
            /\ down' = IF reply' = NoReply \/ conn = "left" THEN down
                       ELSE Append(down, reply')
            /\ UNCHANGED <<conn, asked>>

\* The read loop meets the end of the stream.
EndConnection ==
    /\ main = "serving" /\ conn = "left" /\ up = <<>>
    /\ Gone
    /\ UNCHANGED <<store, keyVars>>

\* The process ends, and with it connection and requests.
EndServer ==
    /\ End
    /\ Gone
    /\ UNCHANGED store

StartServer == StartUp /\ UNCHANGED <<store, session>>

-----------------------------------------------------------------------------
E2EInit ==
    /\ Init
    /\ KeyInit
    /\ conn = "none"
    /\ up = <<>>
    /\ down = <<>>
    /\ asked = NoRequest
    /\ views = <<>>

E2ENext ==
    \/ Connect \/ (\E r \in Requests : Send(r)) \/ Receive \/ Leave
    \/ Handle \/ EndConnection
    \/ StartServer \/ EndServer

E2ESpec == E2EInit /\ [][E2ENext]_allVars

-----------------------------------------------------------------------------
(***************************************************************************)
(* Types; a connection needs a server that serves, and a client waits for  *)
(* one answer at most.                                                     *)
(***************************************************************************)
Views == [names : Seq(Name), files : [Name -> Stored]]

E2ETypeOK ==
    /\ TypeOK
    /\ KeyTypeOK
    /\ conn \in {"none", "open", "left"}
    /\ conn # "none" => main = "serving"
    /\ up \in Seq(Requests) /\ Len(up) <= MaxQueue
    /\ Len(down) <= 1
    /\ asked \in Requests \union {NoRequest}
    /\ views \in Seq(Views)

(***************************************************************************)
(* Read your writes. The answer that the client takes is what its earlier  *)
(* requests make it expect, though uploads and deletes are not answered    *)
(* (client.cpp:268-330), may still be queued when it asks, and the index   *)
(* has been renumbered since. No request of such a client makes the        *)
(* handler throw and close the connection.                                 *)
(***************************************************************************)
AnswerAsExpected ==
    /\ reply # Closed
    /\ down # <<>> => /\ conn = "open" /\ asked # NoRequest
                      /\ down = <<Expected(views[Len(views)], asked)>>

(***************************************************************************)
(* What the client remembers is what the server will hold: the handlers    *)
(* take the store through the client's views, one request each, also when  *)
(* the client has left; and a request that was sensible when it was sent   *)
(* is so when it is handled.                                               *)
(***************************************************************************)
ViewsAgree ==
    conn # "none" =>
       /\ Len(views) = Len(up) + 1
       /\ views[1] = View
       /\ \A i \in 1 .. Len(up) : /\ Sensible(views[i], up[i])
                                  /\ views[i+1] = ViewAfter(views[i], up[i])
=============================================================================
