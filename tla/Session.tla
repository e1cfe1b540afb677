------------------------------- MODULE Session -------------------------------
(***************************************************************************)
(* One connection: how the client sets it up (Comms::tcp_conn) beside what *)
(* becomes of the acceptor (Comms::start_and_listen of the server), its menus *)
(* (src/Client/src/client.cpp), the framing on both sides (send and recv of *)
(* the client, the read loop of handle_client of the server) and what the  *)
(* handler does with a request as far as the connection goes: answer,      *)
(* answer nothing, or throw and so close. What the files then hold is      *)
(* FileStore's concern, whether a secret is right that of ZkAuth.          *)
(*                                                                         *)
(* A frame is a length and a body; it travels in units, of which a read    *)
(* takes as many as have come: one at a time is the finest grain. TLS is a *)
(* stream in each direction that may end anywhere. A write to a connection *)
(* that has ended goes nowhere: both sides ignore the result and SIGPIPE.  *)
(***************************************************************************)
EXTENDS Integers, Sequences, FiniteSets

CONSTANTS
    Header,       \* units of a length
    Limit,        \* the longest body that is read: 10 MB
    UploadSizes,  \* bodies of uploads, in units
    JunkSizes,    \* of answers made of a file that is missing or empty, whose
                  \* size is read into a variable that nothing sets before
    MaxRequests,  \* bound: requests of the session
    MaxRetries    \* MAX_RETRIES

ASSUME SessionAssumption ==
    /\ Header \in Nat \ {0}
    /\ Limit \in Nat \ {0}
    /\ UploadSizes \subseteq Nat \ {0}
    /\ JunkSizes \subseteq Nat \ {0}
    /\ MaxRequests \in Nat
    /\ MaxRetries \in Nat \ {0}

VARIABLES
    at,       \* where the client is: connecting, in a menu, or waiting
    in,       \* what the client's recv has read
    got,      \* what the server's read loop has read
    up,       \* units on their way to the server
    down,     \* units on their way to the client
    serving,  \* whether the handler runs
    stored,   \* the uploads that are in the store
    sent,     \* the requests the client has sent
    handled,  \* the requests that reached the Resolver
    attempt,  \* failed attempts to connect
    links,    \* sockets of the client that are open
    ssl,      \* what m_ssl points to
    listener  \* the listening socket while the client connects: the acceptor
              \* takes from it, has left it open, or it is closed

link == <<attempt, links, ssl, listener>>
vars == <<at, in, got, up, down, serving, stored, sent, handled, link>>

\* The answer that a request has; the others have none.
AnswerTo == [ask_salt |-> "salt", ask_challenge |-> "challenge",
             respond |-> "verdict", download |-> "file", list |-> "names"]

Requests == DOMAIN AnswerTo \union {"register", "upload", "delete"}
Answers  == {AnswerTo[op] : op \in DOMAIN AnswerTo}
Menus    == {"menu", "actions"}

\* In tcp_conn: to connect, in the backlog, and with a handler of its own.
Early == {"connecting", "queued", "handshake"}

-----------------------------------------------------------------------------
(* Frames *)

Payload(op, size, n) == [op |-> op, size |-> size, n |-> n]
\* What a body that is no payload deserializes to.
Garbled == Payload("garbled", 0, 0)

Units(p) == [i \in 1 .. Header + p.size |-> [of |-> p, at |-> i]]

Unread == -1
Fresh  == [len |-> Unread, buf |-> <<>>]

\* A length; out of step, four bytes of a body taken for one.
Lengths(b) == IF b[1].at = 1 THEN {b[1].of.size} ELSE 0 .. Limit+1

Taken(r, u) ==
    LET b == Append(r.buf, u)
    IN  IF r.len = Unread /\ Len(b) = Header
        THEN {[len |-> l, buf |-> <<>>] : l \in Lengths(b)}
        ELSE {[r EXCEPT !.buf = b]}

\* Mutant: one read is taken for the whole body.
CompleteAtOnce(r) == r.len # Unread /\ (r.len > 0 => Len(r.buf) > 0)

\* Mutant: total_read <= len.
CompleteLate(r) == r.len # Unread /\ Len(r.buf) = r.len + 1

Complete(r) == r.len # Unread /\ Len(r.buf) = r.len

Message(r) ==
    IF r.len > 0 /\ r.buf[1].at = Header + 1 /\ r.len = r.buf[1].of.size
       /\ Len(r.buf) = r.len
    THEN r.buf[1].of ELSE Garbled

\* Mutant: the server reads longer bodies than the client.
LongerLimit == Limit + 1

\* The limits of handle_client and of recv.
ServerLimit == Limit
ClientLimit == Limit

Prefixes(s) == {SubSeq(s, 1, k) : k \in 0 .. Len(s)}

-----------------------------------------------------------------------------
Init ==
    /\ at = "connecting"
    /\ in = Fresh
    /\ got = Fresh
    /\ up = <<>>
    /\ down = <<>>
    /\ serving = FALSE
    /\ stored = {}
    /\ sent = <<>>
    /\ handled = <<>>
    /\ attempt = 0
    /\ links = 0
    /\ ssl = "null"
    /\ listener = "closed"

-----------------------------------------------------------------------------
(* The client: connecting, with tcp_conn *)

server == <<got, serving, stored, handled>>

\* Mutant: a socket that was refused is left open.
RefusedSocketStays == links' = links + 1

\* connect fails and the socket is closed.
RefusedSocket == UNCHANGED links

\* Mutant: a failed handshake does not use up an attempt.
NextAttemptSame == UNCHANGED attempt

NextAttempt == attempt' = attempt + 1

Connecting == at = "connecting" /\ attempt < MaxRetries

Refused ==
    /\ Connecting
    /\ RefusedSocket
    /\ attempt' = attempt + 1
    /\ UNCHANGED <<at, in, server, up, down, sent, ssl, listener>>

\* The backlog has room, whether the acceptor takes from it or not. SSL_new
\* makes another object, m_ssl points to it, and SSL_connect waits.
Connected ==
    /\ Connecting
    /\ listener # "closed"
    /\ at' = "queued"
    /\ links' = links + 1
    /\ ssl' = "live"
    /\ UNCHANGED <<in, server, up, down, sent, attempt, listener>>

\* SSL_free, close; m_ssl still points there.
Release ==
    /\ links' = links - 1
    /\ ssl' = "freed"

HandshakeFails ==
    /\ at \in {"queued", "handshake"}
    /\ Release
    /\ NextAttempt
    /\ at' = "connecting"
    /\ UNCHANGED <<in, server, up, down, sent, listener>>

\* The certificate is right too, and the server's handler begins to read.
HandshakeDone ==
    /\ at = "handshake"
    /\ at' = "menu"
    /\ attempt' = 0
    /\ serving' = TRUE
    /\ UNCHANGED <<in, got, stored, handled, up, down, sent, links, ssl, listener>>

\* An exception of init ends the program; ~Comms frees what m_ssl points to.
GiveUp ==
    /\ at' = "exited"
    /\ attempt' = 0
    /\ UNCHANGED <<in, server, up, down, sent, listener>>

WrongCertificate ==
    /\ at = "handshake"
    /\ links' = links - 1
    /\ ssl' = "freed twice"
    /\ GiveUp

\* SSL_new fails.
NoSsl ==
    /\ Connecting
    /\ ssl' = "null"
    /\ UNCHANGED links
    /\ GiveUp

\* No context, no socket, another error of connect, or no attempt left.
InitThrows ==
    /\ at = "connecting"
    /\ ssl' = IF ssl = "freed" THEN "freed twice" ELSE ssl
    /\ UNCHANGED links
    /\ GiveUp

-----------------------------------------------------------------------------
(***************************************************************************)
(* The acceptor, as far as a client that connects can tell. It serves each *)
(* client in a thread of its own. When accept fails it leaves its loop with *)
(* the socket open, and main waits for the operator; a client may then     *)
(* connect to the backlog, and nobody answers its handshake. The socket is *)
(* closed by stop or with the process, which resets what is in the backlog. *)
(***************************************************************************)
Accept ==
    /\ at = "queued" /\ listener = "accepting"
    /\ at' = "handshake"
    /\ UNCHANGED <<in, server, up, down, sent, link>>

Becomes(listening) ==
    /\ listener' = listening
    /\ UNCHANGED <<at, in, server, up, down, sent, attempt, links, ssl>>

Listen       == at = "connecting" /\ listener = "closed" /\ Becomes("accepting")
AcceptFails  == at \in {"connecting", "queued"} /\ listener = "accepting" /\ Becomes("left")
StopsListening == at \in {"connecting", "queued"} /\ listener # "closed" /\ Becomes("closed")

-----------------------------------------------------------------------------
(* The client: its menus *)

\* ~Comms, or the end of the process.
Closed ==
    /\ attempt' = 0
    /\ links' = 0
    /\ ssl' = IF ssl = "live" THEN "freed" ELSE ssl
    /\ UNCHANGED listener

\* serialize and send, then wait for the answer or go on.
Send(op, size, next) ==
    /\ Len(sent) < MaxRequests
    /\ LET p == Payload(op, size, Len(sent) + 1)
       IN  /\ sent' = Append(sent, p)
           /\ up' = IF serving THEN up \o Units(p) ELSE up
    /\ at' = next
    /\ in' = Fresh
    /\ UNCHANGED <<server, link, down>>

Register     == at = "menu" /\ Send("register", 1, "menu")
Authenticate == at = "menu" /\ Send("ask_salt", 1, "salt")
Upload(size) == at = "actions" /\ Send("upload", size, "actions")
Download     == at = "actions" /\ Send("download", 1, "file")
SeeList      == at = "actions" /\ Send("list", 1, "names")
Delete       == at = "actions" /\ Send("delete", 1, "actions")

LogOut ==
    /\ at = "actions"
    /\ at' = "menu"
    /\ UNCHANGED <<in, server, link, up, down, sent>>

\* Exit, or the end of the process anywhere.
Quit ==
    /\ at # "exited"
    /\ at' = "exited"
    /\ in' = Fresh
    /\ down' = <<>>
    /\ up' \in Prefixes(up)
    /\ Closed
    /\ UNCHANGED <<server, sent>>

\* Back to the menu that catches the exception.
Menu == IF at \in {"file", "names"} THEN "actions" ELSE "menu"

Abandon ==
    /\ at' = Menu
    /\ in' = Fresh
    /\ UNCHANGED <<server, link, up, sent>>

TooLong(r, limit) == r.len > limit

\* SSL_read inside recv.
Recv ==
    /\ at \in Answers
    /\ ~Complete(in) /\ ~TooLong(in, ClientLimit)
    /\ down # <<>>
    /\ in' \in Taken(in, Head(down))
    /\ down' = Tail(down)
    /\ UNCHANGED <<at, server, link, up, sent>>

RecvThrows ==
    /\ at \in Answers
    /\ \/ TooLong(in, ClientLimit)
       \/ ~Complete(in) /\ down = <<>> /\ ~serving
    /\ Abandon
    /\ UNCHANGED down

(***************************************************************************)
(* deserialize and go on. A reader refuses an answer of another kind; of a *)
(* body that is no payload it may make one of its own kind. A verdict may  *)
(* be no.                                                                  *)
(***************************************************************************)
Refusable  == Message(in).op # at
Acceptable == Message(in).op = at \/ (Message(in) = Garbled /\ in.len > 0)

Take ==
    /\ at \in Answers
    /\ Complete(in) /\ ~TooLong(in, ClientLimit)
    /\ \/ Refusable /\ Abandon /\ UNCHANGED down
       \/ /\ Acceptable
          /\ CASE at = "salt"      -> Send("ask_challenge", 1, "challenge")
               [] at = "challenge" -> Send("respond", 1, "verdict")
               [] at = "verdict"   ->
                     /\ at' \in Menus
                     /\ in' = Fresh
                     /\ UNCHANGED <<server, link, up, down, sent>>
               [] OTHER            -> Abandon /\ UNCHANGED down

\* Python throws between two requests of _authenticate.
TakeThrows ==
    /\ at \in {"salt", "challenge"}
    /\ Complete(in) /\ Acceptable
    /\ Abandon
    /\ UNCHANGED down

-----------------------------------------------------------------------------
(* The server *)

client == <<at, in, sent, link>>

\* SSL_shutdown and close: what the client has not read yet may be lost.
CloseConnection ==
    /\ serving' = FALSE
    /\ got' = Fresh
    /\ up' = <<>>
    /\ down' \in Prefixes(down)
    /\ UNCHANGED client

ServerReads ==
    /\ serving
    /\ ~Complete(got) /\ ~TooLong(got, ServerLimit)
    /\ up # <<>>
    /\ got' \in Taken(got, Head(up))
    /\ up' = Tail(up)
    /\ UNCHANGED <<client, down, serving, stored, handled>>

\* Mutant: the loop ends on an error only, not at the end of the stream.
EndOnErrorOnly ==
    /\ serving /\ TooLong(got, ServerLimit)
    /\ CloseConnection
    /\ UNCHANGED <<stored, handled>>

\* The client is gone, or the length is refused: run = false.
EndLoop ==
    /\ serving
    /\ \/ TooLong(got, ServerLimit)
       \/ ~Complete(got) /\ up = <<>> /\ at = "exited"
    /\ CloseConnection
    /\ UNCHANGED <<stored, handled>>

\* How long the answer to p can be. What a file's upload was, its download is.
\* Challenges and verdicts are short; the salt, the body and the index are read
\* from files.
AnswerSizes(p) ==
    CASE p.op = "list"     -> {1 + Cardinality(stored)} \union JunkSizes
      [] p.op = "download" -> {f.size : f \in stored} \union JunkSizes
      [] p.op = "ask_salt" -> {1} \union JunkSizes
      [] OTHER             -> {1}

\* Mutant: an upload is acknowledged.
SolveAcknowledging(p) ==
    IF p.op \in DOMAIN AnswerTo
    THEN {<<Payload(AnswerTo[p.op], size, p.n)>> : size \in AnswerSizes(p)}
    ELSE {IF p.op = "upload" THEN <<Payload("names", 1, p.n)>> ELSE <<>>}

\* Resolver::solve: an answer or none.
Solve(p) ==
    IF p.op \in DOMAIN AnswerTo
    THEN {<<Payload(AnswerTo[p.op], size, p.n)>> : size \in AnswerSizes(p)}
    ELSE {<<>>}

\* What the store may hold after p; a delete may find nothing.
StoredAfter(p) ==
    CASE p.op = "upload" -> {stored \union {p}}
      [] p.op = "delete" -> {stored \ {f} : f \in stored} \union {stored}
      [] OTHER           -> {stored}

HasRequest == serving /\ Complete(got) /\ ~TooLong(got, ServerLimit)

\* interpret_payload, deserialize, solve, and SSL_write of the answer.
Handle ==
    /\ HasRequest
    /\ LET p == Message(got)
       IN  IF p = Garbled
           THEN UNCHANGED <<down, stored, handled>>
           ELSE /\ \E answer \in Solve(p) :
                      down' = IF answer = <<>> \/ at = "exited" THEN down
                              ELSE down \o Units(answer[1])
                /\ stored' \in StoredAfter(p)
                /\ handled' = Append(handled, p)
    /\ got' = Fresh
    /\ UNCHANGED <<client, up, serving>>

\* Mutant: the exception is caught inside the loop.
ThrowGoesOn ==
    /\ HasRequest
    /\ Message(got) # Garbled
    /\ handled' = Append(handled, Message(got))
    /\ got' = Fresh
    /\ UNCHANGED <<client, up, down, serving, stored>>

\* A handler throws: a missing record, a missing file, an error in Python.
HandlerThrows ==
    /\ HasRequest
    /\ Message(got) # Garbled
    /\ handled' = Append(handled, Message(got))
    /\ CloseConnection
    /\ UNCHANGED stored

\* The server process ends, or the network does.
Cut ==
    /\ serving
    /\ CloseConnection
    /\ UNCHANGED <<stored, handled>>

-----------------------------------------------------------------------------
Ask ==
    \/ Register \/ Authenticate \/ LogOut
    \/ Download \/ SeeList \/ Delete
    \/ \E size \in UploadSizes : Upload(size)

ClientStep == Recv \/ RecvThrows \/ Take \/ TakeThrows
ServerStep == ServerReads \/ EndLoop \/ Handle \/ HandlerThrows

TryConnect == Refused \/ Connected \/ NoSsl \/ InitThrows
Handshake  == HandshakeFails \/ HandshakeDone \/ WrongCertificate

Acceptor   == Accept \/ Listen \/ AcceptFails \/ StopsListening

Next ==
    \/ TryConnect \/ Handshake \/ Acceptor
    \/ Ask \/ Quit \/ ClientStep \/ ServerStep \/ Cut

\* Somebody is there to end the handshake: a handler, or the reset of the socket.
Attended == at = "handshake" \/ listener = "closed"

(***************************************************************************)
(* recv and the read loop go on when there is something to read, or when   *)
(* the stream has ended. connect returns. The acceptor takes the clients   *)
(* that wait while it is in its loop. SSL_connect has no timeout: it       *)
(* returns once a handler runs, which begins with SSL_accept, or once the  *)
(* listening socket is closed; in the backlog of an acceptor that has left *)
(* its loop it need not. Nobody must choose anything from a menu, no       *)
(* server must be started or stopped, and accept need not fail.            *)
(***************************************************************************)
Fairness ==
    /\ WF_vars(TryConnect) /\ WF_vars(Accept) /\ WF_vars(Attended /\ Handshake)
    /\ WF_vars(ClientStep) /\ WF_vars(ServerStep)

Spec     == Init /\ [][Next]_vars
FairSpec == Spec /\ Fairness
=============================================================================
