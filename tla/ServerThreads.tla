--------------------------- MODULE ServerThreads ---------------------------
(***************************************************************************)
(* The threads of the server process: main, which becomes the acceptor     *)
(* (Server::start, Comms::start_and_listen), the command line              *)
(* (Server::run_cli, Comms::close_sock) and one detached thread for each   *)
(* connection (Comms::handle_client). They share m_should_stop, which is   *)
(* atomic, and m_sock and _active_clients, which are plain ints: ++ and -- *)
(* are a load and a store that another thread can come between.            *)
(*                                                                         *)
(* What a handler does with its requests is left out here: it serves until *)
(* its connection ends, for whatever reason. Each client connects once.    *)
(***************************************************************************)
EXTENDS Integers

CONSTANTS
    Client,   \* the clients that may connect
    Main,     \* the acceptor, as a holder of a register
    Listen,   \* the file descriptor of the listening socket
    Faults    \* what may fail: "setup", "listen", "accept", "spawn"

ASSUME ThreadsAssumption ==
    /\ Main \notin Client
    /\ Listen \in Nat \ {0}
    /\ Faults \subseteq {"setup", "listen", "accept", "spawn"}

VARIABLES
    main,             \* where the main thread is
    cli,              \* where the command line thread is
    m_should_stop,
    m_sock,
    socket,           \* the kernel's side of the listening socket
    conn,             \* conn[c]: the connection of c and its handler
    _active_clients,
    loaded,           \* loaded[t]: the count that thread t has in a register
    shown             \* the latest count "stats" printed

vars == <<main, cli, m_should_stop, m_sock, socket, conn,
          _active_clients, loaded, shown>>

listening == <<m_should_stop, m_sock, socket>>
count     == <<_active_clients, loaded>>

Ended   == {"exited", "terminated"}
Running == main \notin Ended

\* Mutant: Comms is a local object and m_sock holds whatever is there.
UnsetSock == 1

\* Comms is a static object, so m_sock is 0 until it is first assigned.
InitialSock == 0

Init ==
    /\ main = "setup"
    /\ cli = "reading"
    /\ m_should_stop = FALSE
    /\ m_sock = InitialSock
    /\ socket = "none"
    /\ conn = [c \in Client |-> "out"]
    /\ _active_clients = 0
    /\ loaded = [t \in Client \union {Main} |-> 0]
    /\ shown = 0

-----------------------------------------------------------------------------
(* The acceptor *)

Goto(from, to) == main = from /\ main' = to

(***************************************************************************)
(* create_context and getaddrinfo may throw: cli_thread is joinable, so    *)
(* leaving start ends the process.                                         *)
(***************************************************************************)
SetupFails ==
    /\ "setup" \in Faults
    /\ Goto("setup", "terminated")
    /\ UNCHANGED <<cli, listening, conn, count, shown>>

OpenSocket ==
    /\ Goto("setup", "bind")
    /\ m_sock' = Listen
    /\ socket' = "open"
    /\ UNCHANGED <<cli, m_should_stop, conn, count, shown>>

\* bind and listen; close_sock may have taken the socket away meanwhile.
Bind ==
    /\ Goto("bind", "loop")
    /\ \/ /\ m_sock = Listen
          /\ socket' = "listening"
          /\ UNCHANGED m_sock
       \/ /\ m_sock = Listen => "listen" \in Faults
          /\ socket' = "shut"
          /\ m_sock' = -1
    /\ UNCHANGED <<cli, m_should_stop, conn, count, shown>>

\* Mutant: while (true).
CheckNothing ==
    /\ Goto("loop", "call")
    /\ UNCHANGED <<cli, listening, conn, count, shown>>

Check ==
    /\ main = "loop"
    /\ main' = IF m_should_stop THEN "join" ELSE "call"
    /\ UNCHANGED <<cli, listening, conn, count, shown>>

\* accept(m_sock): it blocks in the kernel, or fails at once.
Call ==
    /\ main = "call"
    /\ main' = IF m_sock = Listen THEN "accept" ELSE "failed"
    /\ UNCHANGED <<cli, listening, conn, count, shown>>

AcceptClient(c) ==
    /\ Goto("accept", "load")
    /\ socket = "listening"
    /\ conn[c] = "queued"
    /\ conn' = [conn EXCEPT ![c] = "accepted"]
    /\ UNCHANGED <<cli, listening, count, shown>>

AcceptShut ==
    /\ Goto("accept", "failed")
    /\ socket = "shut"
    /\ UNCHANGED <<cli, listening, conn, count, shown>>

\* ECONNABORTED, EMFILE and the like.
AcceptFault ==
    /\ "accept" \in Faults
    /\ Goto("accept", "failed")
    /\ UNCHANGED <<cli, listening, conn, count, shown>>

\* An error ends the loop unless the server is stopping; then its test does.
AcceptFailed ==
    /\ main = "failed"
    /\ main' = IF m_should_stop THEN "loop" ELSE "join"
    /\ UNCHANGED <<cli, listening, conn, count, shown>>

LoadForIncrement ==
    /\ Goto("load", "store")
    /\ loaded' = [loaded EXCEPT ![Main] = _active_clients]
    /\ UNCHANGED <<cli, listening, conn, _active_clients, shown>>

StoreIncrement ==
    /\ Goto("store", "spawn")
    /\ _active_clients' = loaded[Main] + 1
    /\ UNCHANGED <<cli, listening, conn, loaded, shown>>

\* Mutant: join instead of detach.
SpawnAndJoin ==
    /\ main = "spawn"
    /\ \/ /\ \E c \in Client : conn[c] = "accepted"
          /\ conn' = [c \in Client |->
                         IF conn[c] = "accepted" THEN "serving" ELSE conn[c]]
          /\ UNCHANGED main
       \/ /\ \A c \in Client : conn[c] \in {"out", "queued", "gone", "refused"}
          /\ main' = "loop"
          /\ UNCHANGED conn
    /\ UNCHANGED <<cli, listening, count, shown>>

Spawn ==
    /\ Goto("spawn", "loop")
    /\ conn' = [c \in Client |->
                   IF conn[c] = "accepted" THEN "serving" ELSE conn[c]]
    /\ UNCHANGED <<cli, listening, count, shown>>

\* The std::thread constructor throws.
SpawnFails ==
    /\ "spawn" \in Faults
    /\ Goto("spawn", "terminated")
    /\ UNCHANGED <<cli, listening, conn, count, shown>>

\* main returns; the detached handlers end with the process.
Join ==
    /\ Goto("join", "exited")
    /\ cli = "done"
    /\ UNCHANGED <<cli, listening, conn, count, shown>>

-----------------------------------------------------------------------------
(* The command line *)

Say(from, to) == Running /\ cli = from /\ cli' = to

Stop ==
    /\ Say("reading", "shutdown")
    /\ m_should_stop' = TRUE
    /\ UNCHANGED <<main, m_sock, socket, conn, count, shown>>

Stats ==
    /\ Say("reading", "reading")
    /\ shown' = _active_clients
    /\ UNCHANGED <<main, listening, conn, count>>

EndOfInput ==
    /\ Say("reading", "done")
    /\ UNCHANGED <<main, listening, conn, count, shown>>

\* Mutant: close_sock closes without shutdown.
NoShutdown ==
    /\ Say("shutdown", IF m_sock >= 0 THEN "close" ELSE "done")
    /\ UNCHANGED <<main, listening, conn, count, shown>>

\* shutdown resets the clients that wait to be accepted.
Shutdown ==
    /\ Say("shutdown", IF m_sock >= 0 THEN "close" ELSE "done")
    /\ IF m_sock = Listen /\ socket = "listening"
       THEN /\ socket' = "shut"
            /\ conn' = [c \in Client |->
                           IF conn[c] = "queued" THEN "refused" ELSE conn[c]]
       ELSE UNCHANGED <<socket, conn>>
    /\ UNCHANGED <<main, m_should_stop, m_sock, count, shown>>

\* A thread blocked in accept keeps the socket that it waits on.
Close ==
    /\ Say("close", "done")
    /\ m_sock' = -1
    /\ socket' = IF m_sock = Listen /\ main # "accept" THEN "shut" ELSE socket
    /\ UNCHANGED <<main, m_should_stop, conn, count, shown>>

-----------------------------------------------------------------------------
(* The clients and their handlers *)

Step(c, from, to) ==
    /\ Running
    /\ conn[c] = from
    /\ conn' = [conn EXCEPT ![c] = to]

Connect(c) ==
    /\ socket = "listening"
    /\ Step(c, "out", "queued")
    /\ UNCHANGED <<main, cli, listening, count, shown>>

\* The frame loop ends: disconnect, bad length, exception, failed handshake.
EndServing(c) ==
    /\ Step(c, "serving", "closed")
    /\ UNCHANGED <<main, cli, listening, count, shown>>

LoadForDecrement(c) ==
    /\ Step(c, "closed", "leaving")
    /\ loaded' = [loaded EXCEPT ![c] = _active_clients]
    /\ UNCHANGED <<main, cli, listening, _active_clients, shown>>

\* Mutant: the count goes down only on the exception path.
StoreSometimes(c) ==
    /\ Step(c, "leaving", "gone")
    /\ _active_clients' \in {loaded[c] - 1, loaded[c]}
    /\ UNCHANGED <<main, cli, listening, loaded, shown>>

StoreDecrement(c) ==
    /\ Step(c, "leaving", "gone")
    /\ _active_clients' = loaded[c] - 1
    /\ UNCHANGED <<main, cli, listening, loaded, shown>>

-----------------------------------------------------------------------------
MainStep ==
    \/ OpenSocket \/ Bind \/ Check \/ Call
    \/ \E c \in Client : AcceptClient(c)
    \/ AcceptShut \/ AcceptFailed
    \/ LoadForIncrement \/ StoreIncrement \/ Spawn \/ Join

Fault == SetupFails \/ AcceptFault \/ SpawnFails

CloseSock == Shutdown \/ Close

Leave(c) == LoadForDecrement(c) \/ StoreDecrement(c)

Next ==
    \/ MainStep \/ Fault
    \/ Stop \/ Stats \/ EndOfInput \/ CloseSock
    \/ \E c \in Client : Connect(c) \/ EndServing(c) \/ Leave(c)

(***************************************************************************)
(* The scheduler lets every thread go on. Nobody must connect, disconnect  *)
(* or type anything, and nothing must fail.                                *)
(***************************************************************************)
Fairness ==
    /\ WF_vars(MainStep)
    /\ WF_vars(CloseSock)
    /\ \A c \in Client : WF_vars(Leave(c))

Spec     == Init /\ [][Next]_vars
FairSpec == Spec /\ Fairness
=============================================================================
