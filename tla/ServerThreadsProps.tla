------------------------- MODULE ServerThreadsProps -------------------------
(***************************************************************************)
(* ServerThreads with two history variables, and its properties. Neither   *)
(* variable restricts a step.                                              *)
(***************************************************************************)
EXTENDS ServerThreads, FiniteSets

VARIABLES
    overlapped,   \* two updates of _active_clients have overlapped
    late          \* connections accepted after "stop" was typed

hvars == <<main, cli, m_should_stop, m_sock, socket, conn,
           _active_clients, loaded, shown, overlapped, late>>

\* The threads between the load and the store of an update.
Updating == {c \in Client : conn[c] = "leaving"} \union
               (IF main = "store" THEN {Main} ELSE {})

HInit == Init /\ overlapped = FALSE /\ late = 0

HNext ==
    /\ Next
    /\ overlapped' = (overlapped \/ \E s, t \in Updating' : s # t)
    /\ late' = IF m_should_stop /\ main = "accept" /\ main' = "load"
               THEN late + 1 ELSE late

HSpec     == HInit /\ [][HNext]_hvars
HFairSpec == HSpec /\ Fairness

-----------------------------------------------------------------------------
MainPlaces == {"setup", "bind", "loop", "call", "accept", "failed", "load",
               "store", "spawn", "join"} \union Ended

(***************************************************************************)
(* Types. A descriptor that close_sock may use is the listening socket, -1,*)
(* or the zero of the static object (comms.hxx:27, comms.cpp:200).         *)
(***************************************************************************)
TypeOK ==
    /\ main \in MainPlaces
    /\ cli \in {"reading", "shutdown", "close", "done"}
    /\ m_should_stop \in BOOLEAN
    /\ m_sock \in {-1, 0, Listen}
    /\ socket \in {"none", "open", "listening", "shut"}
    /\ conn \in [Client -> {"out", "queued", "accepted", "serving", "closed",
                            "leaving", "gone", "refused"}]
    /\ _active_clients \in Int
    /\ loaded \in [Client \union {Main} -> Int]
    /\ shown \in Int
    /\ overlapped \in BOOLEAN
    /\ late \in Nat

(***************************************************************************)
(* The connections that the count should stand for: from the store of the  *)
(* increment (comms.cpp:87) to the store of the decrement (comms.cpp:197). *)
(***************************************************************************)
Counted ==
    {c \in Client : \/ conn[c] \in {"serving", "closed", "leaving"}
                    \/ conn[c] = "accepted" /\ main \notin {"load", "store"}}

(***************************************************************************)
(* The count is exact as long as no two of its updates have overlapped:    *)
(* every accepted connection is counted once and uncounted once, on the    *)
(* exception path as on the other (comms.cpp:87, 182-197).                 *)
(***************************************************************************)
CountIsExact == ~overlapped => _active_clients = Cardinality(Counted)

(***************************************************************************)
(* After "stop" at most one more connection is accepted: the accept that   *)
(* was already past the loop's test (comms.cpp:70, server.cpp:38-39).      *)
(***************************************************************************)
OneLateAccept == late <= 1

(***************************************************************************)
(* An acceptor that is inside accept when the command line has finished    *)
(* stopping holds a socket that was shut: it cannot be left blocked on a   *)
(* listening socket that nobody will shut (server.cpp:38-39 sets the flag  *)
(* first, comms.cpp:202 shuts before it closes).                           *)
(***************************************************************************)
NotLeftBlocked ==
    cli = "done" /\ m_should_stop /\ main = "accept" => socket = "shut"

(***************************************************************************)
(* "stop" ends the process: wherever the acceptor is when the flag is set, *)
(* before the socket exists and inside accept included, main comes to its  *)
(* return (server.cpp:36-40, 75-76).                                       *)
(***************************************************************************)
StopEndsServer == m_should_stop ~> ~Running

(***************************************************************************)
(* No client waits in the backlog for ever: it is accepted, or refused by  *)
(* the shutdown, or the acceptor gives up, which only a failed accept or   *)
(* "stop" makes it do (comms.cpp:70-91). An end of input on the command    *)
(* line leaves the acceptor running (server.cpp:30).                       *)
(***************************************************************************)
QueuedClientIsTaken ==
    \A c \in Client :
        conn[c] = "queued" ~> conn[c] # "queued" \/ main = "join" \/ ~Running
=============================================================================
