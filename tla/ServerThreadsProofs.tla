------------------------ MODULE ServerThreadsProofs ------------------------
(***************************************************************************)
(* Proofs about ServerThreads, for any set of clients and any faults.      *)
(***************************************************************************)
EXTENDS ServerThreadsProps, FiniteSetTheorems, TLAPS

(***************************************************************************)
(* The socket: what create_listen_sock has made of it, and what close_sock *)
(* can still find of it.                                                   *)
(***************************************************************************)
SocketInv ==
    /\ main = "setup" => socket = "none" /\ m_sock # Listen
    /\ main = "bind" => socket \in {"open", "shut"}
    /\ main \notin {"setup", "bind"} \union Ended
          => socket \in {"listening", "shut"}
    /\ cli = "reading" => ~m_should_stop
    /\ socket = "listening" /\ cli \in {"reading", "shutdown"} => m_sock = Listen
    /\ m_should_stop /\ main \in {"call", "accept"} /\ socket = "listening"
          => cli = "shutdown"

(***************************************************************************)
(* A connection accepted after "stop" takes the acceptor out of its loop.  *)
(***************************************************************************)
LateInv ==
    /\ late \in {0, 1}
    /\ late = 1 => /\ m_should_stop
                   /\ main \in {"load", "store", "spawn", "loop", "join"} \union Ended

(***************************************************************************)
(* Only the acceptor's current connection is accepted and not yet served.  *)
(***************************************************************************)
AcceptedInv ==
    /\ main \in {"load", "store", "spawn"} => \E c \in Client : conn[c] = "accepted"
    /\ \A c \in Client : conn[c] = "accepted" =>
          /\ main \in {"load", "store", "spawn", "terminated"}
          /\ \A d \in Client : conn[d] = "accepted" => d = c

(***************************************************************************)
(* While no two updates have overlapped, the one thread that is updating   *)
(* holds the count as it is.                                               *)
(***************************************************************************)
CountInv ==
    /\ (\E s, t \in Updating : s # t) => overlapped
    /\ ~overlapped =>
          /\ IsFiniteSet(Counted)
          /\ _active_clients = Cardinality(Counted)
          /\ \A t \in Updating : loaded[t] = _active_clients

IInv == TypeOK /\ SocketInv /\ LateInv /\ AcceptedInv /\ CountInv

-----------------------------------------------------------------------------
LEMMA TypeStep ==
    ASSUME TypeOK, [HNext]_hvars
    PROVE  TypeOK'
<1> USE DEF TypeOK, MainPlaces, Ended, listening, count, Goto, Say, Step, Running
<1>1. CASE UNCHANGED hvars
  BY <1>1 DEF hvars
<1>2. CASE HNext
  <2>1. overlapped' \in BOOLEAN /\ late' \in Nat
    BY <1>2 DEF HNext
  <2>2. ASSUME MainStep PROVE TypeOK'
    BY <2>1, <2>2, ThreadsAssumption
       DEF MainStep, OpenSocket, Bind, Check, Call, AcceptClient, AcceptShut,
           AcceptFailed, LoadForIncrement, StoreIncrement, Spawn, Join
  <2>3. ASSUME Fault PROVE TypeOK'
    BY <2>1, <2>3 DEF Fault, SetupFails, AcceptFault, SpawnFails
  <2>4. ASSUME Stop \/ Stats \/ EndOfInput \/ CloseSock PROVE TypeOK'
    <3>1. CASE Stop
      BY <2>1, <3>1 DEF Stop
    <3>2. CASE Stats
      BY <2>1, <3>2 DEF Stats
    <3>3. CASE EndOfInput
      BY <2>1, <3>3 DEF EndOfInput
    <3>4. CASE Shutdown
      BY <2>1, <3>4 DEF Shutdown
    <3>5. CASE Close
      BY <2>1, <3>5 DEF Close
    <3> QED BY <2>4, <3>1, <3>2, <3>3, <3>4, <3>5 DEF CloseSock
  <2>5. ASSUME NEW c \in Client, Connect(c) \/ EndServing(c) \/ Leave(c)
        PROVE  TypeOK'
    BY <2>1, <2>5
       DEF Connect, EndServing, Leave, LoadForDecrement, StoreDecrement
  <2> QED
    BY <1>2, <2>2, <2>3, <2>4, <2>5 DEF HNext, Next
<1> QED
  BY <1>1, <1>2

LEMMA SocketStep ==
    ASSUME TypeOK, SocketInv, [HNext]_hvars
    PROVE  SocketInv'
<1> USE DEF TypeOK, SocketInv, MainPlaces, Ended, listening, count, Goto, Say,
            Step, Running
<1>1. CASE UNCHANGED hvars
  BY <1>1 DEF hvars
<1>2. CASE HNext
  <2>2. ASSUME MainStep PROVE SocketInv'
    BY <2>2, ThreadsAssumption
       DEF MainStep, OpenSocket, Bind, Check, Call, AcceptClient, AcceptShut,
           AcceptFailed, LoadForIncrement, StoreIncrement, Spawn, Join
  <2>3. ASSUME Fault PROVE SocketInv'
    BY <2>3 DEF Fault, SetupFails, AcceptFault, SpawnFails
  <2>4. ASSUME Stop \/ Stats \/ EndOfInput \/ CloseSock PROVE SocketInv'
    BY <2>4, ThreadsAssumption
       DEF Stop, Stats, EndOfInput, CloseSock, Shutdown, Close
  <2>5. ASSUME NEW c \in Client, Connect(c) \/ EndServing(c) \/ Leave(c)
        PROVE  SocketInv'
    BY <2>5 DEF Connect, EndServing, Leave, LoadForDecrement, StoreDecrement
  <2> QED
    BY <1>2, <2>2, <2>3, <2>4, <2>5 DEF HNext, Next
<1> QED
  BY <1>1, <1>2

LEMMA LateStep ==
    ASSUME TypeOK, LateInv, [HNext]_hvars
    PROVE  LateInv'
<1> USE DEF TypeOK, LateInv, MainPlaces, Ended, listening, count, Goto, Say,
            Step, Running
<1>1. CASE UNCHANGED hvars
  BY <1>1 DEF hvars
<1>2. CASE HNext
  <2>1. late' = IF m_should_stop /\ main = "accept" /\ main' = "load"
                THEN late + 1 ELSE late
    BY <1>2 DEF HNext
  <2>2. ASSUME MainStep PROVE LateInv'
    BY <2>1, <2>2
       DEF MainStep, OpenSocket, Bind, Check, Call, AcceptClient, AcceptShut,
           AcceptFailed, LoadForIncrement, StoreIncrement, Spawn, Join
  <2>3. ASSUME Fault PROVE LateInv'
    BY <2>1, <2>3 DEF Fault, SetupFails, AcceptFault, SpawnFails
  <2>4. ASSUME Stop \/ Stats \/ EndOfInput \/ CloseSock PROVE LateInv'
    BY <2>1, <2>4 DEF Stop, Stats, EndOfInput, CloseSock, Shutdown, Close
  <2>5. ASSUME NEW c \in Client, Connect(c) \/ EndServing(c) \/ Leave(c)
        PROVE  LateInv'
    BY <2>1, <2>5
       DEF Connect, EndServing, Leave, LoadForDecrement, StoreDecrement
  <2> QED
    BY <1>2, <2>2, <2>3, <2>4, <2>5 DEF HNext, Next
<1> QED
  BY <1>1, <1>2

LEMMA AcceptedStep ==
    ASSUME TypeOK, AcceptedInv, [HNext]_hvars
    PROVE  AcceptedInv'
<1> USE DEF TypeOK, AcceptedInv, MainPlaces, Ended, listening, count, Goto, Say,
            Step, Running
<1>1. CASE UNCHANGED hvars
  BY <1>1 DEF hvars
<1>2. CASE HNext
  <2>1. ASSUME NEW c \in Client, AcceptClient(c) PROVE AcceptedInv'
    BY <2>1 DEF AcceptClient
  <2>2. ASSUME Spawn PROVE AcceptedInv'
    BY <2>2 DEF Spawn
  <2>3. ASSUME \/ OpenSocket \/ Bind \/ Check \/ Call \/ AcceptShut \/ AcceptFailed
               \/ LoadForIncrement \/ StoreIncrement \/ Join
        PROVE  AcceptedInv'
    BY <2>3
       DEF OpenSocket, Bind, Check, Call, AcceptShut, AcceptFailed,
           LoadForIncrement, StoreIncrement, Join
  <2>4. ASSUME Fault PROVE AcceptedInv'
    BY <2>4 DEF Fault, SetupFails, AcceptFault, SpawnFails
  <2>5. ASSUME Stop \/ Stats \/ EndOfInput \/ CloseSock PROVE AcceptedInv'
    BY <2>5 DEF Stop, Stats, EndOfInput, CloseSock, Shutdown, Close
  <2>6. ASSUME NEW c \in Client, Connect(c) \/ EndServing(c) \/ Leave(c)
        PROVE  AcceptedInv'
    BY <2>6 DEF Connect, EndServing, Leave, LoadForDecrement, StoreDecrement
  <2> QED
    BY <1>2, <2>1, <2>2, <2>3, <2>4, <2>5, <2>6 DEF HNext, Next, MainStep
<1> QED
  BY <1>1, <1>2

(***************************************************************************)
(* What a step that neither loads nor stores the count must keep.          *)
(***************************************************************************)
LEMMA CountKept ==
    ASSUME CountInv, Counted' = Counted, Updating' = Updating,
           overlapped' = (overlapped \/ \E s, t \in Updating' : s # t),
           UNCHANGED count
    PROVE  CountInv'
  BY DEF CountInv, count

LEMMA CountStep ==
    ASSUME TypeOK, AcceptedInv, CountInv, [HNext]_hvars
    PROVE  CountInv'
<1> USE DEF MainPlaces, Ended, listening, count, Goto, Say, Step, Running
<1>1. CASE UNCHANGED hvars
  <2>1. Counted' = Counted /\ Updating' = Updating
    BY <1>1 DEF hvars, Counted, Updating
  <2> QED
    BY <1>1, <2>1 DEF hvars, CountInv
<1>2. CASE HNext
  <2>1. overlapped' = (overlapped \/ \E s, t \in Updating' : s # t)
    BY <1>2 DEF HNext
  <2>2. ASSUME NEW c \in Client, AcceptClient(c) PROVE CountInv'
    <3>1. Counted' = Counted
      BY <2>2 DEF AcceptClient, Counted, TypeOK, AcceptedInv
    <3>2. Updating' = Updating
      BY <2>2 DEF AcceptClient, Updating, TypeOK
    <3> QED
      BY <2>1, <2>2, <3>1, <3>2, CountKept DEF AcceptClient
  <2>3. ASSUME Spawn PROVE CountInv'
    <3>1. Counted' = Counted
      BY <2>3 DEF Spawn, Counted, TypeOK
    <3>2. Updating' = Updating
      BY <2>3 DEF Spawn, Updating, TypeOK
    <3> QED
      BY <2>1, <2>3, <3>1, <3>2, CountKept DEF Spawn
  <2>4. ASSUME \/ OpenSocket \/ Bind \/ Check \/ Call \/ AcceptShut
               \/ AcceptFailed \/ Join \/ Fault
        PROVE  CountInv'
    <3>1. /\ main \notin {"load", "store"} /\ main' \notin {"load", "store"}
          /\ UNCHANGED <<conn, _active_clients, loaded>>
      BY <2>4 DEF OpenSocket, Bind, Check, Call, AcceptShut, AcceptFailed, Join,
                  Fault, SetupFails, AcceptFault, SpawnFails
    <3>2. Counted' = Counted /\ Updating' = Updating
      BY <3>1 DEF Counted, Updating
    <3> QED
      BY <2>1, <3>1, <3>2, CountKept
  <2>5. ASSUME LoadForIncrement PROVE CountInv'
    <3>1. Counted' = Counted
      BY <2>5 DEF LoadForIncrement, Counted
    <3>2. Updating' = Updating \union {Main} /\ Main \notin Updating
      BY <2>5, ThreadsAssumption DEF LoadForIncrement, Updating
    <3>3. CASE overlapped'
      BY <3>3 DEF CountInv
    <3>4. CASE ~overlapped'
      <4>1. Updating' = {Main}
        BY <2>1, <3>2, <3>4
      <4>2. loaded'[Main] = _active_clients
        BY <2>5 DEF LoadForIncrement, TypeOK
      <4> QED
        BY <2>1, <2>5, <3>1, <3>4, <4>1, <4>2 DEF LoadForIncrement, CountInv
    <3> QED
      BY <3>3, <3>4, <2>1 DEF TypeOK
  <2>6. ASSUME StoreIncrement PROVE CountInv'
    <3>1. PICK c \in Client : conn[c] = "accepted"
      BY <2>6 DEF StoreIncrement, AcceptedInv
    <3>2. Counted' = Counted \union {c} /\ c \notin Counted
      BY <2>6, <3>1 DEF StoreIncrement, Counted, AcceptedInv
    <3>3. Updating' = Updating \ {Main} /\ Main \in Updating
      BY <2>6, ThreadsAssumption DEF StoreIncrement, Updating
    <3>4. CASE overlapped'
      BY <3>4 DEF CountInv
    <3>5. CASE ~overlapped'
      <4>1. Updating' = {}
        BY <2>1, <3>3, <3>5 DEF CountInv
      <4>2. ~overlapped
        BY <2>1, <3>5
      <4>3. IsFiniteSet(Counted') /\ Cardinality(Counted') = Cardinality(Counted) + 1
        BY <3>2, <4>2, FS_AddElement DEF CountInv
      <4>4. _active_clients' = _active_clients + 1
        BY <2>6, <3>3, <4>2 DEF StoreIncrement, CountInv
      <4> QED
        BY <4>1, <4>2, <4>3, <4>4, <3>5 DEF CountInv
    <3> QED
      BY <3>4, <3>5, <2>1 DEF TypeOK
  <2>7. ASSUME Stop \/ Stats \/ EndOfInput \/ CloseSock PROVE CountInv'
    <3>1. Counted' = Counted
      BY <2>7 DEF Stop, Stats, EndOfInput, CloseSock, Shutdown, Close, Counted, TypeOK
    <3>2. Updating' = Updating
      BY <2>7 DEF Stop, Stats, EndOfInput, CloseSock, Shutdown, Close, Updating, TypeOK
    <3> QED
      BY <2>1, <2>7, <3>1, <3>2, CountKept
         DEF Stop, Stats, EndOfInput, CloseSock, Shutdown, Close
  <2>8. ASSUME NEW c \in Client, Connect(c) \/ EndServing(c) PROVE CountInv'
    <3>1. Counted' = Counted
      BY <2>8 DEF Connect, EndServing, Counted, TypeOK
    <3>2. Updating' = Updating
      BY <2>8 DEF Connect, EndServing, Updating, TypeOK
    <3> QED
      BY <2>1, <2>8, <3>1, <3>2, CountKept DEF Connect, EndServing
  <2>9. ASSUME NEW c \in Client, LoadForDecrement(c) PROVE CountInv'
    <3>1. Counted' = Counted
      BY <2>9 DEF LoadForDecrement, Counted, TypeOK
    <3>2. Updating' = Updating \union {c}
      BY <2>9 DEF LoadForDecrement, Updating, TypeOK
    <3>3. CASE overlapped'
      BY <3>3 DEF CountInv
    <3>4. CASE ~overlapped'
      <4>1. Updating' = {c}
        BY <2>1, <3>2, <3>4
      <4>2. loaded'[c] = _active_clients
        BY <2>9 DEF LoadForDecrement, TypeOK
      <4> QED
        BY <2>1, <2>9, <3>1, <3>4, <4>1, <4>2 DEF LoadForDecrement, CountInv
    <3> QED
      BY <3>3, <3>4, <2>1 DEF TypeOK
  <2>10. ASSUME NEW c \in Client, StoreDecrement(c) PROVE CountInv'
    <3>1. Counted' = Counted \ {c} /\ c \in Counted
      BY <2>10 DEF StoreDecrement, Counted, TypeOK
    <3>2. Updating' = Updating \ {c} /\ c \in Updating
      BY <2>10, ThreadsAssumption DEF StoreDecrement, Updating, TypeOK
    <3>3. CASE overlapped'
      BY <3>3 DEF CountInv
    <3>4. CASE ~overlapped'
      <4>1. Updating' = {}
        BY <2>1, <3>2, <3>4 DEF CountInv
      <4>2. ~overlapped
        BY <2>1, <3>4
      <4>3. IsFiniteSet(Counted') /\ Cardinality(Counted') = Cardinality(Counted) - 1
        BY <3>1, <4>2, FS_RemoveElement DEF CountInv
      <4>4. _active_clients' = _active_clients - 1
        BY <2>10, <3>2, <4>2 DEF StoreDecrement, CountInv
      <4> QED
        BY <4>1, <4>2, <4>3, <4>4, <3>4 DEF CountInv
    <3> QED
      BY <3>3, <3>4, <2>1 DEF TypeOK
  <2> QED
    BY <1>2, <2>2, <2>3, <2>4, <2>5, <2>6, <2>7, <2>8, <2>9, <2>10
       DEF HNext, Next, MainStep, Leave
<1> QED
  BY <1>1, <1>2

-----------------------------------------------------------------------------
LEMMA IInvHolds == HSpec => []IInv
<1>1. HInit => IInv
  <2> SUFFICES ASSUME HInit PROVE IInv
    OBVIOUS
  <2>1. Counted = {} /\ Updating = {}
    BY ThreadsAssumption DEF HInit, Init, Counted, Updating
  <2>2. IsFiniteSet(Counted) /\ Cardinality(Counted) = 0
    BY <2>1, FS_EmptySet
  <2>3. TypeOK
    <3>1. /\ main \in MainPlaces
          /\ cli \in {"reading", "shutdown", "close", "done"}
          /\ m_should_stop \in BOOLEAN
      BY DEF HInit, Init, MainPlaces
    <3>2. /\ conn = [c \in Client |-> "out"]
          /\ loaded = [t \in Client \union {Main} |-> 0]
      BY DEF HInit, Init
    <3>3. /\ conn \in [Client -> {"out", "queued", "accepted", "serving",
                                 "closed", "leaving", "gone", "refused"}]
          /\ loaded \in [Client \union {Main} -> Int]
      BY <3>2
    <3>4. /\ m_sock \in {-1, 0, Listen}
          /\ socket \in {"none", "open", "listening", "shut"}
          /\ _active_clients \in Int
          /\ shown \in Int
          /\ late \in Nat
      BY DEF HInit, Init, InitialSock
    <3>5. overlapped \in BOOLEAN
      BY DEF HInit
    <3> QED
      BY <3>1, <3>3, <3>4, <3>5 DEF TypeOK
  <2>4. SocketInv
    BY ThreadsAssumption DEF HInit, Init, InitialSock, SocketInv, Ended
  <2>5. LateInv /\ AcceptedInv
    BY DEF HInit, Init, LateInv, AcceptedInv
  <2>6. CountInv
    BY <2>1, <2>2 DEF HInit, Init, CountInv
  <2> QED
    BY <2>3, <2>4, <2>5, <2>6 DEF IInv
<1>2. IInv /\ [HNext]_hvars => IInv'
  BY TypeStep, SocketStep, LateStep, AcceptedStep, CountStep DEF IInv
<1> QED
  BY <1>1, <1>2, PTL DEF HSpec

(***************************************************************************)
(* Every thread of the server stays within its types.                      *)
(***************************************************************************)
THEOREM ThreadsTypeCorrect == HSpec => []TypeOK
<1>1. IInv => TypeOK
  BY DEF IInv
<1> QED
  BY <1>1, IInvHolds, PTL

(***************************************************************************)
(* For any number of connections, _active_clients is the number of counted *)
(* connections until two of its updates overlap.                           *)
(***************************************************************************)
THEOREM CountStaysExact == HSpec => []CountIsExact
<1>1. IInv => CountIsExact
  BY DEF IInv, CountInv, CountIsExact
<1> QED
  BY <1>1, IInvHolds, PTL

(***************************************************************************)
(* However many clients wait, at most one is accepted after "stop".        *)
(***************************************************************************)
THEOREM AtMostOneLateAccept == HSpec => []OneLateAccept
<1>1. IInv => OneLateAccept
  BY DEF IInv, LateInv, OneLateAccept
<1> QED
  BY <1>1, IInvHolds, PTL

(***************************************************************************)
(* Once the command line has stopped the server, the acceptor does not     *)
(* wait on a socket that nobody will shut.                                 *)
(***************************************************************************)
THEOREM NeverLeftBlocked == HSpec => []NotLeftBlocked
<1>1. IInv => NotLeftBlocked
  BY DEF IInv, SocketInv, NotLeftBlocked, Ended
<1> QED
  BY <1>1, IInvHolds, PTL
=============================================================================
