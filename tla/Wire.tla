--------------------------------- MODULE Wire ---------------------------------
(***************************************************************************)
(* The payloads. Each program has its own half of the codec: what one      *)
(* serializes (src/Client/src/payload.cpp) the other deserializes          *)
(* (src/Server/src/payload.cpp), and the reverse for the answers. A body   *)
(* is an opcode and then parts, most of them a length and so many bytes.   *)
(*                                                                         *)
(* A body is a sequence of units, of which an int takes IntSize. Lengths   *)
(* are ints of IntSize bytes: add_int and send keep them modulo 2^32, here *)
(* modulo 2 * Half. What a part holds does not matter, only which unit of  *)
(* which part a reader takes for what.                                     *)
(***************************************************************************)
EXTENDS Integers, Sequences, SequencesExt

CONSTANTS
    IntSize,    \* units of an int
    Half,       \* 2^31: ints are -Half .. Half-1
    Limit,      \* the longest body that is read: 10 MB
    Sizes,      \* lengths of the parts
    DataSizes,  \* lengths of the contents of files
    MaxNames,   \* bound: names of a list
    MaxNoise    \* bound: length of a body that is read out of step

ASSUME WireAssumption ==
    /\ IntSize \in Nat \ {0}
    /\ Half \in Nat
    /\ Limit \in 1 .. Half-1
    /\ Sizes \subseteq Nat
    /\ DataSizes \subseteq Nat
    /\ {MaxNames, MaxNoise} \subseteq Nat

VARIABLES
    sent,     \* the message the body comes from, if any
    body,     \* what the framing handed over
    reader,   \* the opcode that the reader expects
    state,    \* of the reader: "idle", "reading", "refused"
    index,    \* the units read
    todo,     \* the parts it has still to read
    out       \* the parts it has read

vars == <<sent, body, reader, state, index, todo, out>>

-----------------------------------------------------------------------------
(* The two headers number the messages, each with names of its own. *)

ClientOp ==
    [POST_SALT |-> 1, GET_SALT |-> 2, GET_CHALLENGE |-> 3, POST_RESPONSE |-> 4,
     GET_AUTH_RESPONSE |-> 5, POST_SALT_REQUEST |-> 6,
     POST_CHALLENGE_REQUEST |-> 7, POST_UPLOAD |-> 8, GET_DOWNLOAD |-> 9,
     POST_DOWNLOAD_REQUEST |-> 10, POST_LIST_REQUEST |-> 11, GET_LIST |-> 12,
     POST_DELETE_REQUEST |-> 13]

ServerOp ==
    [GET_SALT |-> 1, POST_SALT |-> 2, POST_CHALLENGE |-> 3, GET_RESPONSE |-> 4,
     POST_AUTH_RESPONSE |-> 5, GET_SALT_REQUEST |-> 6,
     GET_CHALLENGE_REQUEST |-> 7, GET_UPLOAD |-> 8, POST_DOWNLOAD |-> 9,
     GET_DOWNLOAD_REQUEST |-> 10, GET_LIST_REQUEST |-> 11, POST_LIST |-> 12,
     GET_DELETE_REQUEST |-> 13]

(* The parts that each serialize writes, each deserialize reads, in order. *)

ClientWrites ==
    [POST_SALT              |-> <<"user", "salt", "pub">>,
     POST_RESPONSE          |-> <<"user", "pub", "response", "r_bytes", "challenge">>,
     POST_SALT_REQUEST      |-> <<"user">>,
     POST_CHALLENGE_REQUEST |-> <<"user">>,
     POST_UPLOAD            |-> <<"user", "data", "filename">>,
     POST_DOWNLOAD_REQUEST  |-> <<"user", "filename">>,
     POST_LIST_REQUEST      |-> <<"user">>,
     POST_DELETE_REQUEST    |-> <<"user", "filename">>]

\* Mutant: GetResponsePayload reads the challenge before the commitment.
ServerReadsSwapped ==
    [GET_SALT               |-> <<"user", "salt", "pub">>,
     GET_RESPONSE           |-> <<"user", "pub", "response", "challenge", "r_bytes">>,
     GET_SALT_REQUEST       |-> <<"user">>,
     GET_CHALLENGE_REQUEST  |-> <<"user">>,
     GET_UPLOAD             |-> <<"user", "data", "filename">>,
     GET_DOWNLOAD_REQUEST   |-> <<"user", "filename">>,
     GET_LIST_REQUEST       |-> <<"user">>,
     GET_DELETE_REQUEST     |-> <<"user", "filename">>]

ServerReads ==
    [GET_SALT               |-> <<"user", "salt", "pub">>,
     GET_RESPONSE           |-> <<"user", "pub", "response", "r_bytes", "challenge">>,
     GET_SALT_REQUEST       |-> <<"user">>,
     GET_CHALLENGE_REQUEST  |-> <<"user">>,
     GET_UPLOAD             |-> <<"user", "data", "filename">>,
     GET_DOWNLOAD_REQUEST   |-> <<"user", "filename">>,
     GET_LIST_REQUEST       |-> <<"user">>,
     GET_DELETE_REQUEST     |-> <<"user", "filename">>]

\* A list is the count of its names and then the names.
ServerWrites ==
    [POST_SALT          |-> <<"user", "salt">>,
     POST_CHALLENGE     |-> <<"user", "challenge">>,
     POST_AUTH_RESPONSE |-> <<"user", "auth_response">>,
     POST_DOWNLOAD      |-> <<"user", "data", "filename">>,
     POST_LIST          |-> <<"user", "count">>]

ClientReads ==
    [GET_SALT          |-> <<"user", "salt">>,
     GET_CHALLENGE     |-> <<"user", "challenge">>,
     GET_AUTH_RESPONSE |-> <<"user", "auth_response">>,
     GET_DOWNLOAD      |-> <<"user", "data", "filename">>,
     GET_LIST          |-> <<"user", "count">>]

-----------------------------------------------------------------------------
(* Writing *)

\* A C++ int.
Int32(x) == ((x + Half) % (2 * Half)) - Half

\* Unit at of part no; for an int, which part is "int", val is its value.
Unit(what, no, at, val) == [what |-> what, no |-> no, at |-> at, val |-> val]

IntUnits(v)       == [i \in 1 .. IntSize |-> Unit("int", 0, i, Int32(v))]
Bytes(f, no, len) == [i \in 1 .. len |-> Unit(f, no, i, 0)]

Written(p, no) ==
    CASE p.field = "auth_response" -> Bytes(p.field, no, 1)
      [] p.field = "count"         -> IntUnits(p.len)
      [] OTHER -> IntUnits(p.len) \o Bytes(p.field, no, p.len)

Serialized(m) ==
    <<Unit("op", 0, 1, m.op)>>
        \o FlattenSeq([i \in 1 .. Len(m.parts) |-> Written(m.parts[i], i)])

\* What arrives: send and SSL_write take an int; the reader has a limit.
Framed(b) ==
    LET n == Int32(Len(b))
    IN  IF n \in 0 .. Limit THEN SubSeq(b, 1, n) ELSE <<>>

\* The messages with the parts of layout.
Lengths(f) ==
    CASE f = "data"          -> DataSizes
      [] f = "count"         -> 0 .. MaxNames
      [] f = "auth_response" -> {1}
      [] OTHER               -> Sizes

Messages(op, layout) ==
    LET N == 1 .. Len(layout)
    IN  {[op |-> op, parts |-> [i \in N |-> [field |-> layout[i], len |-> l[i]]]] :
            l \in {k \in [N -> UNION {Lengths(layout[i]) : i \in N}] :
                      \A i \in N : k[i] \in Lengths(layout[i])}}

Names(k) == [i \in 1 .. k |-> "filename"]

Requests == UNION {Messages(ClientOp[k], ClientWrites[k]) : k \in DOMAIN ClientWrites}

Answers ==
    (UNION {Messages(ServerOp[k], ServerWrites[k]) :
               k \in DOMAIN ServerWrites \ {"POST_LIST"}}) \union
    (UNION {{m \in Messages(ServerOp.POST_LIST, ServerWrites.POST_LIST \o Names(c)) :
                m.parts[2].len = c} : c \in 0 .. MaxNames})

NoMessage == [op |-> 0, parts |-> <<>>]

-----------------------------------------------------------------------------
(* Reading *)

Init ==
    /\ sent = NoMessage
    /\ body = <<>>
    /\ reader = 0
    /\ state = "idle"
    /\ index = 0
    /\ todo = <<>>
    /\ out = <<>>

\* The start of every deserialize, for the reader of op; opens: same opcode.
Begin(m, b, op, layout, opens) ==
    /\ state = "idle"
    /\ sent' = m
    /\ body' = b
    /\ reader' = op
    /\ out' = <<>>
    /\ IF b # <<>> /\ opens
       THEN state' = "reading" /\ index' = 1 /\ todo' = layout
       ELSE state' = "refused" /\ index' = 0 /\ todo' = <<>>

\* interpret_payload picks the reader, or finds none.
ServerReceives(m) ==
    LET kinds == {k \in DOMAIN ServerReads : ServerOp[k] = m.op}
    IN  Begin(m, Framed(Serialized(m)), m.op,
              IF kinds = {} THEN <<>>
              ELSE ServerReads[CHOOSE k \in kinds : TRUE],
              kinds # {})

\* The client has the reader of the answer that it waits for.
ClientReceives(m, k) ==
    Begin(m, Framed(Serialized(m)), ClientOp[k], ClientReads[k],
          ClientOp[k] = m.op)

\* After an answer over the limit the client reads any bytes as an answer.
ClientReceivesNoise(len, k) ==
    \E opens \in BOOLEAN :
        Begin(NoMessage, Bytes("noise", 0, len), ClientOp[k], ClientReads[k],
              opens)

\* Mutant: one unit too many.
RoomAndOne(k) == index + k <= Len(body) + 1

\* Mutant: index + k >= size is refused.
RoomToSpare(k) == index + k < Len(body)

Room(k) == index + k <= Len(body)

\* memcpy of an int: its value, or whatever the units happen to be.
IntRead ==
    LET u == body[index+1]
    IN  IF u.what = "int" /\ u.at = 1 THEN {u.val}
        ELSE {Int32(-1), Half-1} \union 0 .. MaxNoise

Reading(f) == state = "reading" /\ todo # <<>> /\ Head(todo) \in f

\* Skip a length, then take n units for the first part to do.
Take(skip, n) ==
    /\ out' = Append(out, [field |-> Head(todo),
                           units |-> SubSeq(body, index+skip+1, index+skip+n)])
    /\ index' = index + skip + n
    /\ UNCHANGED <<sent, body, reader, state>>

Sized == {"user", "salt", "pub", "response", "r_bytes", "challenge", "data",
          "filename"}

ReadSized ==
    /\ Reading(Sized)
    /\ Room(IntSize)
    /\ \E n \in IntRead : n >= 0 /\ Room(IntSize + n) /\ Take(IntSize, n)
    /\ todo' = Tail(todo)

ReadCount ==
    /\ Reading({"count"})
    /\ Room(IntSize)
    /\ Take(0, IntSize)
    /\ \E n \in IntRead : n >= 0 /\ todo' = Tail(todo) \o Names(n)

ReadByte ==
    /\ Reading({"auth_response"})
    /\ Room(1)
    /\ Take(0, 1)
    /\ todo' = Tail(todo)

\* return false.
Refuse ==
    /\ \/ Reading({"auth_response"}) /\ ~Room(1)
       \/ Reading(Sized \union {"count"}) /\ ~Room(IntSize)
       \/ /\ Reading(Sized \union {"count"})
          /\ Room(IntSize)
          /\ \E n \in IntRead : n < 0 \/ (Reading(Sized) /\ ~Room(IntSize + n))
    /\ state' = "refused"
    /\ UNCHANGED <<sent, body, reader, index, todo, out>>

Accepted == state = "reading" /\ todo = <<>>

\* The payload is used, or not, and deleted.
Delete ==
    /\ Accepted \/ state = "refused"
    /\ sent' = NoMessage /\ body' = <<>> /\ reader' = 0 /\ state' = "idle"
    /\ index' = 0 /\ todo' = <<>> /\ out' = <<>>

-----------------------------------------------------------------------------
Receive ==
    \/ \E m \in Requests : ServerReceives(m)
    \/ \E m \in Answers, k \in DOMAIN ClientReads : ClientReceives(m, k)
    \/ \E len \in 0 .. MaxNoise, k \in DOMAIN ClientReads :
          ClientReceivesNoise(len, k)

Next == Receive \/ ReadSized \/ ReadCount \/ ReadByte \/ Refuse \/ Delete

Spec == Init /\ [][Next]_vars
=============================================================================
