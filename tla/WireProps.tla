------------------------------ MODULE WireProps ------------------------------
(***************************************************************************)
(* Properties of Wire.                                                     *)
(***************************************************************************)
EXTENDS Wire

(***************************************************************************)
(* Types. The unchecked _payload[index++] of every deserialize stays       *)
(* within the body, and no vector is resized beyond it, for any body: one  *)
(* that a wrapped length has cut, or that is no payload at all             *)
(* (payload.cpp:32-40 and its like).                                       *)
(***************************************************************************)
TypeOK ==
    /\ state \in {"idle", "reading", "refused"}
    /\ index \in 0 .. Len(body)
    /\ Len(body) <= IF sent = NoMessage THEN MaxNoise ELSE Limit
    /\ \A i \in 1 .. Len(out) : Len(out[i].units) <= Len(body)

\* The lengths of m and of its body are ints, and the body is not too long.
Fits(m) == Len(Serialized(m)) <= Limit

\* The parts of m, as a reader should find them.
PartUnits(m, i) ==
    CASE m.parts[i].field = "auth_response" -> Bytes("auth_response", i, 1)
      [] m.parts[i].field = "count"         -> IntUnits(m.parts[i].len)
      [] OTHER -> Bytes(m.parts[i].field, i, m.parts[i].len)

PartsOf(m) ==
    [i \in 1 .. Len(m.parts) |->
        [field |-> m.parts[i].field, units |-> PartUnits(m, i)]]

(***************************************************************************)
(* The halves agree: what a reader accepts is the message as it was sent,  *)
(* part by part and to the last byte, and no reader takes a message for    *)
(* one of another kind. It needs Fits: a file of 2^32 bytes and more has   *)
(* a length that wraps, and a prefix of its body may be accepted           *)
(* (Client payload.cpp:95, Client comms.cpp:108).                          *)
(***************************************************************************)
AcceptedIsSent ==
    Accepted /\ sent # NoMessage /\ Fits(sent)
    => out = PartsOf(sent) /\ index = Len(body)

(***************************************************************************)
(* Nothing that was sent is lost to the codec: a request that fits, empty  *)
(* parts and a body at the very limit included, is not refused by the      *)
(* server, nor an answer that fits by the client that waits for it         *)
(* (comms.cpp:154-164; client.cpp:127, 147, 163, 302, 327).                *)
(***************************************************************************)
SentIsAccepted ==
    state = "refused" /\ sent # NoMessage /\ Fits(sent)
    => \E k \in DOMAIN ClientReads : reader = ClientOp[k] /\ reader # sent.op
=============================================================================
