---------------------------- MODULE SessionProps ----------------------------
(***************************************************************************)
(* Session with a history variable, and its properties. The variable       *)
(* restricts no step.                                                      *)
(***************************************************************************)
EXTENDS Session

VARIABLE overflowed   \* the client has given up on an answer over its limit

hvars == <<at, in, got, up, down, serving, stored, sent, handled, link, overflowed>>

Overflow == RecvThrows /\ TooLong(in, ClientLimit)

HInit == Init /\ overflowed = FALSE
HNext == Next /\ overflowed' = (overflowed \/ Overflow)

HSpec     == HInit /\ [][HNext]_hvars
HFairSpec == HSpec /\ Fairness

-----------------------------------------------------------------------------
(***************************************************************************)
(* Types. A reader never holds more than it asked for: a length is read up *)
(* to its last byte, a body up to its length (comms.cpp:114-149 on the     *)
(* server, comms.cpp:118-151 on the client).                               *)
(***************************************************************************)
ReaderOK(r, limit) ==
    /\ r.len \in Unread .. Limit+1 \union UploadSizes \union JunkSizes \union 1 .. MaxRequests+1
    /\ Len(r.buf) <= IF r.len = Unread THEN Header-1
                     ELSE IF TooLong(r, limit) THEN 0 ELSE r.len

TypeOK ==
    /\ at \in Early \union Menus \union Answers \union {"exited"}
    /\ attempt \in 0 .. MaxRetries
    /\ ssl \in {"null", "live", "freed", "freed twice"}
    /\ listener \in {"accepting", "left", "closed"}
    /\ ReaderOK(in, ClientLimit)
    /\ ReaderOK(got, ServerLimit)
    /\ serving \in BOOLEAN
    /\ \A f \in stored : f.op = "upload" /\ f.size <= ServerLimit
    /\ Len(sent) <= MaxRequests

(***************************************************************************)
(* The server handles the requests that the client sent, whole, in order   *)
(* and once each, however the bytes arrive and wherever the connection     *)
(* ends: half an upload is never stored (comms.cpp:105-165).               *)
(***************************************************************************)
HandledInOrder ==
    /\ Len(handled) <= Len(sent)
    /\ handled = SubSeq(sent, 1, Len(handled))

(***************************************************************************)
(* The answer that the client takes is the one to its latest request, and  *)
(* everything it sent before, uploads that have no answer included, has    *)
(* been handled by then (client.cpp:121-122, 293, 322; comms.cpp:154-175). *)
(* An answer over 10 MB ends this: recv throws with the body unread. It is *)
(* a list, or was made of a file that is missing (StoredFilesFit).         *)
(***************************************************************************)
AnswerIsCurrent ==
    [][/\ Take
       /\ ~overflowed
       => /\ Message(in).n = Len(sent)
          /\ Len(handled) = Len(sent)
          /\ down = <<>>
      ]_hvars

(***************************************************************************)
(* Each side has a limit of its own (comms.cpp:127 and Client comms.cpp:   *)
(* 132). What the server accepted as an upload the client can download: a  *)
(* body that it refuses is as long as no file in the store, so it was made *)
(* of one that is missing (data.cpp:56-66). The other answers over the     *)
(* limit are lists and, again of a missing file, salts.                    *)
(***************************************************************************)
StoredFilesFit ==
    [][Overflow /\ ~overflowed
       => /\ at \in {"salt", "file", "names"}
          /\ at = "file" => \A f \in stored : f.size # in.len
      ]_hvars

(***************************************************************************)
(* The client does not wait for ever: every request that has an answer is  *)
(* answered or the connection ends, also when the handler throws           *)
(* (comms.cpp:187-195). Out of step, after an overflow, it may wait.       *)
(***************************************************************************)
WaitEnds == at \in Answers /\ ~overflowed ~> at \notin Answers \/ overflowed

(***************************************************************************)
(* The thread of a connection ends after its client is gone, wherever it   *)
(* was in a frame (comms.cpp:117-121, 144-147).                            *)
(***************************************************************************)
HandlerEnds == at = "exited" ~> ~serving

(***************************************************************************)
(* Whatever attempts fail and how, the client has one socket open and one  *)
(* live SSL object while it talks, and when it is done neither is left     *)
(* (comms.cpp:28-91, comms.hxx:47-59 of the client).                       *)
(***************************************************************************)
OneLink ==
    /\ at = "connecting" => links = 0 /\ ssl # "live"
    /\ at = "exited" => links = 0 /\ ssl # "live"
    /\ at \notin {"connecting", "exited"} => links = 1 /\ ssl = "live"

(***************************************************************************)
(* The client gets to its menu or gives up, after refusals, resets and     *)
(* failed handshakes in any order, a server that is stopped and started    *)
(* again included (comms.cpp:29, 47-53, 69-76 of the client). The one      *)
(* place where it may stay for ever is the backlog of a server whose       *)
(* acceptor has left its loop with the socket open (comms.cpp:74-76,       *)
(* server.cpp:75-76): no timeout of SSL_connect ends that.                 *)
(***************************************************************************)
ConnectEnds ==
    at \in Early ~> \/ at \in Menus \union {"exited"}
                    \/ at = "queued" /\ listener = "left"
=============================================================================
