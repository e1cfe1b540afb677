---------------------------- MODULE SessionProofs ----------------------------
(***************************************************************************)
(* Proofs about Session, for every length of a header, every limit, any    *)
(* sizes of uploads and any number of requests and attempts to connect.    *)
(* The invariant follows the bytes: at every instant the unit that the     *)
(* server reads next is the one behind the last that it has read.          *)
(* A second one follows the answers: what the client has read, and what is *)
(* under way behind it, is the beginning of the one answer it waits for.   *)
(* A third bounds the sizes of what is under way and stored, in step or    *)
(* out of it.                                                              *)
(***************************************************************************)
EXTENDS SessionProps, SequenceTheorems, FiniteSetTheorems, TLAPS

Payloads == [op : Requests, size : Nat \ {0}, n : Nat]
Unit     == [of : Payloads, at : Nat \ {0}]

\* The place behind place a of request n of s.
After(s, n, a) ==
    IF n \in 1 .. Len(s) /\ a = Header + s[n].size THEN <<n + 1, 1>> ELSE <<n, a + 1>>

Place(u) == <<u.of.n, u.at>>

\* The server is about to read, or reads, request Now, and has read so much of it.
Now    == Len(handled) + 1
Offset == IF got.len = Unread THEN Len(got.buf) ELSE Header + Len(got.buf)

PhaseInv ==
    /\ at \in Early \union Menus \union Answers \union {"exited"}
    /\ serving \in BOOLEAN
    /\ ~serving => up = <<>> /\ got = Fresh
    /\ at \in Early => ~serving /\ sent = <<>> /\ handled = <<>>

SentInv ==
    /\ sent \in Seq(Payloads)
    /\ \A i \in 1 .. Len(sent) : sent[i].n = i

HandledInv ==
    /\ handled \in Seq(Payloads)
    /\ Len(handled) <= Len(sent)
    /\ \A i \in 1 .. Len(handled) : handled[i] = sent[i]

GotInv ==
    /\ got \in [len : Int, buf : Seq(Unit)]
    /\ got # Fresh => Now <= Len(sent)
    /\ got.len = Unread => Len(got.buf) < Header
    /\ got.len # Unread => got.len = sent[Now].size /\ Len(got.buf) <= got.len
    /\ \A i \in 1 .. Len(got.buf) :
          got.buf[i] = [of |-> sent[Now], at |-> IF got.len = Unread THEN i ELSE Header + i]

UpInv ==
    /\ up \in Seq(Unit)
    /\ \A i \in 1 .. Len(up) : /\ up[i].of.n \in 1 .. Len(sent)
                               /\ up[i].of = sent[up[i].of.n]
    /\ up # <<>> => Place(up[1]) = After(sent, Now, Offset)
    /\ \A i \in 1 .. Len(up) - 1 : Place(up[i+1]) = After(sent, up[i].of.n, up[i].at)

\* What is sent next follows what is under way.
EndInv ==
    serving /\ at # "exited" =>
       <<Len(sent) + 1, 1>> = IF up = <<>> THEN After(sent, Now, Offset)
                              ELSE After(sent, up[Len(up)].of.n, up[Len(up)].at)

SInv == PhaseInv /\ SentInv /\ HandledInv /\ GotInv /\ UpInv /\ EndInv

-----------------------------------------------------------------------------
LEMMA StringFacts ==
    /\ Menus \cap (Early \union {"exited"}) = {}
    /\ Answers \cap (Early \union Menus \union {"exited"}) = {}
    /\ Answers = {"salt", "challenge", "verdict", "file", "names"}
    /\ {"register", "ask_salt", "ask_challenge", "respond", "upload", "download",
        "list", "delete"} = Requests
    /\ "garbled" \notin Requests
<1>1. DOMAIN AnswerTo = {"ask_salt", "ask_challenge", "respond", "download", "list"}
  BY DEF AnswerTo
<1>2. Answers = {"salt", "challenge", "verdict", "file", "names"}
  BY <1>1 DEF Answers, AnswerTo
<1> QED BY <1>1, <1>2 DEF Requests, Menus, Early

LEMMA UnitsAre ==
    ASSUME NEW p \in Payloads
    PROVE  /\ Units(p) \in Seq(Unit)
           /\ Len(Units(p)) = Header + p.size
           /\ Header + p.size \in Nat \ {0}
           /\ \A i \in 1 .. Header + p.size : Units(p)[i] = [of |-> p, at |-> i]
<1>1. Header + p.size \in Nat \ {0}
  BY SessionAssumption DEF Payloads
<1>2. \A i \in 1 .. Header + p.size : [of |-> p, at |-> i] \in Unit
  BY <1>1 DEF Unit
<1> QED BY <1>1, <1>2 DEF Units

LEMMA SInit == HInit => SInv
<1> SUFFICES ASSUME Init PROVE SInv
  BY DEF HInit
<1>1. PhaseInv
  BY DEF Init, PhaseInv, Early
<1>2. SentInv /\ HandledInv
  BY DEF Init, SentInv, HandledInv
<1>3. GotInv /\ UpInv
  BY SessionAssumption DEF Init, GotInv, UpInv, Fresh, Unread
<1>4. EndInv
  BY DEF Init, EndInv
<1> QED BY <1>1, <1>2, <1>3, <1>4 DEF SInv

\* The places of what was sent before do not change when more is sent.
LEMMA AfterKept ==
    ASSUME SentInv, NEW p, sent' = Append(sent, p), NEW n \in Nat, NEW a \in Nat,
           n <= Len(sent) \/ (n = Len(sent) + 1 /\ a = 0), p \in Payloads
    PROVE  After(sent', n, a) = After(sent, n, a)
<1>1. Len(sent') = Len(sent) + 1 /\ \A i \in 1 .. Len(sent) : sent'[i] = sent[i]
  BY DEF SentInv
<1>2. sent'[Len(sent) + 1] = p
  BY DEF SentInv
<1>3. Header + p.size \in Nat \ {0}
  BY UnitsAre
<1> QED BY <1>1, <1>2, <1>3 DEF After, SentInv

\* No unit of an earlier request waits for the reader when all was handled.
LEMMA OffsetFacts ==
    ASSUME SInv
    PROVE  /\ Len(sent) \in Nat /\ Len(handled) \in Nat /\ Now \in Nat \ {0}
           /\ Offset \in Nat
           /\ Now <= Len(sent) \/ (Now = Len(sent) + 1 /\ Offset = 0)
<1>1. Len(sent) \in Nat /\ Len(handled) \in Nat /\ Len(handled) <= Len(sent)
  BY DEF SInv, SentInv, HandledInv
<1>2. Len(got.buf) \in Nat
  BY DEF SInv, GotInv
<1>3. got = Fresh => Offset = 0
  BY DEF Offset, Fresh, Unread
<1> QED BY <1>1, <1>2, <1>3, SessionAssumption DEF Now, Offset, SInv, GotInv

-----------------------------------------------------------------------------
(* A request is sent *)

LEMMA SendKeeps ==
    ASSUME SInv, NEW op \in Requests, NEW size \in Nat \ {0}, NEW next,
           next \in Menus \union Answers, at \notin Early \union {"exited"},
           Send(op, size, next)
    PROVE  SInv'
<1> DEFINE p == Payload(op, size, Len(sent) + 1)
           us == Units(p)
<1>1. /\ sent' = Append(sent, p)
      /\ up' = IF serving THEN up \o us ELSE up
      /\ at' = next
      /\ UNCHANGED <<got, serving, handled>>
  BY DEF Send, server
<1>2. p \in Payloads /\ p.n = Len(sent) + 1 /\ p.size = size
  BY OffsetFacts DEF Payload, Payloads
<1>3. /\ us \in Seq(Unit) /\ Len(us) = Header + size /\ Header + size \in Nat \ {0}
      /\ \A i \in 1 .. Header + size : us[i] = [of |-> p, at |-> i]
  BY <1>2, UnitsAre
<1> HIDE DEF p, us
<1>4. /\ Len(sent) \in Nat /\ Len(sent') = Len(sent) + 1 /\ sent'[Len(sent) + 1] = p
      /\ \A i \in 1 .. Len(sent) : sent'[i] = sent[i]
      /\ sent' \in Seq(Payloads)
  BY <1>1, <1>2 DEF SInv, SentInv
<1>5. SentInv'
  BY <1>2, <1>4 DEF SInv, SentInv
<1>6. HandledInv'
  BY <1>1, <1>4, OffsetFacts DEF SInv, HandledInv
<1>7. PhaseInv'
  BY <1>1, StringFacts DEF SInv, PhaseInv
<1>8. GotInv'
  <2>1. got # Fresh => sent'[Now] = sent[Now] /\ Now <= Len(sent')
    BY <1>4, OffsetFacts DEF SInv, GotInv
  <2>2. got = Fresh => got.len = Unread /\ Len(got.buf) = 0
    BY DEF Fresh
  <2> QED BY <1>1, <2>1, <2>2 DEF SInv, GotInv, Now
<1>9. /\ Now' = Now /\ Offset' = Offset
      /\ After(sent', Now, Offset) = After(sent, Now, Offset)
  BY <1>1, <1>2, AfterKept, OffsetFacts DEF Now, Offset, SInv
<1>10. ASSUME NEW i \in 1 .. Len(up)
       PROVE  /\ up[i].of.n \in 1 .. Len(sent) /\ up[i].at \in Nat \ {0} /\ up[i] \in Unit
              /\ up[i].of = sent'[up[i].of.n]
              /\ After(sent', up[i].of.n, up[i].at) = After(sent, up[i].of.n, up[i].at)
  <2>1. up[i].of.n \in 1 .. Len(sent) /\ up[i] \in Unit /\ up[i].of = sent[up[i].of.n]
    BY DEF SInv, UpInv
  <2>2. up[i].at \in Nat \ {0}
    BY <2>1 DEF Unit
  <2> QED BY <1>1, <1>2, <1>4, <2>1, <2>2, AfterKept DEF SInv
<1>11. CASE ~serving
  <2>1. up' = <<>> /\ up = <<>>
    BY <1>1, <1>11 DEF SInv, PhaseInv
  <2>2. UpInv'
    BY <2>1 DEF UpInv
  <2>3. EndInv'
    BY <1>1, <1>11 DEF EndInv
  <2> QED BY <1>5, <1>6, <1>7, <1>8, <2>2, <2>3 DEF SInv
<1>12. CASE serving
  <2>1. up' = up \o us /\ up \in Seq(Unit) /\ Len(up) \in Nat
    BY <1>1, <1>12 DEF SInv, UpInv
  <2>2. /\ up' \in Seq(Unit) /\ Len(up') = Len(up) + (Header + size)
        /\ \A i \in 1 .. Len(up) : up'[i] = up[i]
        /\ \A i \in 1 .. Header + size : up'[Len(up) + i] = [of |-> p, at |-> i]
    <3>1. /\ up' \in Seq(Unit) /\ Len(up') = Len(up) + Len(us)
          /\ \A i \in 1 .. Len(up) + Len(us) : up'[i] = IF i <= Len(up) THEN up[i] ELSE us[i - Len(up)]
      <4>1. /\ up \o us \in Seq(Unit) /\ Len(up \o us) = Len(up) + Len(us)
            /\ \A i \in 1 .. Len(up) + Len(us) :
                  (up \o us)[i] = IF i <= Len(up) THEN up[i] ELSE us[i - Len(up)]
        <5>1. up \in Seq(Unit) /\ us \in Seq(Unit)
          BY <1>3, <2>1
        <5> QED BY ONLY <5>1, ConcatProperties
      <4> QED BY ONLY <2>1, <4>1, Zenon
    <3>2. ASSUME NEW i \in 1 .. Header + size PROVE up'[Len(up) + i] = [of |-> p, at |-> i]
      <4>1. /\ Len(up) + i \in 1 .. Len(up) + Len(us) /\ ~(Len(up) + i <= Len(up))
            /\ (Len(up) + i) - Len(up) = i
        BY <1>3, <2>1
      <4>2. up'[Len(up) + i] = us[i]
        BY <3>1, <4>1
      <4> QED BY <1>3, <4>2
    <3> QED BY <1>3, <2>1, <3>1, <3>2
  <2>3. ASSUME NEW i \in 1 .. Header + size
        PROVE  up'[Len(up) + i].of = p /\ up'[Len(up) + i].at = i
    <3>1. up'[Len(up) + i] = [of |-> p, at |-> i]
      BY <2>2
    <3> QED BY <3>1
  <2>4. ASSUME NEW j \in 1 .. Len(up')
        PROVE  \/ j \in 1 .. Len(up)
               \/ j - Len(up) \in 1 .. Header + size /\ j = Len(up) + (j - Len(up))
    BY <1>3, <2>1, <2>2
  <2>5. ASSUME NEW j \in 1 .. Len(up')
        PROVE  up'[j].of.n \in 1 .. Len(sent') /\ up'[j].of = sent'[up'[j].of.n]
    <3>1. CASE j \in 1 .. Len(up)
      BY <1>4, <1>10, <2>2, <3>1
    <3>2. CASE j - Len(up) \in 1 .. Header + size /\ j = Len(up) + (j - Len(up))
      <4>1. up'[j].of = p
        BY <2>3, <3>2
      <4> QED BY <1>2, <1>4, <4>1
    <3> QED BY <2>4, <3>1, <3>2
  <2>6. <<Len(sent) + 1, 1>> = IF up = <<>> THEN After(sent', Now, Offset)
                               ELSE After(sent', up[Len(up)].of.n, up[Len(up)].at)
    <3>1. <<Len(sent) + 1, 1>> = IF up = <<>> THEN After(sent, Now, Offset)
                                 ELSE After(sent, up[Len(up)].of.n, up[Len(up)].at)
      BY <1>12 DEF SInv, EndInv
    <3>2. up # <<>> => Len(up) \in 1 .. Len(up)
      BY <2>1
    <3> QED BY <1>9, <1>10, <3>1, <3>2
  <2>7. up'[Len(up) + 1].of = p /\ up'[Len(up) + 1].at = 1 /\ Place(up'[Len(up) + 1]) = <<Len(sent) + 1, 1>>
    BY <1>2, <1>3, <2>3 DEF Place
  <2>8. up' # <<>> => Place(up'[1]) = After(sent', Now, Offset)
    <3>1. CASE up = <<>>
      BY <2>1, <2>6, <2>7, <3>1
    <3>2. CASE up # <<>>
      <4>1. 1 \in 1 .. Len(up)
        BY <2>1, <3>2
      <4> QED BY <1>9, <2>2, <3>2, <4>1 DEF SInv, UpInv
    <3> QED BY <3>1, <3>2
  <2>9. ASSUME NEW j \in 1 .. Len(up') - 1
        PROVE  Place(up'[j+1]) = After(sent', up'[j].of.n, up'[j].at)
    <3>1. CASE j < Len(up)
      <4>1. j \in 1 .. Len(up) /\ j + 1 \in 1 .. Len(up) /\ j \in 1 .. Len(up) - 1
        BY <2>1, <3>1
      <4>2. up'[j] = up[j] /\ up'[j+1] = up[j+1]
        BY <2>2, <4>1
      <4>3. Place(up[j+1]) = After(sent, up[j].of.n, up[j].at)
        BY <4>1 DEF SInv, UpInv
      <4> QED BY <1>10, <4>1, <4>2, <4>3
    <3>2. CASE j = Len(up)
      <4>1. up # <<>> /\ j \in 1 .. Len(up) /\ up'[j] = up[j]
        BY <2>1, <2>2, <3>2
      <4> QED BY <2>6, <2>7, <3>2, <4>1
    <3>3. CASE j > Len(up)
      <4> DEFINE i == j - Len(up)
      <4>1. i \in 1 .. Header + size /\ i + 1 \in 1 .. Header + size
            /\ j = Len(up) + i /\ j + 1 = Len(up) + (i + 1)
        BY <1>3, <2>1, <2>2, <3>3
      <4> HIDE DEF i
      <4>2. up'[j].of = p /\ up'[j].at = i /\ up'[j+1].of = p /\ up'[j+1].at = i + 1
        BY <2>3, <4>1
      <4>3. i # Header + size
        BY <4>1, <1>3
      <4> QED BY <1>2, <1>4, <4>2, <4>3 DEF After, Place
    <3> QED BY <2>1, <2>2, <3>1, <3>2, <3>3
  <2>10. UpInv'
    BY <1>9, <2>2, <2>5, <2>8, <2>9 DEF UpInv
  <2>11. EndInv'
    <3>1. up' # <<>> /\ Len(up') = Len(up) + (Header + size)
      BY <1>3, <2>1, <2>2
    <3>2. up'[Len(up')].of = p /\ up'[Len(up')].at = Header + size
      BY <1>3, <2>3, <3>1
    <3>3. After(sent', p.n, Header + size) = <<Len(sent') + 1, 1>>
      BY <1>2, <1>4 DEF After
    <3> QED BY <1>2, <3>1, <3>2, <3>3 DEF EndInv
  <2> QED BY <1>5, <1>6, <1>7, <1>8, <2>10, <2>11 DEF SInv
<1> QED BY <1>11, <1>12

-----------------------------------------------------------------------------
(* The server reads *)

\* Nothing that a step leaves alone can break the invariant.
LEMMA Untouched ==
    ASSUME SInv, UNCHANGED <<got, up, serving, sent, handled>>,
           at' \in Menus \union Answers \union {"exited"},
           at = "exited" => at' = "exited"
    PROVE  SInv'
<1>1. /\ Now' = Now /\ Offset' = Offset
  BY DEF Now, Offset
<1>2. PhaseInv'
  <2>1. at' \notin Early
    BY StringFacts DEF Early
  <2> QED BY <2>1 DEF SInv, PhaseInv
<1>3. SentInv' /\ HandledInv'
  BY DEF SInv, SentInv, HandledInv
<1>4. GotInv'
  BY <1>1 DEF SInv, GotInv
<1>5. UpInv'
  BY <1>1 DEF SInv, UpInv
<1>6. EndInv'
  BY <1>1 DEF SInv, EndInv
<1> QED BY <1>2, <1>3, <1>4, <1>5, <1>6 DEF SInv

\* The unit that is read is the next of the request that is read.
LEMMA HeadIsNext ==
    ASSUME SInv, up # <<>>, ~Complete(got)
    PROVE  /\ Head(up) = up[1] /\ up[1] \in Unit /\ Now <= Len(sent)
           /\ up[1] = [of |-> sent[Now], at |-> Offset + 1]
<1>1. up \in Seq(Unit) /\ Len(up) \in Nat \ {0}
  BY EmptySeq DEF SInv, UpInv
<1>2. /\ Head(up) = up[1] /\ up[1] \in Unit
      /\ up[1].of.n \in 1 .. Len(sent) /\ up[1].of = sent[up[1].of.n]
      /\ Place(up[1]) = After(sent, Now, Offset)
  BY <1>1 DEF SInv, UpInv
<1>3. After(sent, Now, Offset) = <<Now, Offset + 1>>
  <2>1. CASE Now \notin 1 .. Len(sent)
    BY <2>1 DEF After
  <2>2. CASE Now \in 1 .. Len(sent)
    <3>1. sent[Now] \in Payloads
      BY <2>2 DEF SInv, SentInv
    <3>2. Offset # Header + sent[Now].size
      BY <3>1, SessionAssumption DEF SInv, GotInv, Offset, Complete, Payloads
    <3> QED BY <3>2 DEF After
  <2> QED BY <2>1, <2>2
<1>4. up[1].of.n = Now /\ up[1].at = Offset + 1
  BY <1>2, <1>3 DEF Place
<1>5. up[1] = [of |-> up[1].of, at |-> up[1].at]
  BY <1>2 DEF Unit
<1> QED BY <1>2, <1>4, <1>5, OffsetFacts

LEMMA ReadKeeps ==
    ASSUME SInv, ServerReads
    PROVE  SInv'
<1> DEFINE u == up[1]
           m == sent[Now]
           b == Append(got.buf, u)
<1>1. /\ serving /\ ~Complete(got) /\ up # <<>>
      /\ got' \in Taken(got, Head(up)) /\ up' = Tail(up)
      /\ UNCHANGED <<at, sent, serving, handled>>
  BY DEF ServerReads, client
<1>2. /\ Head(up) = u /\ u \in Unit /\ u = [of |-> m, at |-> Offset + 1] /\ Now <= Len(sent)
  BY <1>1, HeadIsNext
<1>3. /\ Now \in 1 .. Len(sent) /\ Len(sent) \in Nat /\ m \in Payloads /\ m.n = Now /\ Offset \in Nat
  BY <1>2, OffsetFacts DEF SInv, SentInv
<1>4. /\ got.buf \in Seq(Unit) /\ Len(got.buf) \in Nat /\ got.len \in Int
  BY DEF SInv, GotInv
<1> HIDE DEF u, m
<1>5. /\ b \in Seq(Unit) /\ Len(b) = Len(got.buf) + 1
      /\ \A i \in 1 .. Len(got.buf) : b[i] = got.buf[i]
      /\ b[Len(got.buf) + 1] = u
  BY <1>2, <1>4
<1> HIDE DEF b
<1>6. \A i \in 1 .. Len(b) : b[i] = [of |-> m, at |-> IF got.len = Unread THEN i ELSE Header + i]
  <2> SUFFICES ASSUME NEW i \in 1 .. Len(b)
               PROVE  b[i] = [of |-> m, at |-> IF got.len = Unread THEN i ELSE Header + i]
    OBVIOUS
  <2>1. CASE i \in 1 .. Len(got.buf)
    BY <1>5, <2>1 DEF SInv, GotInv, m
  <2>2. CASE i = Len(got.buf) + 1
    <3>1. Offset + 1 = IF got.len = Unread THEN i ELSE Header + i
      BY <1>4, <2>2, SessionAssumption DEF Offset
    <3> QED BY <1>2, <1>5, <2>2, <3>1
  <2> QED BY <1>4, <1>5, <2>1, <2>2
<1>7. ASSUME got.len = Unread, Len(b) = Header
      PROVE  GotInv' /\ Now' = Now /\ Offset' = Offset + 1
  <2>1. 1 \in 1 .. Len(b) /\ Header \in Nat \ {0}
    BY <1>7, SessionAssumption
  <2>2. b[1] = [of |-> m, at |-> 1]
    BY <1>6, <1>7, <2>1
  <2>3. Lengths(b) = {m.size}
    BY <2>2 DEF Lengths
  <2>4. got' = [len |-> m.size, buf |-> <<>>]
    BY <1>1, <1>2, <1>7, <2>3 DEF Taken, b
  <2>5. m.size \in Nat \ {0} /\ m.size # Unread
    BY <1>3 DEF Payloads, Unread
  <2>6. /\ Now' = Now /\ Now <= Len(sent) /\ Offset' = Offset + 1
    BY <1>1, <1>2, <1>4, <1>5, <1>7, <2>4, <2>5, SessionAssumption DEF Now, Offset
  <2>7. GotInv'
    BY <1>1, <2>4, <2>5, <2>6 DEF GotInv, m
  <2> QED BY <2>6, <2>7
<1>8. ASSUME ~(got.len = Unread /\ Len(b) = Header)
      PROVE  GotInv' /\ Now' = Now /\ Offset' = Offset + 1
  <2>1. got' = [got EXCEPT !.buf = b]
    BY <1>1, <1>2, <1>8 DEF Taken, b
  <2>2. got'.len = got.len /\ got'.buf = b /\ got' \in [len : Int, buf : Seq(Unit)]
    BY <1>5, <2>1 DEF SInv, GotInv
  <2>3. Now' = Now
    BY <1>1 DEF Now
  <2>7. Offset' = Offset + 1
    <3>1. Offset' = IF got.len = Unread THEN Len(b) ELSE Header + Len(b)
      BY <2>2 DEF Offset
    <3> QED BY <1>4, <1>5, <3>1, SessionAssumption DEF Offset
  <2>4. got'.len = Unread => Len(got'.buf) < Header
    BY <1>4, <1>5, <1>8, <2>2, SessionAssumption DEF SInv, GotInv
  <2>5. got'.len # Unread => got'.len = m.size /\ Len(got'.buf) <= got'.len
    BY <1>1, <1>4, <1>5, <2>2 DEF SInv, GotInv, Complete, m
  <2>6. GotInv'
    BY <1>1, <1>2, <1>6, <2>2, <2>3, <2>4, <2>5 DEF GotInv, m
  <2> QED BY <2>3, <2>6, <2>7
<1>9. GotInv' /\ Now' = Now /\ Offset' = Offset + 1
  BY <1>7, <1>8
<1>10. /\ up \in Seq(Unit) /\ Len(up) \in Nat \ {0}
       /\ up' \in Seq(Unit) /\ Len(up') = Len(up) - 1
       /\ \A i \in 1 .. Len(up') : up'[i] = up[i+1]
  BY <1>1, HeadTailProperties, EmptySeq DEF SInv, UpInv
<1>11. u.of.n = Now /\ u.at = Offset + 1
  BY <1>2, <1>3
<1>12. UpInv'
  <2>1. \A i \in 1 .. Len(up') : up'[i].of.n \in 1 .. Len(sent) /\ up'[i].of = sent[up'[i].of.n]
    <3> SUFFICES ASSUME NEW i \in 1 .. Len(up')
                 PROVE  up'[i].of.n \in 1 .. Len(sent) /\ up'[i].of = sent[up'[i].of.n]
      OBVIOUS
    <3>1. i + 1 \in 1 .. Len(up) /\ up'[i] = up[i+1]
      BY <1>10
    <3> QED BY <3>1 DEF SInv, UpInv
  <2>2. up' # <<>> => Place(up'[1]) = After(sent, Now, Offset + 1)
    <3> SUFFICES ASSUME up' # <<>> PROVE Place(up'[1]) = After(sent, Now, Offset + 1)
      OBVIOUS
    <3>1. 1 \in 1 .. Len(up) - 1 /\ up'[1] = up[2]
      BY <1>10, EmptySeq
    <3>2. Place(up[1+1]) = After(sent, up[1].of.n, up[1].at)
      BY <3>1 DEF SInv, UpInv
    <3> QED BY <1>11, <3>1, <3>2 DEF u
  <2>3. ASSUME NEW i \in 1 .. Len(up') - 1
        PROVE  Place(up'[i+1]) = After(sent, up'[i].of.n, up'[i].at)
    <3>1. /\ i + 1 \in 1 .. Len(up) - 1 /\ up'[i] = up[i+1] /\ up'[i+1] = up[(i+1)+1]
      BY <1>10
    <3> QED BY <3>1 DEF SInv, UpInv
  <2> QED BY <1>1, <1>9, <1>10, <2>1, <2>2, <2>3 DEF UpInv
<1>13. EndInv'
  <2>1. CASE up' = <<>>
    <3>1. Len(up) = 1
      BY <1>10, <2>1
    <3> QED BY <1>1, <1>9, <1>11, <2>1, <3>1 DEF SInv, EndInv, u
  <2>2. CASE up' # <<>>
    <3>1. Len(up') \in 1 .. Len(up') /\ Len(up') + 1 = Len(up)
      BY <1>10, <2>2, EmptySeq
    <3>2. up'[Len(up')] = up[Len(up)]
      BY <1>10, <3>1
    <3> QED BY <1>1, <2>2, <3>2 DEF SInv, EndInv
  <2> QED BY <2>1, <2>2
<1>14. PhaseInv' /\ SentInv' /\ HandledInv'
  BY <1>1, StringFacts DEF SInv, PhaseInv, SentInv, HandledInv
<1> QED BY <1>9, <1>12, <1>13, <1>14 DEF SInv
-----------------------------------------------------------------------------
(* The server handles *)

\* What has been read whole is the next request, and no body that is none.
LEMMA MessageIsNext ==
    ASSUME SInv, HasRequest
    PROVE  /\ serving /\ got # Fresh /\ Now \in 1 .. Len(sent)
           /\ sent[Now] \in Payloads
           /\ Message(got) = sent[Now] /\ Message(got) # Garbled
           /\ Offset = Header + sent[Now].size
<1>1. serving /\ got.len # Unread /\ Len(got.buf) = got.len
  BY DEF HasRequest, Complete
<1>2. got # Fresh
  BY <1>1 DEF Fresh
<1>3. Now \in 1 .. Len(sent) /\ sent[Now] \in Payloads /\ sent[Now].n = Now
  BY <1>2, OffsetFacts DEF SInv, GotInv, SentInv
<1>4. /\ got.len = sent[Now].size /\ got.len \in Nat \ {0}
      /\ Offset = Header + sent[Now].size
  BY <1>1, <1>3 DEF SInv, GotInv, Payloads, Offset
<1>5. got.buf[1] = [of |-> sent[Now], at |-> Header + 1]
  <2>1. 1 \in 1 .. Len(got.buf)
    BY <1>1, <1>4
  <2> QED BY <1>1, <2>1 DEF SInv, GotInv
<1>6. Message(got) = sent[Now]
  BY <1>1, <1>4, <1>5 DEF Message
<1>7. sent[Now] # Garbled
  BY <1>3, OffsetFacts DEF Garbled, Payload
<1> QED BY <1>1, <1>2, <1>3, <1>4, <1>6, <1>7

\* The request that was read joins those handled.
LEMMA HandledGrows ==
    ASSUME SInv, HasRequest, handled' = Append(handled, Message(got)), UNCHANGED sent
    PROVE  /\ HandledInv' /\ Now' = Now + 1
<1>1. Message(got) = sent[Now] /\ Now \in 1 .. Len(sent) /\ sent[Now] \in Payloads
  BY MessageIsNext
<1>2. /\ handled' \in Seq(Payloads) /\ Len(handled') = Len(handled) + 1
      /\ handled'[Len(handled) + 1] = sent[Now]
      /\ \A i \in 1 .. Len(handled) : handled'[i] = handled[i]
  BY <1>1 DEF SInv, HandledInv
<1>3. ASSUME NEW i \in 1 .. Len(handled') PROVE handled'[i] = sent[i]
  BY <1>2, OffsetFacts DEF SInv, HandledInv, Now
<1>4. Len(handled') <= Len(sent)
  BY <1>1, <1>2 DEF Now
<1> QED BY <1>2, <1>3, <1>4, OffsetFacts DEF HandledInv, Now

LEMMA HandleKeeps ==
    ASSUME SInv, Handle
    PROVE  SInv'
<1>1. /\ HasRequest /\ got' = Fresh /\ handled' = Append(handled, Message(got))
      /\ UNCHANGED <<at, up, sent, serving>>
  BY MessageIsNext DEF Handle, client
<1>2. HandledInv' /\ Now' = Now + 1
  BY <1>1, HandledGrows
<1>3. PhaseInv'
  BY <1>1, MessageIsNext DEF SInv, PhaseInv, HandledInv
<1>4. got'.len = Unread /\ Len(got'.buf) = 0 /\ Offset' = 0 /\ got'.buf = <<>>
  BY <1>1 DEF Fresh, Offset
<1>5. GotInv'
  BY <1>1, <1>4, SessionAssumption DEF GotInv, Fresh, Unread
<1>6. After(sent, Now, Offset) = <<Now + 1, 1>> /\ After(sent, Now + 1, 0) = <<Now + 1, 1>>
  <2>1. After(sent, Now, Offset) = <<Now + 1, 1>>
    BY <1>1, MessageIsNext DEF After
  <2>2. Now + 1 \in 1 .. Len(sent) => 0 # Header + sent[Now + 1].size
    <3> SUFFICES ASSUME Now + 1 \in 1 .. Len(sent) PROVE 0 # Header + sent[Now + 1].size
      OBVIOUS
    <3>1. sent[Now + 1] \in Payloads
      BY DEF SInv, SentInv
    <3> QED BY <3>1, SessionAssumption DEF Payloads
  <2> QED BY <2>1, <2>2 DEF After
<1>7. UpInv'
  BY <1>1, <1>2, <1>4, <1>6 DEF SInv, UpInv
<1>8. EndInv'
  BY <1>1, <1>2, <1>4, <1>6 DEF SInv, EndInv
<1>9. SentInv'
  BY <1>1 DEF SInv, SentInv
<1> QED BY <1>2, <1>3, <1>5, <1>7, <1>8, <1>9 DEF SInv

\* A connection that has ended holds nothing.
LEMMA ClosedIsSound ==
    ASSUME SInv, CloseConnection, HandledInv', at \notin Early
    PROVE  SInv'
<1>1. /\ serving' = FALSE /\ got' = Fresh /\ up' = <<>> /\ UNCHANGED <<at, sent>>
  BY DEF CloseConnection, client
<1>2. PhaseInv' /\ SentInv'
  BY <1>1 DEF SInv, PhaseInv, SentInv
<1>3. GotInv'
  BY <1>1, SessionAssumption DEF GotInv, Fresh, Unread
<1>4. UpInv' /\ EndInv'
  BY <1>1 DEF UpInv, EndInv
<1> QED BY <1>2, <1>3, <1>4 DEF SInv

LEMMA ServingIsLate == ASSUME SInv, serving PROVE at \notin Early
  BY DEF SInv, PhaseInv

LEMMA ServerKeeps ==
    ASSUME SInv, ServerStep \/ Cut
    PROVE  SInv'
<1>1. CASE ServerReads
  BY <1>1, ReadKeeps
<1>2. CASE EndLoop \/ Cut
  <2>1. CloseConnection /\ UNCHANGED <<handled, sent>> /\ serving
    BY <1>2 DEF EndLoop, Cut, CloseConnection, client
  <2>2. HandledInv'
    BY <2>1 DEF SInv, HandledInv
  <2> QED BY <2>1, <2>2, ClosedIsSound, ServingIsLate
<1>3. CASE Handle
  BY <1>3, HandleKeeps
<1>4. CASE HandlerThrows
  <2>1. /\ HasRequest /\ serving /\ CloseConnection /\ UNCHANGED sent
        /\ handled' = Append(handled, Message(got))
    BY <1>4 DEF HandlerThrows, HasRequest, CloseConnection, client
  <2> QED BY <2>1, HandledGrows, ClosedIsSound, ServingIsLate
<1> QED BY <1>1, <1>2, <1>3, <1>4 DEF ServerStep

-----------------------------------------------------------------------------
(* The client connects, asks, waits and leaves *)

\* Until it has its menu, nothing is sent, read or stored.
LEMMA EarlyFrame ==
    ASSUME TryConnect \/ Handshake \/ Acceptor
    PROVE  /\ at \in Early
           /\ UNCHANGED <<in, down, up, got, stored, handled, sent>>
           /\ \/ at' \in Early \union {"exited"} /\ serving' = serving
              \/ at' = "menu" /\ serving' = TRUE
<1>1. CASE TryConnect
  BY <1>1 DEF TryConnect, Refused, Connecting, Connected, NoSsl, InitThrows, GiveUp,
              server, Early
<1>2. CASE Handshake
  BY <1>2 DEF Handshake, HandshakeFails, HandshakeDone, WrongCertificate, GiveUp,
              server, Early
<1>3. CASE Acceptor
  BY <1>3 DEF Acceptor, Accept, Listen, AcceptFails, StopsListening, Becomes, server, Early
<1> QED BY <1>1, <1>2, <1>3

LEMMA ConnectKeeps ==
    ASSUME SInv, TryConnect \/ Handshake \/ Acceptor
    PROVE  SInv'
<1>1. /\ at \in Early /\ ~serving /\ sent = <<>> /\ handled = <<>> /\ up = <<>> /\ got = Fresh
      /\ UNCHANGED <<sent, handled, up, got>>
  BY EarlyFrame DEF SInv, PhaseInv
<1>2. \/ at' \in Early \union {"exited"} /\ ~serving' /\ serving' \in BOOLEAN
      \/ at' = "menu" /\ serving' = TRUE
  BY <1>1, EarlyFrame DEF SInv, PhaseInv
<1>3. PhaseInv'
  <2>1. "menu" \in Menus /\ "menu" \notin Early
    BY DEF Menus, Early
  <2> QED BY <1>1, <1>2, <2>1 DEF PhaseInv
<1>4. SentInv' /\ HandledInv'
  BY <1>1 DEF SInv, SentInv, HandledInv
<1>5. Now' = 1 /\ Offset' = 0 /\ Len(sent') = 0
  BY <1>1 DEF Now, Offset, Fresh, Unread
<1>6. GotInv' /\ UpInv'
  BY <1>1, SessionAssumption DEF GotInv, UpInv, Fresh, Unread
<1>7. EndInv'
  <2>1. After(sent', 1, 0) = <<1, 1>>
    BY <1>5 DEF After
  <2> QED BY <1>1, <1>5, <2>1 DEF EndInv
<1> QED BY <1>3, <1>4, <1>6, <1>7 DEF SInv

LEMMA AskKeeps ==
    ASSUME SInv, Ask
    PROVE  SInv'
<1>1. at \in Menus /\ at \notin Early \union {"exited"}
  BY StringFacts DEF Ask, Register, Authenticate, LogOut, Download, SeeList, Delete, Upload, Menus, Early
<1>2. CASE LogOut
  <2>1. UNCHANGED <<got, up, serving, sent, handled>> /\ at' \in Menus
    BY <1>2 DEF LogOut, server, Menus
  <2> QED BY <1>1, <2>1, Untouched
<1>3. ASSUME NEW op \in Requests, NEW size \in Nat \ {0}, NEW next \in Menus \union Answers,
             Send(op, size, next)
      PROVE  SInv'
  BY <1>1, <1>3, SendKeeps
<1>4. /\ {"register", "ask_salt", "upload", "download", "list", "delete"} \subseteq Requests
      /\ {"menu", "actions", "salt", "file", "names"} \subseteq Menus \union Answers
      /\ 1 \in Nat \ {0} /\ UploadSizes \subseteq Nat \ {0}
  BY StringFacts, SessionAssumption DEF Menus
<1>5. CASE Register
  BY <1>3, <1>4, <1>5 DEF Register
<1>6. CASE Authenticate
  BY <1>3, <1>4, <1>6 DEF Authenticate
<1>7. CASE Download
  BY <1>3, <1>4, <1>7 DEF Download
<1>8. CASE SeeList
  BY <1>3, <1>4, <1>8 DEF SeeList
<1>9. CASE Delete
  BY <1>3, <1>4, <1>9 DEF Delete
<1>10. ASSUME NEW size \in UploadSizes, Upload(size) PROVE SInv'
  BY <1>3, <1>4, <1>10 DEF Upload
<1> QED BY <1>2, <1>5, <1>6, <1>7, <1>8, <1>9, <1>10 DEF Ask

LEMMA WaitKeeps ==
    ASSUME SInv, ClientStep
    PROVE  SInv'
<1>1. at \in Answers /\ at \notin Early \union {"exited"}
  BY StringFacts DEF ClientStep, Recv, RecvThrows, Take, TakeThrows, Early
<1>2. Menu \in Menus
  BY DEF Menu, Menus
<1>3. ASSUME UNCHANGED <<got, up, serving, sent, handled>>, at' \in Menus \union Answers
      PROVE  SInv'
  BY <1>1, <1>3, Untouched
<1>4. CASE Recv
  BY <1>1, <1>3, <1>4 DEF Recv, server
<1>5. CASE RecvThrows
  BY <1>2, <1>3, <1>5 DEF RecvThrows, Abandon, server
<1>6. CASE TakeThrows
  BY <1>2, <1>3, <1>6 DEF TakeThrows, Abandon, server
<1>7. CASE Take
  <2>1. \/ Abandon
        \/ at = "salt" /\ Send("ask_challenge", 1, "challenge")
        \/ at = "challenge" /\ Send("respond", 1, "verdict")
        \/ at' \in Menus /\ UNCHANGED <<server, up, sent>>
    BY <1>7 DEF Take
  <2>2. CASE Abandon
    BY <1>2, <1>3, <2>2 DEF Abandon, server
  <2>3. CASE Send("ask_challenge", 1, "challenge")
    BY <1>1, <2>3, SendKeeps, StringFacts
  <2>4. CASE Send("respond", 1, "verdict")
    BY <1>1, <2>4, SendKeeps, StringFacts
  <2>5. CASE at' \in Menus /\ UNCHANGED <<server, up, sent>>
    BY <1>3, <2>5 DEF server
  <2> QED BY <2>1, <2>2, <2>3, <2>4, <2>5
<1> QED BY <1>4, <1>5, <1>6, <1>7 DEF ClientStep

LEMMA QuitKeeps ==
    ASSUME SInv, Quit
    PROVE  SInv'
<1>1. /\ at' = "exited" /\ up' \in Prefixes(up)
      /\ UNCHANGED <<got, serving, sent, handled>>
  BY DEF Quit, server
<1>2. Now' = Now /\ Offset' = Offset
  BY <1>1 DEF Now, Offset
<1>3. "exited" \notin Early
  BY DEF Early
<1>4. up \in Seq(Unit) /\ Len(up) \in Nat
  BY DEF SInv, UpInv
<1>5. PICK k \in 0 .. Len(up) : up' = SubSeq(up, 1, k)
  BY <1>1 DEF Prefixes
<1>6. /\ up' \in Seq(Unit) /\ Len(up') = k
      /\ \A i \in 1 .. k : up'[i] = up[i]
  BY <1>4, <1>5, SubSeqProperties
<1>7. UpInv'
  <2>1. \A i \in 1 .. Len(up') : up'[i].of.n \in 1 .. Len(sent) /\ up'[i].of = sent[up'[i].of.n]
    <3> SUFFICES ASSUME NEW i \in 1 .. Len(up')
                 PROVE  up'[i].of.n \in 1 .. Len(sent) /\ up'[i].of = sent[up'[i].of.n]
      OBVIOUS
    <3>1. i \in 1 .. Len(up) /\ up'[i] = up[i]
      BY <1>4, <1>6
    <3> QED BY <3>1 DEF SInv, UpInv
  <2>2. up' # <<>> => Place(up'[1]) = After(sent, Now, Offset)
    <3> SUFFICES ASSUME up' # <<>> PROVE Place(up'[1]) = After(sent, Now, Offset)
      OBVIOUS
    <3>1. k # 0
      BY <1>6, EmptySeq
    <3>2. 1 \in 1 .. k /\ up # <<>>
      BY <1>4, <3>1
    <3> QED BY <1>6, <3>2 DEF SInv, UpInv
  <2>3. ASSUME NEW i \in 1 .. Len(up') - 1
        PROVE  Place(up'[i+1]) = After(sent, up'[i].of.n, up'[i].at)
    <3>1. i \in 1 .. Len(up) - 1 /\ up'[i] = up[i] /\ up'[i+1] = up[i+1]
      BY <1>4, <1>6
    <3> QED BY <3>1 DEF SInv, UpInv
  <2> QED BY <1>1, <1>2, <1>6, <2>1, <2>2, <2>3 DEF UpInv
<1>8. PhaseInv'
  <2>1. ~serving => up' = <<>>
    BY <1>4, <1>5, <1>6, EmptySeq DEF SInv, PhaseInv
  <2> QED BY <1>1, <1>3, <2>1 DEF SInv, PhaseInv
<1>9. SentInv' /\ HandledInv'
  BY <1>1 DEF SInv, SentInv, HandledInv
<1>10. GotInv'
  BY <1>1, <1>2 DEF SInv, GotInv
<1>11. EndInv'
  BY <1>1 DEF EndInv
<1> QED BY <1>7, <1>8, <1>9, <1>10, <1>11 DEF SInv

LEMMA SStep == SInv /\ [HNext]_hvars => SInv'
<1> SUFFICES ASSUME SInv, [HNext]_hvars PROVE SInv'
  OBVIOUS
<1>1. CASE UNCHANGED hvars
  BY <1>1 DEF hvars, SInv, PhaseInv, SentInv, HandledInv, GotInv, UpInv, EndInv, Now, Offset
<1>2. CASE Next
  BY <1>2, ConnectKeeps, AskKeeps, QuitKeeps, WaitKeeps, ServerKeeps DEF Next
<1> QED BY <1>1, <1>2 DEF HNext

(***************************************************************************)
(* Requests reach the Resolver whole, in order and once each, whatever the *)
(* length of a header, the limit, the sizes of bodies, the number of       *)
(* requests and the place at which a connection ends (comms.cpp:105-165).  *)
(***************************************************************************)
THEOREM RequestsInOrder == HSpec => []HandledInOrder
<1>1. SInv => HandledInOrder
  <2> SUFFICES ASSUME SInv PROVE HandledInOrder
    OBVIOUS
  <2>1. /\ handled \in Seq(Payloads) /\ sent \in Seq(Payloads)
        /\ Len(handled) \in 0 .. Len(sent)
        /\ \A i \in 1 .. Len(handled) : handled[i] = sent[i]
    BY OffsetFacts DEF SInv, HandledInv, SentInv
  <2> DEFINE s == SubSeq(sent, 1, Len(handled))
  <2>2. /\ s \in Seq(Payloads) /\ Len(s) = Len(handled)
        /\ \A i \in 1 .. Len(handled) : s[i] = sent[i]
    BY <2>1, SubSeqProperties
  <2> HIDE DEF s
  <2>3. handled = s
    BY <2>1, <2>2, SeqEqual
  <2> QED BY <2>1, <2>3 DEF s, HandledInOrder
<1> QED BY SInit, SStep, <1>1, PTL DEF HSpec

-----------------------------------------------------------------------------
(* The link *)

LinkInv == OneLink /\ at \in Early \union Menus \union Answers \union {"exited"}

LEMMA LinkStep == LinkInv /\ [HNext]_hvars => LinkInv'
<1> SUFFICES ASSUME LinkInv, [HNext]_hvars PROVE LinkInv'
  OBVIOUS
<1> USE DEF LinkInv, OneLink
<1>1. CASE UNCHANGED hvars
  BY <1>1 DEF hvars, link
<1>2. CASE TryConnect \/ Handshake
  <2>1. "menu" \in Menus
    BY DEF Menus
  <2>2. CASE Refused
    BY <2>2 DEF Refused, RefusedSocket, Connecting
  <2>3. CASE Connected
    <3>1. at' = "queued" /\ links' = 1 /\ ssl' = "live"
      BY <2>3 DEF Connected, Connecting
    <3> QED BY <3>1 DEF Early
  <2>5. CASE NoSsl \/ InitThrows
    <3>1. at' = "exited" /\ links' = 0 /\ ssl' # "live"
      BY <2>5 DEF NoSsl, InitThrows, Connecting, GiveUp
    <3> QED BY <3>1
  <2>6. CASE HandshakeFails \/ WrongCertificate
    <3>1. at \in {"queued", "handshake"} /\ links = 1
      BY <2>6 DEF HandshakeFails, WrongCertificate
    <3>2. at' \in {"connecting", "exited"} /\ links' = 0 /\ ssl' # "live"
      <4>1. links' = links - 1
        BY <2>6 DEF HandshakeFails, Release, WrongCertificate
      <4>2. at' \in {"connecting", "exited"} /\ ssl' # "live"
        BY <2>6 DEF HandshakeFails, Release, WrongCertificate, GiveUp
      <4> QED BY <3>1, <4>1, <4>2
    <3> QED BY <3>2 DEF Early
  <2>4. CASE HandshakeDone
    BY <2>1, <2>4 DEF HandshakeDone
  <2> QED BY <1>2, <2>2, <2>3, <2>4, <2>5, <2>6 DEF TryConnect, Handshake
<1>3. CASE Quit
  BY <1>3 DEF Quit, Closed
<1>4. CASE Ask \/ ClientStep
  <2>1. at \in Menus \union Answers /\ at' \in Menus \union Answers /\ UNCHANGED link
    BY <1>4, StringFacts DEF Ask, ClientStep, Register, Authenticate, LogOut, Download, SeeList,
       Delete, Upload, Recv, RecvThrows, Take, TakeThrows, Send, Abandon, Menu, Menus
  <2> QED BY <2>1, StringFacts DEF link, Early
<1>5. CASE ServerStep \/ Cut
  BY <1>5 DEF ServerStep, Cut, ServerReads, EndLoop, Handle, HandlerThrows, CloseConnection,
     client, link
<1>6. CASE Acceptor
  <2>1. UNCHANGED <<links, ssl>>
    BY <1>6 DEF Acceptor, Accept, Listen, AcceptFails, StopsListening, Becomes, link
  <2>2. \/ at' = at
        \/ at = "queued" /\ at' = "handshake"
    BY <1>6 DEF Acceptor, Accept, Listen, AcceptFails, StopsListening, Becomes
  <2> QED BY <2>1, <2>2 DEF Early
<1> QED BY <1>1, <1>2, <1>3, <1>4, <1>5, <1>6 DEF HNext, Next

(***************************************************************************)
(* One socket and one live SSL object while the client talks, none when it *)
(* is done, after any number of failed attempts (comms.cpp:28-91 and       *)
(* comms.hxx:47-59 of the client).                                         *)
(***************************************************************************)
THEOREM LinkIsOne == HSpec => []OneLink
<1>1. HInit => LinkInv
  BY DEF HInit, Init, LinkInv, OneLink, Early
<1>2. LinkInv => OneLink
  BY DEF LinkInv
<1> QED BY <1>1, <1>2, LinkStep, PTL DEF HSpec
-----------------------------------------------------------------------------
(* Answers in step: what is under way to the client *)

Replies   == [op : Answers, size : Nat \ {0}, n : Nat]
ReplyUnit == [of : Replies, at : Nat \ {0}]

HasAnswer(i) == sent[i].op \in DOMAIN AnswerTo

\* How much the client has read of its answer.
Read == IF in.len = Unread THEN Len(in.buf) ELSE Header + Len(in.buf)

StoreInv ==
    /\ IsFiniteSet(stored)
    /\ \A f \in stored : f \in Payloads /\ f.size <= Limit

\* Of the requests that are not handled, only the one waited for has an answer.
QuietInv ==
    serving /\ at # "exited" =>
       \A i \in Now .. Len(sent) :
          HasAnswer(i) => i = Len(sent) /\ at = AnswerTo[sent[i].op]

\* What was read, and after it what is under way, is the beginning of a.
Receives(a) ==
    /\ in \in [len : Int, buf : Seq(ReplyUnit)]
    /\ in.len = Unread => Len(in.buf) < Header
    /\ in.len # Unread => in.len = a.size /\ Len(in.buf) <= a.size
    /\ \A i \in 1 .. Len(in.buf) :
          in.buf[i] = [of |-> a, at |-> IF in.len = Unread THEN i ELSE Header + i]
    /\ down \in Seq(ReplyUnit)
    /\ Len(down) <= Header + a.size - Read
    /\ \A i \in 1 .. Len(down) : down[i] = [of |-> a, at |-> Read + i]

IsAnswer(a) ==
    /\ a \in Replies
    /\ a.op = at
    /\ a.n = Len(sent)
    /\ a.size > Limit => at \in {"salt", "file", "names"}

Idle == in = Fresh /\ down = <<>>

AnswerInv ==
    /\ at \notin Answers => Idle
    /\ at \in Answers =>
          /\ Len(sent) # 0 /\ HasAnswer(Len(sent)) /\ at = AnswerTo[sent[Len(sent)].op]
          /\ IF Len(handled) < Len(sent) THEN Idle
             ELSE \E a : IsAnswer(a) /\ Receives(a)

AInv == StoreInv /\ (~overflowed => QuietInv /\ AnswerInv)

LEMMA AnswerNames ==
    /\ DOMAIN AnswerTo = {"ask_salt", "ask_challenge", "respond", "download", "list"}
    /\ AnswerTo["ask_salt"] = "salt" /\ AnswerTo["ask_challenge"] = "challenge"
    /\ AnswerTo["respond"] = "verdict" /\ AnswerTo["download"] = "file"
    /\ AnswerTo["list"] = "names"
BY DEF AnswerTo

LEMMA AInit == HInit => AInv
<1> SUFFICES ASSUME Init PROVE AInv
  BY DEF HInit
<1>1. StoreInv
  BY FS_EmptySet DEF Init, StoreInv
<1>2. QuietInv
  BY DEF Init, QuietInv
<1>3. AnswerInv
  <2>1. at \notin Answers /\ Idle
    BY StringFacts DEF Init, Idle, Early
  <2> QED BY <2>1 DEF AnswerInv
<1> QED BY <1>1, <1>2, <1>3 DEF AInv

\* With nothing read and nothing under way, any answer may still come.
LEMMA NothingYet ==
    ASSUME NEW a \in Replies, Idle
    PROVE  Receives(a)
<1>1. in.len = Unread /\ in.buf = <<>> /\ Len(in.buf) = 0 /\ Read = 0
      /\ in \in [len : Int, buf : Seq(ReplyUnit)]
  BY DEF Idle, Fresh, Unread, Read
<1>2. Len(down) = 0 /\ down \in Seq(ReplyUnit)
  BY DEF Idle
<1> QED BY <1>1, <1>2, SessionAssumption DEF Receives, Replies

\* A client that takes its answer has read it whole, and nothing follows it.
LEMMA TakenWhole ==
    ASSUME SInv, AInv, ~overflowed, at \in Answers, Complete(in)
    PROVE  /\ down = <<>>
           /\ Len(handled) = Len(sent)
           /\ Message(in).op = at
           /\ Message(in).n = Len(sent)
<1>1. in # Fresh
  BY DEF Complete, Fresh
<1>2. Len(handled) = Len(sent)
  BY <1>1, OffsetFacts DEF AInv, AnswerInv, Idle, SInv, HandledInv
<1>3. PICK a : IsAnswer(a) /\ Receives(a)
  BY <1>2, OffsetFacts DEF AInv, AnswerInv
<1>4. /\ in.len = a.size /\ Len(in.buf) = a.size /\ a.size \in Nat \ {0}
      /\ a.op = at /\ a.n = Len(sent) /\ in.len # Unread
  BY <1>3 DEF Complete, IsAnswer, Receives, Replies
<1>5. down = <<>>
  <2>1. Len(down) \in Nat /\ Len(down) <= 0 /\ down \in Seq(ReplyUnit)
    BY <1>3, <1>4, SessionAssumption DEF Receives, Read
  <2> QED BY <2>1, EmptySeq
<1>6. in.buf[1] = [of |-> a, at |-> Header + 1]
  <2>1. 1 \in 1 .. Len(in.buf)
    BY <1>4
  <2>2. in.buf[1] = [of |-> a, at |-> IF in.len = Unread THEN 1 ELSE Header + 1]
    BY <1>3, <2>1 DEF Receives
  <2> QED BY <1>4, <2>2
<1>7. Message(in) = a
  BY <1>4, <1>6 DEF Message
<1> QED BY <1>2, <1>4, <1>5, <1>7

\* How long answers are, and which may be over the limit.
LEMMA AnswerSizesFacts ==
    ASSUME StoreInv, NEW p \in Payloads, p.op \in DOMAIN AnswerTo,
           NEW size \in AnswerSizes(p)
    PROVE  /\ size \in Nat \ {0}
           /\ size > Limit => AnswerTo[p.op] \in {"salt", "file", "names"}
<1>1. Limit \in Nat \ {0} /\ JunkSizes \subseteq Nat \ {0}
  BY SessionAssumption
<1>2. CASE p.op = "list"
  <2>1. Cardinality(stored) \in Nat
    BY FS_CardinalityType DEF StoreInv
  <2>2. size \in {1 + Cardinality(stored)} \union JunkSizes
    BY <1>2 DEF AnswerSizes
  <2> QED BY <1>1, <1>2, <2>1, <2>2, AnswerNames
<1>3. CASE p.op = "download"
  <2>1. size \in {f.size : f \in stored} \union JunkSizes
    BY <1>3 DEF AnswerSizes
  <2>2. \A f \in stored : f.size \in Nat \ {0}
    BY DEF StoreInv, Payloads
  <2> QED BY <1>1, <1>3, <2>1, <2>2, AnswerNames
<1>4. CASE p.op = "ask_salt"
  <2>1. size \in {1} \union JunkSizes
    BY <1>4 DEF AnswerSizes
  <2> QED BY <1>1, <1>4, <2>1, AnswerNames
<1>5. CASE p.op \notin {"list", "download", "ask_salt"}
  <2>1. size = 1
    BY <1>5 DEF AnswerSizes
  <2> QED BY <1>1, <2>1
<1> QED BY <1>2, <1>3, <1>4, <1>5

\* What Resolver::solve answers.
LEMMA SolveFacts ==
    ASSUME StoreInv, NEW p \in Payloads, NEW answer \in Solve(p)
    PROVE  IF p.op \in DOMAIN AnswerTo
           THEN /\ answer[1] \in Replies
                /\ answer # <<>>
                /\ answer[1].op = AnswerTo[p.op]
                /\ answer[1].n = p.n
                /\ answer[1].size > Limit => answer[1].op \in {"salt", "file", "names"}
           ELSE answer = <<>>
<1>1. CASE p.op \in DOMAIN AnswerTo
  <2>1. PICK size \in AnswerSizes(p) : answer = <<Payload(AnswerTo[p.op], size, p.n)>>
    BY <1>1 DEF Solve
  <2>2. /\ size \in Nat \ {0}
        /\ size > Limit => AnswerTo[p.op] \in {"salt", "file", "names"}
    BY <1>1, AnswerSizesFacts
  <2>3. AnswerTo[p.op] \in Answers /\ p.n \in Nat
    BY <1>1 DEF Answers, Payloads
  <2>4. PICK b : b = [op |-> AnswerTo[p.op], size |-> size, n |-> p.n]
    OBVIOUS
  <2>5. b \in Replies /\ b.op = AnswerTo[p.op] /\ b.size = size /\ b.n = p.n
    BY <2>2, <2>3, <2>4 DEF Replies
  <2>6. answer = <<b>>
    BY <2>1, <2>4 DEF Payload
  <2>7. answer[1] = b /\ answer # <<>>
    BY <2>6
  <2> QED BY <1>1, <2>2, <2>5, <2>7
<1>2. CASE p.op \notin DOMAIN AnswerTo
  BY <1>2 DEF Solve
<1> QED BY <1>1, <1>2

-----------------------------------------------------------------------------
(* The client, in step *)

LEMMA SendInStep ==
    ASSUME SInv, AInv, ~overflowed' => ~overflowed,
           NEW op \in Requests, NEW size, NEW next, Send(op, size, next),
           IF op \in DOMAIN AnswerTo THEN next = AnswerTo[op] ELSE next \notin Answers,
           ~overflowed => /\ down = <<>>
                          /\ serving => \A i \in Now .. Len(sent) : ~HasAnswer(i)
    PROVE  AInv'
<1> DEFINE p == Payload(op, size, Len(sent) + 1)
<1>1. /\ sent' = Append(sent, p) /\ at' = next /\ in' = Fresh
      /\ UNCHANGED <<down, serving, stored, handled>>
  BY DEF Send, server
<1>2. /\ Len(sent) \in Nat /\ Len(sent') = Len(sent) + 1 /\ sent'[Len(sent')].op = op
      /\ \A i \in 1 .. Len(sent) : sent'[i] = sent[i]
  BY <1>1, OffsetFacts DEF SInv, SentInv, Payload
<1>3. Now' = Now /\ Now \in Nat \ {0} /\ Len(handled') < Len(sent')
  BY <1>1, <1>2, OffsetFacts DEF Now
<1>4. StoreInv'
  BY <1>1 DEF AInv, StoreInv
<1>5. ASSUME ~overflowed PROVE QuietInv'
  <2> SUFFICES ASSUME serving, NEW i \in Now .. Len(sent'), HasAnswer(i)'
               PROVE  i = Len(sent') /\ at' = AnswerTo[sent'[i].op]
    BY <1>1, <1>3 DEF QuietInv
  <2>1. CASE i = Len(sent')
    BY <1>1, <1>2, <2>1 DEF HasAnswer
  <2>2. CASE i # Len(sent')
    <3>1. i \in 1 .. Len(sent) /\ i \in Now .. Len(sent)
      BY <1>2, <1>3, <2>2
    <3> QED BY <1>2, <1>5, <3>1 DEF HasAnswer
  <2> QED BY <2>1, <2>2
<1>6. ASSUME ~overflowed PROVE AnswerInv'
  <2>1. Idle'
    BY <1>1, <1>6 DEF Idle, Fresh
  <2>2. at' \in Answers => HasAnswer(Len(sent))' /\ at' = AnswerTo[sent'[Len(sent')].op]
    BY <1>1, <1>2 DEF HasAnswer
  <2> QED BY <1>2, <1>3, <2>1, <2>2 DEF AnswerInv
<1> QED BY <1>4, <1>5, <1>6 DEF AInv

\* The next unit of the answer is read.
LEMMA RecvInStep ==
    ASSUME SInv, AInv, Recv, ~overflowed' => ~overflowed
    PROVE  AInv'
<1>1. /\ at \in Answers /\ ~Complete(in) /\ down # <<>>
      /\ in' \in Taken(in, Head(down)) /\ down' = Tail(down)
      /\ UNCHANGED <<at, serving, stored, handled, sent>>
  BY DEF Recv, server
<1>2. StoreInv'
  BY <1>1 DEF AInv, StoreInv
<1>3. QuietInv => QuietInv'
  BY <1>1 DEF QuietInv, Now, HasAnswer
<1>4. ASSUME ~overflowed PROVE AnswerInv'
  <2>1. ~ (Len(handled) < Len(sent))
    BY <1>1, <1>4 DEF AInv, AnswerInv, Idle
  <2>2. PICK a : IsAnswer(a) /\ Receives(a)
    BY <1>1, <1>4, <2>1 DEF AInv, AnswerInv
  <2> DEFINE u == [of |-> a, at |-> Read + 1]
             b == Append(in.buf, u)
  <2>3. a \in Replies /\ a.size \in Nat \ {0} /\ Header \in Nat \ {0}
    BY <2>2, SessionAssumption DEF IsAnswer, Replies
  <2>4. /\ in.buf \in Seq(ReplyUnit) /\ Len(in.buf) \in Nat /\ in.len \in Int
        /\ Read \in Nat
    BY <2>2, <2>3 DEF Receives, Read
  <2>5. /\ down \in Seq(ReplyUnit) /\ Len(down) \in Nat \ {0}
        /\ Head(down) = down[1] /\ down[1] = u
        /\ down' \in Seq(ReplyUnit) /\ Len(down') = Len(down) - 1
        /\ \A i \in 1 .. Len(down') : down'[i] = down[i+1]
    <3>1. down \in Seq(ReplyUnit) /\ Len(down) \in Nat \ {0}
      BY <1>1, <2>2, EmptySeq DEF Receives
    <3>2. down[1] = u
      BY <2>2, <3>1 DEF Receives
    <3> QED BY <1>1, <3>1, <3>2, HeadTailProperties
  <2>6. u \in ReplyUnit
    BY <2>3, <2>4 DEF ReplyUnit
  <2> HIDE DEF u
  <2>7. /\ b \in Seq(ReplyUnit) /\ Len(b) = Len(in.buf) + 1
        /\ \A i \in 1 .. Len(in.buf) : b[i] = in.buf[i]
        /\ b[Len(in.buf) + 1] = u
    BY <2>4, <2>6
  <2>8. in' \in Taken(in, u)
    BY <1>1, <2>5
  <2> HIDE DEF b
  <2>9. ASSUME NEW i \in 1 .. Len(b)
        PROVE  b[i] = [of |-> a, at |-> IF in.len = Unread THEN i ELSE Header + i]
    <3>1. CASE i \in 1 .. Len(in.buf)
      BY <2>2, <2>7, <3>1 DEF Receives
    <3>2. CASE i = Len(in.buf) + 1
      <4>1. Read + 1 = IF in.len = Unread THEN i ELSE Header + i
        BY <2>3, <2>4, <3>2 DEF Read
      <4> QED BY <2>7, <3>2, <4>1 DEF u
    <3> QED BY <2>4, <2>7, <3>1, <3>2
  <2>10. /\ in' \in [len : Int, buf : Seq(ReplyUnit)]
         /\ in'.len = Unread => Len(in'.buf) < Header
         /\ in'.len # Unread => in'.len = a.size /\ Len(in'.buf) <= a.size
         /\ \A i \in 1 .. Len(in'.buf) :
               in'.buf[i] = [of |-> a, at |-> IF in'.len = Unread THEN i ELSE Header + i]
         /\ Read' = Read + 1
    <3>1. ASSUME in.len = Unread, Len(b) = Header
          PROVE  /\ in' = [len |-> a.size, buf |-> <<>>]
                 /\ Read' = Read + 1
      <4>1. b[1] = [of |-> a, at |-> 1]
        BY <2>3, <2>9, <3>1
      <4>2. Lengths(b) = {a.size}
        BY <4>1 DEF Lengths
      <4>3. in' = [len |-> a.size, buf |-> <<>>]
        BY <2>8, <3>1, <4>2 DEF Taken, b
      <4>4. a.size # Unread /\ in'.len = a.size /\ Len(in'.buf) = 0
        BY <2>3, <4>3 DEF Unread
      <4> QED BY <2>3, <2>4, <2>7, <3>1, <4>3, <4>4 DEF Read
    <3>2. ASSUME ~(in.len = Unread /\ Len(b) = Header)
          PROVE  /\ in'.len = in.len /\ in'.buf = b
                 /\ in' \in [len : Int, buf : Seq(ReplyUnit)]
                 /\ Read' = Read + 1
      <4>1. in' = [in EXCEPT !.buf = b]
        BY <2>8, <3>2 DEF Taken, b
      <4>2. in \in [len : Int, buf : Seq(ReplyUnit)]
        BY <2>2 DEF Receives
      <4>3. in'.len = in.len /\ in'.buf = b /\ in' \in [len : Int, buf : Seq(ReplyUnit)]
        BY <2>7, <4>1, <4>2
      <4>4. Read' = IF in.len = Unread THEN Len(b) ELSE Header + Len(b)
        BY <4>3 DEF Read
      <4> QED BY <2>3, <2>4, <2>7, <4>3, <4>4 DEF Read
    <3>3. CASE in.len = Unread /\ Len(b) = Header
      <4>1. a.size # Unread /\ a.size \in Int
        BY <2>3 DEF Unread
      <4>2. in' = [len |-> a.size, buf |-> <<>>] /\ Read' = Read + 1
        BY <3>1, <3>3
      <4>3. in'.len = a.size /\ in'.buf = <<>> /\ Len(in'.buf) = 0
        BY <4>2
      <4>4. <<>> \in Seq(ReplyUnit)
        OBVIOUS
      <4>5. in' \in [len : Int, buf : Seq(ReplyUnit)]
        BY <4>1, <4>2, <4>4
      <4>6. 0 <= a.size /\ 1 .. 0 = {}
        BY <2>3
      <4> QED BY <4>1, <4>2, <4>3, <4>5, <4>6
    <3>4. CASE ~(in.len = Unread /\ Len(b) = Header)
      <4>1. in.len = Unread => Len(b) < Header
        BY <2>2, <2>3, <2>4, <2>7, <3>4 DEF Receives
      <4>2. in.len # Unread => in.len = a.size /\ Len(b) <= a.size
        BY <1>1, <2>2, <2>3, <2>4, <2>7 DEF Receives, Complete
      <4> QED BY <2>9, <3>2, <3>4, <4>1, <4>2
    <3> QED BY <3>3, <3>4
  <2>11. /\ Len(down') <= Header + a.size - Read'
         /\ \A i \in 1 .. Len(down') : down'[i] = [of |-> a, at |-> Read' + i]
    <3>1. Len(down) <= Header + a.size - Read
      BY <2>2 DEF Receives
    <3>2. ASSUME NEW i \in 1 .. Len(down') PROVE down'[i] = [of |-> a, at |-> Read' + i]
      <4>1. i + 1 \in 1 .. Len(down) /\ down'[i] = down[i+1]
        BY <2>5
      <4>2. down[i+1] = [of |-> a, at |-> Read + (i+1)]
        BY <2>2, <4>1 DEF Receives
      <4>3. Read + (i+1) = Read' + i
        BY <2>4, <2>10
      <4> QED BY <4>1, <4>2, <4>3
    <3>3. Len(down') <= Header + a.size - Read'
      <4>1. Len(down') = Len(down) - 1 /\ Read' = Read + 1
        BY <2>5, <2>10
      <4> QED BY <2>3, <2>4, <2>5, <3>1, <4>1
    <3> QED BY <3>2, <3>3
  <2>12. PICK c : c = a
    OBVIOUS
  <2>13. IsAnswer(c)' /\ Receives(c)'
    BY <1>1, <2>2, <2>5, <2>10, <2>11, <2>12 DEF IsAnswer, Receives
  <2> QED BY <1>1, <1>4, <2>1, <2>13 DEF AInv, AnswerInv, HasAnswer
<1> QED BY <1>2, <1>3, <1>4 DEF AInv

-----------------------------------------------------------------------------
(* The client takes an answer, or gives up *)

\* A step that ends the wait with nothing under way.
LEMMA RestInStep ==
    ASSUME SInv, AInv, UNCHANGED <<stored, sent, handled>>, ~overflowed' => ~overflowed,
           at' \notin Answers,
           ~overflowed => /\ in' = Fresh /\ down' = <<>>
                          /\ serving' /\ at' # "exited" =>
                               \A i \in Now .. Len(sent) : ~HasAnswer(i)
    PROVE  AInv'
<1>1. StoreInv'
  BY DEF AInv, StoreInv
<1>2. Now' = Now /\ \A i : HasAnswer(i)' <=> HasAnswer(i)
  BY DEF Now, HasAnswer
<1>3. ~overflowed => QuietInv'
  BY <1>2 DEF QuietInv
<1>4. ~overflowed => AnswerInv'
  BY DEF AnswerInv, Idle, Fresh
<1> QED BY <1>1, <1>3, <1>4 DEF AInv

\* In a menu, no answer is owed.
LEMMA MenuIsQuiet ==
    ASSUME SInv, AInv, ~overflowed, at \notin Answers
    PROVE  /\ in = Fresh /\ down = <<>>
           /\ serving /\ at # "exited" => \A i \in Now .. Len(sent) : ~HasAnswer(i)
<1>1. in = Fresh /\ down = <<>>
  BY DEF AInv, AnswerInv, Idle
<1>2. ASSUME serving, at # "exited", NEW i \in Now .. Len(sent), HasAnswer(i) PROVE FALSE
  <2>1. at = AnswerTo[sent[i].op]
    BY <1>2 DEF AInv, QuietInv
  <2> QED BY <1>2, <2>1 DEF HasAnswer, Answers
<1> QED BY <1>1, <1>2

\* When the answer has been taken, all requests have been handled.
LEMMA NothingOwed ==
    ASSUME SInv, AInv, ~overflowed, at \in Answers, Complete(in)
    PROVE  /\ down = <<>>
           /\ \A i \in Now .. Len(sent) : ~HasAnswer(i)
<1>1. Len(handled) = Len(sent) /\ down = <<>>
  BY TakenWhole
<1>2. Now .. Len(sent) = {}
  BY <1>1, OffsetFacts DEF Now
<1> QED BY <1>1, <1>2

LEMMA AskInStep ==
    ASSUME SInv, AInv, Ask, ~overflowed' => ~overflowed
    PROVE  AInv'
<1>1. at \in Menus /\ at # "exited" /\ at \notin Answers
  BY StringFacts DEF Ask, Register, Authenticate, LogOut, Download, SeeList, Delete, Upload, Menus
<1>2. ~overflowed => /\ in = Fresh /\ down = <<>>
                     /\ serving => \A i \in Now .. Len(sent) : ~HasAnswer(i)
  BY <1>1, MenuIsQuiet
<1>3. CASE LogOut
  <2>1. /\ at' = "menu" /\ UNCHANGED <<in, down, stored, sent, handled, serving>>
    BY <1>3 DEF LogOut, server
  <2>2. at' \notin Answers
    BY <2>1, StringFacts
  <2> QED BY <1>2, <2>1, <2>2, RestInStep
<1>4. ASSUME NEW op \in Requests, NEW size, NEW next, Send(op, size, next),
             IF op \in DOMAIN AnswerTo THEN next = AnswerTo[op] ELSE next \notin Answers
      PROVE  AInv'
  BY <1>2, <1>4, SendInStep
<1>5. /\ {"register", "ask_salt", "upload", "download", "list", "delete"} \subseteq Requests
      /\ {"register", "upload", "delete"} \cap DOMAIN AnswerTo = {}
      /\ {"menu", "actions"} \cap Answers = {}
  BY AnswerNames, StringFacts
<1>6. CASE Register
  BY <1>4, <1>5, <1>6 DEF Register
<1>7. CASE Authenticate
  BY <1>4, <1>5, <1>7, AnswerNames DEF Authenticate
<1>8. CASE Download
  BY <1>4, <1>5, <1>8, AnswerNames DEF Download
<1>9. CASE SeeList
  BY <1>4, <1>5, <1>9, AnswerNames DEF SeeList
<1>10. CASE Delete
  BY <1>4, <1>5, <1>10 DEF Delete
<1>11. ASSUME NEW size \in UploadSizes, Upload(size) PROVE AInv'
  BY <1>4, <1>5, <1>11 DEF Upload
<1> QED BY <1>3, <1>6, <1>7, <1>8, <1>9, <1>10, <1>11 DEF Ask

LEMMA TakeInStep ==
    ASSUME SInv, AInv, Take \/ TakeThrows, ~overflowed' => ~overflowed
    PROVE  AInv'
<1>1. at \in Answers /\ Complete(in)
  BY AnswerNames DEF Take, TakeThrows, Answers
<1>2. ~overflowed => down = <<>> /\ \A i \in Now .. Len(sent) : ~HasAnswer(i)
  BY <1>1, NothingOwed
<1>3. ASSUME in' = Fresh, at' \in Menus, UNCHANGED <<server, down, sent>> PROVE AInv'
  <2>1. at' \notin Answers /\ UNCHANGED <<stored, sent, handled>>
    BY <1>3, StringFacts DEF server
  <2> QED BY <1>2, <1>3, <2>1, RestInStep
<1>4. ASSUME NEW op \in DOMAIN AnswerTo, Send(op, 1, AnswerTo[op]) PROVE AInv'
  <2>1. op \in Requests
    BY DEF Requests
  <2> QED BY <1>2, <1>4, <2>1, SendInStep
<1>5. \/ in' = Fresh /\ at' \in Menus /\ UNCHANGED <<server, down, sent>>
      \/ Send("ask_challenge", 1, "challenge")
      \/ Send("respond", 1, "verdict")
  <2>1. Abandon => in' = Fresh /\ at' \in Menus /\ UNCHANGED <<server, sent>>
    BY DEF Abandon, Menu, Menus
  <2> QED BY <2>1 DEF Take, TakeThrows
<1> QED BY <1>3, <1>4, <1>5, AnswerNames

\* When the stream has ended and nothing is left to read, recv throws.
LEMMA ThrowInStep ==
    ASSUME SInv, AInv, RecvThrows, overflowed' = (overflowed \/ Overflow)
    PROVE  AInv'
<1>1. /\ at \in Answers /\ in' = Fresh /\ at' \in Menus /\ at' \notin Answers
      /\ UNCHANGED <<down, stored, sent, handled, serving>>
  BY StringFacts DEF RecvThrows, Abandon, Menu, Menus, server
<1>2. CASE overflowed'
  <2>1. StoreInv'
    BY <1>1 DEF AInv, StoreInv
  <2> QED BY <1>2, <2>1 DEF AInv
<1>3. CASE ~overflowed'
  <2>1. ~Overflow /\ ~overflowed
    BY <1>3
  <2>2. down = <<>> /\ ~serving
    BY <2>1 DEF RecvThrows, Overflow
  <2> QED BY <1>1, <1>3, <2>1, <2>2, RestInStep
<1> QED BY <1>2, <1>3

-----------------------------------------------------------------------------
(* The server, in step *)

LEMMA ReplyUnits ==
    ASSUME NEW a \in Replies
    PROVE  /\ Units(a) \in Seq(ReplyUnit)
           /\ Len(Units(a)) = Header + a.size
           /\ \A i \in 1 .. Len(Units(a)) : Units(a)[i] = [of |-> a, at |-> i]
<1>1. Header + a.size \in Nat \ {0}
  BY SessionAssumption DEF Replies
<1>2. \A i \in 1 .. Header + a.size : [of |-> a, at |-> i] \in ReplyUnit
  BY <1>1 DEF ReplyUnit
<1> QED BY <1>1, <1>2 DEF Units

\* An answer is under way, and nothing of it has been read.
LEMMA JustAnswered ==
    ASSUME NEW a \in Replies, in = Fresh, down = Units(a)
    PROVE  Receives(a)
<1>1. in.len = Unread /\ in.buf = <<>> /\ Len(in.buf) = 0 /\ Read = 0
      /\ in \in [len : Int, buf : Seq(ReplyUnit)]
  BY DEF Fresh, Unread, Read
<1>2. /\ down \in Seq(ReplyUnit) /\ Len(down) = Header + a.size
      /\ \A i \in 1 .. Len(down) : down[i] = [of |-> a, at |-> i]
  BY ReplyUnits
<1>3. Header + a.size \in Nat /\ Header \in Nat \ {0} /\ a.size \in Nat
  BY SessionAssumption DEF Replies
<1>4. \A i \in 1 .. Len(down) : down[i] = [of |-> a, at |-> Read + i]
  <2> SUFFICES ASSUME NEW i \in 1 .. Len(down) PROVE down[i] = [of |-> a, at |-> Read + i]
    OBVIOUS
  <2>1. Read + i = i
    BY <1>1, <1>2, <1>3
  <2> QED BY <1>2, <2>1
<1>5. Len(down) <= Header + a.size - Read
  BY <1>1, <1>2, <1>3
<1>6. 1 .. Len(in.buf) = {}
  BY <1>1
<1> QED BY <1>1, <1>2, <1>3, <1>4, <1>5, <1>6 DEF Receives

\* What is lost of an answer is its end.
LEMMA StillReceives ==
    ASSUME NEW a \in Replies, Receives(a), UNCHANGED in, down' \in Prefixes(down)
    PROVE  \E b : b = a /\ Receives(b)'
<1>1. down \in Seq(ReplyUnit) /\ Len(down) \in Nat
  BY DEF Receives
<1>2. PICK k \in 0 .. Len(down) : down' = SubSeq(down, 1, k)
  BY DEF Prefixes
<1>3. /\ down' \in Seq(ReplyUnit) /\ Len(down') = k
      /\ \A i \in 1 .. k : down'[i] = down[i]
  BY <1>1, <1>2, SubSeqProperties
<1>4. Read' = Read /\ Read \in Int /\ a.size \in Nat
  BY SessionAssumption DEF Read, Receives, Replies
<1>5. Len(down') <= Header + a.size - Read'
  BY <1>1, <1>3, <1>4, SessionAssumption DEF Receives
<1>6. \A i \in 1 .. Len(down') : down'[i] = [of |-> a, at |-> Read' + i]
  <2> SUFFICES ASSUME NEW i \in 1 .. Len(down') PROVE down'[i] = [of |-> a, at |-> Read' + i]
    OBVIOUS
  <2>1. i \in 1 .. Len(down) /\ down'[i] = down[i]
    BY <1>1, <1>3
  <2>2. down[i] = [of |-> a, at |-> Read + i]
    BY <2>1 DEF Receives
  <2> QED BY <1>4, <2>1, <2>2
<1>7. PICK b : b = a
  OBVIOUS
<1> QED BY <1>3, <1>5, <1>6, <1>7 DEF Receives

LEMMA NoPrefixOfNothing == ASSUME down = <<>>, down' \in Prefixes(down) PROVE down' = <<>>
<1>1. PICK k \in 0 .. 0 : down' = SubSeq(<<>>, 1, k)
  BY DEF Prefixes
<1>2. k = 0
  BY <1>1
<1> QED BY <1>1, <1>2

\* The connection ends with a request read or not, but none handled.
LEMMA CloseInStep ==
    ASSUME SInv, AInv, CloseConnection, UNCHANGED <<stored, handled>>,
           ~overflowed' => ~overflowed
    PROVE  AInv'
<1>1. /\ serving' = FALSE /\ down' \in Prefixes(down)
      /\ UNCHANGED <<at, in, sent, handled, stored>>
  BY DEF CloseConnection, client
<1>2. StoreInv' /\ QuietInv'
  BY <1>1 DEF AInv, StoreInv, QuietInv
<1>3. ASSUME ~overflowed PROVE AnswerInv'
  <2>1. Idle => Idle'
    BY <1>1, NoPrefixOfNothing DEF Idle, Fresh
  <2>2. ASSUME NEW a, IsAnswer(a), Receives(a) PROVE \E b : IsAnswer(b)' /\ Receives(b)'
    <3>1. PICK b : b = a /\ Receives(b)'
      BY <1>1, <2>2, StillReceives DEF IsAnswer
    <3>2. IsAnswer(b)'
      BY <1>1, <2>2, <3>1 DEF IsAnswer
    <3> QED BY <3>1, <3>2
  <2> QED BY <1>1, <1>3, <2>1, <2>2 DEF AInv, AnswerInv, HasAnswer
<1> QED BY <1>2, <1>3 DEF AInv

\* Before a request is handled: what is owed for it, and by whom it is awaited.
LEMMA BeforeHandling ==
    ASSUME SInv, AInv, ~overflowed, HasRequest
    PROVE  /\ Now \in 1 .. Len(sent) /\ Idle
           /\ at # "exited" /\ HasAnswer(Now) => Now = Len(sent) /\ at = AnswerTo[sent[Now].op]
           /\ at \in Answers => Len(sent) # 0 /\ HasAnswer(Len(sent))
                               /\ at = AnswerTo[sent[Len(sent)].op]
<1>1. Now \in 1 .. Len(sent) /\ serving
  BY MessageIsNext
<1>2. Len(handled) < Len(sent)
  BY <1>1, OffsetFacts DEF Now
<1>3. Now \in Now .. Len(sent)
  BY <1>1, OffsetFacts
<1>4. Idle
  BY <1>2 DEF AInv, AnswerInv
<1> QED BY <1>1, <1>3, <1>4 DEF AInv, QuietInv, AnswerInv

\* One request fewer is not handled.
LEMMA QuietKept ==
    ASSUME SInv, QuietInv, UNCHANGED <<at, sent>>, Now' = Now + 1, serving' => serving
    PROVE  QuietInv'
<1> SUFFICES ASSUME serving', at' # "exited", NEW i \in Now' .. Len(sent'), HasAnswer(i)'
             PROVE  i = Len(sent') /\ at' = AnswerTo[sent'[i].op]
  BY DEF QuietInv
<1>1. i \in Now .. Len(sent) /\ HasAnswer(i)
  BY OffsetFacts DEF HasAnswer
<1> QED BY <1>1 DEF QuietInv

LEMMA HandlerThrowsInStep ==
    ASSUME SInv, AInv, HandlerThrows, ~overflowed' => ~overflowed
    PROVE  AInv'
<1>1. /\ HasRequest /\ serving' = FALSE /\ down' \in Prefixes(down)
      /\ handled' = Append(handled, Message(got))
      /\ UNCHANGED <<at, in, sent, stored>>
  BY DEF HandlerThrows, CloseConnection, client
<1>2. StoreInv' /\ QuietInv'
  BY <1>1 DEF AInv, StoreInv, QuietInv
<1>3. ASSUME ~overflowed PROVE AnswerInv'
  <2>1. Idle'
    BY <1>1, <1>3, BeforeHandling, NoPrefixOfNothing DEF Idle, Fresh
  <2>2. ASSUME at \in Answers PROVE \E a : IsAnswer(a)' /\ Receives(a)'
    <3> DEFINE r == [op |-> at, size |-> 1, n |-> Len(sent)]
    <3>1. r \in Replies
      BY <2>2, OffsetFacts DEF Replies
    <3>2. PICK a : a = r
      OBVIOUS
    <3>3. a \in Replies /\ a.op = at' /\ a.n = Len(sent') /\ ~(a.size > Limit)
      BY <1>1, <3>1, <3>2, SessionAssumption
    <3>4. IsAnswer(a)'
      BY <3>3 DEF IsAnswer
    <3>5. Receives(a)'
      <4>1. in'.len = Unread /\ in'.buf = <<>> /\ Len(in'.buf) = 0 /\ Read' = 0
            /\ in' \in [len : Int, buf : Seq(ReplyUnit)] /\ 1 .. Len(in'.buf) = {}
        BY <2>1 DEF Idle, Fresh, Unread, Read
      <4>2. Len(down') = 0 /\ down' \in Seq(ReplyUnit) /\ 1 .. Len(down') = {}
        BY <2>1 DEF Idle
      <4>3. 0 <= Header + a.size - 0 /\ 0 < Header
        BY <3>3, SessionAssumption DEF Replies
      <4> QED BY <4>1, <4>2, <4>3 DEF Receives
    <3> QED BY <3>4, <3>5
  <2>3. at \in Answers => Len(sent) # 0 /\ HasAnswer(Len(sent)) /\ at = AnswerTo[sent[Len(sent)].op]
    BY <1>1, <1>3, BeforeHandling
  <2> QED BY <1>1, <2>1, <2>2, <2>3 DEF AnswerInv, HasAnswer
<1> QED BY <1>2, <1>3 DEF AInv

\* An upload that was read whole is within the limit, and so is what is stored.
LEMMA StoreKept ==
    ASSUME SInv, StoreInv, HasRequest, stored' \in StoredAfter(Message(got))
    PROVE  StoreInv'
<1> DEFINE p == Message(got)
<1>1. p \in Payloads /\ p = sent[Now]
  BY MessageIsNext
<1>2. p.size <= Limit
  <2>1. got.len = p.size /\ ~(got.len > Limit)
    BY <1>1, MessageIsNext DEF HasRequest, TooLong, ServerLimit, SInv, GotInv, Complete
  <2> QED BY <1>1, <2>1, SessionAssumption DEF Payloads
<1>3. IsFiniteSet(stored \union {p}) /\ \A f : IsFiniteSet(stored \ {f})
  BY FS_AddElement, FS_RemoveElement DEF StoreInv
<1> HIDE DEF p
<1>4. \/ stored' = stored \union {p}
      \/ \E f \in stored : stored' = stored \ {f}
      \/ stored' = stored
  <2>1. stored' \in StoredAfter(p)
    BY DEF p
  <2>2. CASE p.op = "upload"
    <3>1. stored' \in {stored \union {p}}
      BY <2>1, <2>2 DEF StoredAfter
    <3> QED BY <3>1
  <2>3. CASE p.op = "delete"
    <3>1. stored' \in {stored \ {f} : f \in stored} \union {stored}
      BY <2>1, <2>3 DEF StoredAfter
    <3> QED BY <3>1
  <2>4. CASE p.op \notin {"upload", "delete"}
    <3>1. stored' \in {stored}
      BY <2>1, <2>4 DEF StoredAfter
    <3> QED BY <3>1
  <2> QED BY <2>2, <2>3, <2>4
<1> QED BY <1>1, <1>2, <1>3, <1>4 DEF StoreInv

LEMMA HandleInStep ==
    ASSUME SInv, AInv, Handle, ~overflowed' => ~overflowed
    PROVE  AInv'
<1> DEFINE p == Message(got)
<1>1. HasRequest /\ p = sent[Now] /\ p \in Payloads /\ p # Garbled
      /\ p.n = Now /\ Now \in 1 .. Len(sent)
  BY MessageIsNext DEF Handle, SInv, SentInv
<1>2. /\ stored' \in StoredAfter(p) /\ handled' = Append(handled, p)
      /\ UNCHANGED <<at, in, sent, serving>>
      /\ \E answer \in Solve(p) : down' = IF answer = <<>> \/ at = "exited" THEN down
                                           ELSE down \o Units(answer[1])
  BY <1>1 DEF Handle, client
<1>3. PICK answer \in Solve(p) :
         down' = IF answer = <<>> \/ at = "exited" THEN down ELSE down \o Units(answer[1])
  BY <1>2
<1>4. StoreInv'
  BY <1>1, <1>2, StoreKept DEF AInv
<1>5. Now' = Now + 1 /\ Len(handled') = Len(handled) + 1 /\ Now = Len(handled) + 1
      /\ Len(handled) \in Nat /\ Len(sent) \in Nat
  BY <1>1, <1>2, HandledGrows, OffsetFacts DEF SInv, HandledInv, Now
<1>6. QuietInv => QuietInv'
  BY <1>2, <1>5, QuietKept
<1>7. IF p.op \in DOMAIN AnswerTo
      THEN /\ answer[1] \in Replies /\ answer # <<>>
           /\ answer[1].op = AnswerTo[p.op] /\ answer[1].n = p.n
           /\ answer[1].size > Limit => answer[1].op \in {"salt", "file", "names"}
      ELSE answer = <<>>
  BY <1>1, SolveFacts DEF AInv
<1> HIDE DEF p
<1>8. ASSUME ~overflowed PROVE AnswerInv'
  <2>1. Idle /\ (at # "exited" /\ HasAnswer(Now) => Now = Len(sent) /\ at = AnswerTo[sent[Now].op])
    BY <1>1, <1>8, BeforeHandling
  <2>2. at \in Answers => Len(sent) # 0 /\ HasAnswer(Len(sent)) /\ at = AnswerTo[sent[Len(sent)].op]
    BY <1>1, <1>8, BeforeHandling
  <2>3. HasAnswer(Now) <=> p.op \in DOMAIN AnswerTo
    BY <1>1 DEF HasAnswer
  <2>4. CASE at = "exited" \/ ~HasAnswer(Now)
    <3>1. down' = down
      BY <1>3, <1>7, <2>3, <2>4
    <3>2. Idle'
      BY <1>2, <2>1, <3>1 DEF Idle, Fresh
    <3>3. at \in Answers => Now # Len(sent)
      BY <2>2, <2>4, StringFacts
    <3>4. at \in Answers => Len(handled') < Len(sent')
      BY <1>1, <1>2, <1>5, <3>3
    <3> QED BY <1>2, <2>2, <3>2, <3>4 DEF AnswerInv, HasAnswer
  <2>5. CASE at # "exited" /\ HasAnswer(Now)
    <3>1. Now = Len(sent) /\ at = AnswerTo[p.op]
      BY <1>1, <2>1, <2>5
    <3>2. PICK a : a = answer[1]
      OBVIOUS
    <3>3. a \in Replies /\ a.op = at /\ a.n = Len(sent) /\ (a.size > Limit => at \in {"salt", "file", "names"})
      BY <1>1, <1>7, <2>3, <2>5, <3>1, <3>2
    <3>4. Units(a) \in Seq(ReplyUnit)
      BY <3>3, ReplyUnits
    <3>5. down' = Units(a)
      <4>1. down' = <<>> \o Units(a)
        BY <1>3, <1>7, <2>1, <2>3, <2>5, <3>2 DEF Idle
      <4> QED BY <3>4, <4>1
    <3>6. IsAnswer(a)'
      BY <1>2, <3>3 DEF IsAnswer
    <3>7. Receives(a)'
      <4>1. in'.len = Unread /\ in'.buf = <<>> /\ Len(in'.buf) = 0 /\ Read' = 0
            /\ in' \in [len : Int, buf : Seq(ReplyUnit)] /\ 1 .. Len(in'.buf) = {}
        BY <1>2, <2>1 DEF Idle, Fresh, Unread, Read
      <4>2. /\ down' \in Seq(ReplyUnit) /\ Len(down') = Header + a.size
            /\ \A i \in 1 .. Len(down') : down'[i] = [of |-> a, at |-> i]
        BY <3>3, <3>5, ReplyUnits
      <4>3. Header \in Nat \ {0} /\ a.size \in Nat
        BY <3>3, SessionAssumption DEF Replies
      <4>4. Len(down') <= Header + a.size - Read'
        BY <4>1, <4>2, <4>3
      <4>5. \A i \in 1 .. Len(down') : down'[i] = [of |-> a, at |-> Read' + i]
        <5> SUFFICES ASSUME NEW i \in 1 .. Len(down')
                     PROVE  down'[i] = [of |-> a, at |-> Read' + i]
          OBVIOUS
        <5>1. Read' + i = i
          BY <4>1, <4>2, <4>3
        <5> QED BY <4>2, <5>1
      <4> QED BY <4>1, <4>2, <4>3, <4>4, <4>5 DEF Receives
    <3>8. at \in Answers /\ ~(Len(handled') < Len(sent'))
      <4>1. AnswerTo[p.op] \in Answers
        BY <2>3, <2>5 DEF Answers
      <4> QED BY <1>2, <1>5, <3>1, <4>1
    <3> QED BY <1>2, <2>2, <3>6, <3>7, <3>8 DEF AnswerInv, HasAnswer
  <2> QED BY <2>4, <2>5
<1> QED BY <1>4, <1>6, <1>8 DEF AInv

LEMMA ServerInStep ==
    ASSUME SInv, AInv, ServerStep \/ Cut, ~overflowed' => ~overflowed
    PROVE  AInv'
<1>1. CASE ServerReads
  <2>1. UNCHANGED <<at, in, sent, down, serving, stored, handled>>
    BY <1>1 DEF ServerReads, client
  <2> QED BY <2>1 DEF AInv, StoreInv, QuietInv, AnswerInv, Now, HasAnswer, Idle, Fresh,
                      IsAnswer, Receives, Read
<1>2. CASE EndLoop \/ Cut
  <2>1. CloseConnection /\ UNCHANGED <<stored, handled>>
    BY <1>2 DEF EndLoop, Cut
  <2> QED BY <2>1, CloseInStep
<1> QED BY <1>1, <1>2, HandleInStep, HandlerThrowsInStep DEF ServerStep

-----------------------------------------------------------------------------
(* Every step *)

LEMMA LeaveInStep ==
    ASSUME SInv, AInv, TryConnect \/ Handshake \/ Acceptor \/ Quit,
           ~overflowed' => ~overflowed
    PROVE  AInv'
<1>1. CASE Quit
  <2>1. /\ at' = "exited" /\ in' = Fresh /\ down' = <<>>
        /\ UNCHANGED <<stored, handled, sent>>
    BY <1>1 DEF Quit, server
  <2> QED BY <2>1, StringFacts, RestInStep
<1>2. CASE TryConnect \/ Handshake \/ Acceptor
  <2>1. /\ at \in Early /\ sent = <<>> /\ handled = <<>>
        /\ UNCHANGED <<in, down, stored, handled, sent>>
    BY <1>2, EarlyFrame DEF SInv, PhaseInv
  <2>2. at' \in Early \union {"exited", "menu"}
    BY <1>2, EarlyFrame
  <2>3. at \notin Answers /\ at' \notin Answers
    BY <2>1, <2>2, StringFacts DEF Menus
  <2>4. Now .. Len(sent) = {}
    BY <2>1 DEF Now
  <2>5. ~overflowed => in = Fresh /\ down = <<>>
    BY <2>3, MenuIsQuiet
  <2> QED BY <2>1, <2>3, <2>4, <2>5, RestInStep
<1> QED BY <1>1, <1>2

LEMMA AStep == SInv /\ AInv /\ [HNext]_hvars => AInv'
<1> SUFFICES ASSUME SInv, AInv, [HNext]_hvars PROVE AInv'
  OBVIOUS
<1>1. CASE UNCHANGED hvars
  BY <1>1 DEF hvars, AInv, StoreInv, QuietInv, AnswerInv, Now, HasAnswer, Idle, Fresh,
              IsAnswer, Receives, Read
<1>2. CASE HNext
  <2>1. overflowed' = (overflowed \/ Overflow)
    BY <1>2 DEF HNext
  <2>2. ~overflowed' => ~overflowed
    BY <2>1
  <2>3. Next
    BY <1>2 DEF HNext
  <2>4. CASE RecvThrows
    BY <2>1, <2>4, ThrowInStep
  <2>5. CASE TryConnect \/ Handshake \/ Acceptor \/ Quit
    BY <2>2, <2>5, LeaveInStep
  <2>6. CASE Ask
    BY <2>2, <2>6, AskInStep
  <2>7. CASE Recv
    BY <2>2, <2>7, RecvInStep
  <2>8. CASE Take \/ TakeThrows
    BY <2>2, <2>8, TakeInStep
  <2>9. CASE ServerStep \/ Cut
    BY <2>2, <2>9, ServerInStep
  <2> QED BY <2>3, <2>4, <2>5, <2>6, <2>7, <2>8, <2>9 DEF Next, ClientStep
<1> QED BY <1>1, <1>2

(***************************************************************************)
(* The answer that the client takes is the one to its latest request, all  *)
(* its requests have been handled by then, and nothing else is under way;  *)
(* until an answer over the limit is given up (client.cpp:121-122, 293,    *)
(* 322; comms.cpp:154-175).                                                *)
(***************************************************************************)
THEOREM AnswersInStep == HSpec => AnswerIsCurrent
<1>1. SInv /\ AInv /\ [HNext]_hvars =>
         [Take /\ ~overflowed => /\ Message(in).n = Len(sent)
                                 /\ Len(handled) = Len(sent)
                                 /\ down = <<>>]_hvars
  BY TakenWhole DEF Take
<1> QED BY SInit, SStep, AInit, AStep, <1>1, PTL DEF HSpec, AnswerIsCurrent

(***************************************************************************)
(* What the server accepted as an upload, the client accepts as a          *)
(* download, for any limit, sizes of uploads and sizes that a read of a    *)
(* missing file leaves: a body that it refuses is that of no file in the   *)
(* store, and the other answers it may refuse are salts and lists          *)
(* (comms.cpp:127, data.cpp:56-66 and Client comms.cpp:132).               *)
(***************************************************************************)
THEOREM StoredFitsClient == HSpec => StoredFilesFit
<1>1. SInv /\ AInv /\ [HNext]_hvars =>
         [Overflow /\ ~overflowed
          => /\ at \in {"salt", "file", "names"}
             /\ at = "file" => \A f \in stored : f.size # in.len]_hvars
  <2> SUFFICES ASSUME SInv, AInv, Overflow, ~overflowed
               PROVE  /\ at \in {"salt", "file", "names"}
                      /\ \A f \in stored : f.size # in.len
    OBVIOUS
  <2>1. at \in Answers /\ in.len > Limit
    BY DEF Overflow, RecvThrows, TooLong, ClientLimit
  <2>2. in # Fresh
    BY <2>1, SessionAssumption DEF Fresh, Unread
  <2>3. PICK a : IsAnswer(a) /\ Receives(a)
    BY <2>1, <2>2 DEF AInv, AnswerInv, Idle
  <2>4. a.size > Limit /\ in.len = a.size /\ a.size \in Nat
    BY <2>1, <2>3, SessionAssumption DEF IsAnswer, Receives, Replies, Unread
  <2>5. at \in {"salt", "file", "names"}
    BY <2>3, <2>4 DEF IsAnswer
  <2>6. \A f \in stored : f.size \in Nat /\ f.size <= Limit
    BY DEF AInv, StoreInv, Payloads
  <2> QED BY <2>4, <2>5, <2>6, SessionAssumption
<1> QED BY SInit, SStep, AInit, AStep, <1>1, PTL DEF HSpec, StoredFilesFit

-----------------------------------------------------------------------------
(* Types: sizes of what is under way, whatever the client takes it for *)

RequestSizes == {1} \union UploadSizes
FrameSizes   == UploadSizes \union JunkSizes \union 1 .. MaxRequests+1
FrameUnit    == {u \in ReplyUnit : u.of.size \in FrameSizes}

ConnInv ==
    /\ attempt \in 0 .. MaxRetries
    /\ at \in {"queued", "handshake"} => attempt < MaxRetries
    /\ listener \in {"accepting", "left", "closed"}
    /\ ssl \in {"null", "live", "freed", "freed twice"}

SizesInv ==
    /\ Len(sent) <= MaxRequests
    /\ \A i \in 1 .. Len(sent) : sent[i].size \in RequestSizes

\* Each upload that is in the store was a request that was handled.
KeptInv ==
    /\ Cardinality(stored) <= Len(handled)
    /\ \A f \in stored : f.op = "upload" /\ f.size \in RequestSizes

DownInv ==
    /\ down \in Seq(FrameUnit)
    /\ in \in [len : Int, buf : Seq(FrameUnit)]
    /\ ReaderOK(in, ClientLimit)

UpTypes == TooLong(got, ServerLimit) => Len(got.buf) = 0

TInv == ConnInv /\ SizesInv /\ KeptInv /\ DownInv /\ UpTypes

LEMMA SizeFacts ==
    /\ RequestSizes \subseteq FrameSizes
    /\ FrameSizes \subseteq Nat \ {0}
    /\ MaxRequests \in Nat /\ Limit \in Nat \ {0} /\ Header \in Nat \ {0}
    /\ ClientLimit = Limit /\ ServerLimit = Limit
<1>1. /\ MaxRequests \in Nat /\ Limit \in Nat \ {0} /\ Header \in Nat \ {0}
      /\ UploadSizes \subseteq Nat \ {0} /\ JunkSizes \subseteq Nat \ {0}
  BY SessionAssumption
<1>2. 1 \in 1 .. MaxRequests+1 /\ 1 .. MaxRequests+1 \subseteq Nat \ {0}
  BY <1>1
<1> QED BY <1>1, <1>2 DEF RequestSizes, FrameSizes, ClientLimit, ServerLimit

LEMMA FreshOK == /\ Fresh \in [len : Int, buf : Seq(FrameUnit)]
                 /\ ReaderOK(Fresh, ClientLimit)
                 /\ ~ TooLong(Fresh, ServerLimit)
<1>1. Fresh.len = -1 /\ Fresh.buf = <<>> /\ Len(Fresh.buf) = 0
  BY DEF Fresh, Unread
<1>2. -1 \in -1 .. Limit+1
  BY SizeFacts
<1> QED BY <1>1, <1>2, SizeFacts DEF ReaderOK, Fresh, Unread, TooLong

LEMMA TInit == HInit => TInv
<1> SUFFICES ASSUME Init PROVE TInv
  BY DEF HInit
<1>1. ConnInv
  BY SessionAssumption DEF Init, ConnInv
<1>2. SizesInv
  BY SizeFacts DEF Init, SizesInv
<1>3. KeptInv
  BY FS_EmptySet DEF Init, KeptInv
<1>4. DownInv /\ UpTypes
  BY FreshOK DEF Init, DownInv, UpTypes
<1> QED BY <1>1, <1>2, <1>3, <1>4 DEF TInv

\* Attempts are counted up to the last.
LEMMA ConnTypes ==
    ASSUME SInv, ConnInv, Next
    PROVE  ConnInv'
<1> USE DEF ConnInv
<1>1. /\ 0 \in 0 .. MaxRetries
      /\ attempt < MaxRetries => attempt + 1 \in 0 .. MaxRetries
  <2>1. MaxRetries \in Nat \ {0}
    BY SessionAssumption
  <2>2. attempt \in 0 .. MaxRetries
    OBVIOUS
  <2> HIDE DEF ConnInv
  <2> QED BY <2>1, <2>2
<1>2. CASE TryConnect
  <2>1. CASE Refused
    <3>1. /\ attempt < MaxRetries /\ attempt' = attempt + 1
          /\ at' = "connecting" /\ UNCHANGED <<ssl, listener>>
      BY <2>1 DEF Refused, Connecting
    <3> QED BY <1>1, <3>1
  <2>2. CASE Connected
    <3>1. /\ attempt < MaxRetries /\ UNCHANGED <<attempt, listener>>
          /\ at' = "queued" /\ ssl' = "live"
      BY <2>2 DEF Connected, Connecting
    <3> QED BY <1>1, <3>1
  <2>3. CASE NoSsl \/ InitThrows
    <3>1. /\ at' = "exited" /\ attempt' = 0 /\ ssl' \in {"null", "freed twice", ssl}
          /\ UNCHANGED listener
      BY <2>3 DEF NoSsl, InitThrows, GiveUp
    <3> QED BY <1>1, <3>1
  <2> QED BY <1>2, <2>1, <2>2, <2>3 DEF TryConnect
<1>3. CASE Handshake
  <2>1. CASE HandshakeFails
    <3>1. /\ at \in {"queued", "handshake"} /\ attempt' = attempt + 1
          /\ at' = "connecting" /\ ssl' = "freed" /\ UNCHANGED listener
      BY <2>1 DEF HandshakeFails, Release, NextAttempt
    <3> QED BY <1>1, <3>1
  <2>2. CASE HandshakeDone
    <3>1. at' = "menu" /\ attempt' = 0 /\ UNCHANGED <<ssl, listener>>
      BY <2>2 DEF HandshakeDone
    <3> QED BY <1>1, <3>1
  <2>3. CASE WrongCertificate
    <3>1. /\ at' = "exited" /\ attempt' = 0 /\ ssl' = "freed twice"
          /\ UNCHANGED listener
      BY <2>3 DEF WrongCertificate, GiveUp
    <3> QED BY <1>1, <3>1
  <2> QED BY <1>3, <2>1, <2>2, <2>3 DEF Handshake
<1>4. CASE Quit
  <2>1. /\ at' = "exited" /\ attempt' = 0 /\ ssl' \in {"freed", ssl}
        /\ UNCHANGED listener
    BY <1>4 DEF Quit, Closed
  <2> QED BY <1>1, <2>1
<1>5. CASE Ask \/ ClientStep
  <2>1. at' \in Menus \union Answers /\ UNCHANGED link
    BY <1>5, StringFacts DEF Ask, ClientStep, Register, Authenticate, LogOut, Download,
       SeeList, Delete, Upload, Recv, RecvThrows, Take, TakeThrows, Send, Abandon, Menu,
       Menus
  <2> QED BY <2>1, StringFacts DEF link, Early
<1>6. CASE ServerStep \/ Cut
  BY <1>6 DEF ServerStep, Cut, ServerReads, EndLoop, Handle, HandlerThrows,
     CloseConnection, client, link
<1>7. CASE Acceptor
  <2>1. CASE Accept
    BY <2>1 DEF Accept, link
  <2>2. CASE Listen \/ AcceptFails \/ StopsListening
    <3>1. /\ UNCHANGED <<at, attempt, ssl>>
          /\ listener' \in {"accepting", "left", "closed"}
      BY <2>2 DEF Listen, AcceptFails, StopsListening, Becomes
    <3> QED BY <3>1
  <2> QED BY <1>7, <2>1, <2>2 DEF Acceptor
<1> QED BY <1>2, <1>3, <1>4, <1>5, <1>6, <1>7 DEF Next

\* What a step that sends adds.
LEMMA SendTypes ==
    ASSUME SInv, SizesInv, NEW op, NEW size \in RequestSizes, NEW next,
           Send(op, size, next)
    PROVE  SizesInv' /\ in' = Fresh /\ UNCHANGED <<down, stored, handled, got>>
<1> DEFINE p == Payload(op, size, Len(sent) + 1)
<1>1. /\ Len(sent) < MaxRequests /\ sent' = Append(sent, p)
      /\ in' = Fresh /\ UNCHANGED <<down, stored, handled, got>>
  BY DEF Send, server
<1>2. p.size = size
  BY DEF Payload
<1> HIDE DEF p
<1>3. /\ Len(sent') = Len(sent) + 1 /\ sent'[Len(sent) + 1] = p /\ Len(sent) \in Nat
      /\ \A i \in 1 .. Len(sent) : sent'[i] = sent[i]
  BY <1>1 DEF SInv, SentInv
<1> QED BY <1>1, <1>2, <1>3, SizeFacts DEF SizesInv

\* A client that neither reads nor answers drops what it has read, or keeps it.
LEMMA ClientTypes ==
    ASSUME SInv, TInv, TryConnect \/ Handshake \/ Acceptor \/ Ask \/ Quit
             \/ RecvThrows \/ Take \/ TakeThrows
    PROVE  /\ SizesInv'
           /\ UNCHANGED <<stored, handled, got>>
           /\ in' \in {in, Fresh}
           /\ down' \in {down, <<>>}
<1>1. ASSUME NEW op, NEW size \in RequestSizes, NEW next, Send(op, size, next)
      PROVE  /\ SizesInv' /\ in' = Fresh
             /\ UNCHANGED <<down, stored, handled, got>>
  BY <1>1, SendTypes DEF TInv
<1>2. 1 \in RequestSizes /\ UploadSizes \subseteq RequestSizes
  BY DEF RequestSizes
<1>3. UNCHANGED sent => SizesInv'
  BY DEF SizesInv, TInv
<1>4. CASE TryConnect \/ Handshake \/ Acceptor
  BY <1>3, <1>4, EarlyFrame
<1>5. CASE Quit
  BY <1>3, <1>5 DEF Quit, server
<1>6. CASE Ask
  <2>1. CASE LogOut
    BY <1>3, <2>1 DEF LogOut, server
  <2>2. ASSUME NEW size \in UploadSizes, Upload(size)
        PROVE  Send("upload", size, "actions")
    BY <2>2 DEF Upload
  <2>3. CASE Register
    BY <1>1, <1>2, <2>3 DEF Register
  <2>4. CASE Authenticate
    BY <1>1, <1>2, <2>4 DEF Authenticate
  <2>5. CASE Download
    BY <1>1, <1>2, <2>5 DEF Download
  <2>6. CASE SeeList
    BY <1>1, <1>2, <2>6 DEF SeeList
  <2>7. CASE Delete
    BY <1>1, <1>2, <2>7 DEF Delete
  <2>8. CASE \E size \in UploadSizes : Upload(size)
    <3>1. PICK size \in UploadSizes : Upload(size)
      BY <2>8
    <3> QED BY <1>1, <1>2, <2>2, <3>1
  <2> QED BY <1>6, <2>1, <2>3, <2>4, <2>5, <2>6, <2>7, <2>8 DEF Ask
<1>7. CASE RecvThrows \/ TakeThrows
  BY <1>3, <1>7 DEF RecvThrows, TakeThrows, Abandon, server
<1>8. CASE Take
  <2>1. \/ Abandon /\ UNCHANGED down
        \/ Send("ask_challenge", 1, "challenge")
        \/ Send("respond", 1, "verdict")
        \/ in' = Fresh /\ UNCHANGED <<server, down, sent>>
    BY <1>8 DEF Take
  <2>2. CASE Send("ask_challenge", 1, "challenge") \/ Send("respond", 1, "verdict")
    BY <1>1, <1>2, <2>2
  <2> QED BY <1>3, <2>1, <2>2 DEF Abandon, server
<1> QED BY <1>4, <1>5, <1>6, <1>7, <1>8

\* One more unit: no reader takes more than it asked for.
LEMMA RecvTypes ==
    ASSUME DownInv, Recv
    PROVE  DownInv'
<1> DEFINE u == Head(down)
           b == Append(in.buf, u)
<1>1. /\ ~Complete(in) /\ ~TooLong(in, ClientLimit) /\ down # <<>>
      /\ in' \in Taken(in, u) /\ down' = Tail(down)
  BY DEF Recv
<1>2. u \in FrameUnit /\ down' \in Seq(FrameUnit)
  BY <1>1, HeadTailProperties, EmptySeq DEF DownInv
<1>3. /\ in.len \in Int /\ in.buf \in Seq(FrameUnit) /\ Len(in.buf) \in Nat
      /\ ReaderOK(in, ClientLimit) /\ in = [len |-> in.len, buf |-> in.buf]
  BY DEF DownInv
<1> HIDE DEF u
<1>4. b \in Seq(FrameUnit) /\ Len(b) = Len(in.buf) + 1
  BY <1>2, <1>3
<1>5. Header \in Nat \ {0} /\ Limit \in Nat \ {0} /\ Unread = -1 /\ ClientLimit = Limit
  BY SizeFacts DEF Unread
<1> HIDE DEF b
<1>6. CASE in.len = Unread /\ Len(b) = Header
  <2>1. \E l \in Lengths(b) : in' = [len |-> l, buf |-> <<>>]
    BY <1>1, <1>6 DEF Taken, b
  <2>2. PICK l \in Lengths(b) : in' = [len |-> l, buf |-> <<>>]
    BY <2>1
  <2>3. b[1] \in FrameUnit
    <3>1. 1 \in 1 .. Len(b)
      BY <1>5, <1>6
    <3> QED BY <1>4, <3>1
  <2>4. l \in FrameSizes \union 0 .. Limit+1
    BY <2>2, <2>3 DEF Lengths, FrameUnit
  <2>5. l \in Nat
    <3>1. 0 .. Limit+1 \subseteq Nat
      BY <1>5
    <3> QED BY <2>4, <3>1, SizeFacts
  <2>6. l \in Unread .. Limit+1 \union UploadSizes \union JunkSizes \union 1 .. MaxRequests+1
    <3>1. 0 .. Limit+1 \subseteq Unread .. Limit+1
      BY <1>5
    <3> QED BY <2>4, <3>1 DEF FrameSizes
  <2>7. in'.len = l /\ in'.buf = <<>> /\ Len(in'.buf) = 0 /\ in'.buf \in Seq(FrameUnit)
    BY <2>2
  <2>8. Len(in'.buf) <= IF in'.len = Unread THEN Header-1
                        ELSE IF TooLong(in', ClientLimit) THEN 0 ELSE in'.len
    BY <1>5, <2>5, <2>7
  <2> QED BY <1>2, <2>2, <2>5, <2>6, <2>7, <2>8 DEF DownInv, ReaderOK
<1>7. CASE ~(in.len = Unread /\ Len(b) = Header)
  <2>1. in' = [in EXCEPT !.buf = b]
    BY <1>1, <1>7 DEF Taken, b
  <2>2. in' = [len |-> in.len, buf |-> b] /\ in'.len = in.len /\ in'.buf = b
    BY <1>3, <2>1
  <2>3. Len(b) <= IF in.len = Unread THEN Header-1
                  ELSE IF in.len > Limit THEN 0 ELSE in.len
    BY <1>1, <1>3, <1>4, <1>5, <1>7 DEF ReaderOK, TooLong, Complete
  <2>4. ReaderOK(in', ClientLimit)
    BY <1>3, <1>5, <2>2, <2>3 DEF ReaderOK, TooLong
  <2> QED BY <1>2, <1>3, <1>4, <2>2, <2>4 DEF DownInv
<1> QED BY <1>6, <1>7

\* What the server's loop reads of a body that it refuses is nothing.
LEMMA ReadsTypes ==
    ASSUME SInv, ServerReads
    PROVE  UpTypes'
<1> DEFINE b == Append(got.buf, Head(up))
<1>1. ~TooLong(got, ServerLimit) /\ got' \in Taken(got, Head(up))
  BY DEF ServerReads
<1>2. got = [len |-> got.len, buf |-> got.buf]
  BY DEF SInv, GotInv
<1>3. CASE got.len = Unread /\ Len(b) = Header
  <2>1. \E l \in Lengths(b) : got' = [len |-> l, buf |-> <<>>]
    BY <1>1, <1>3 DEF Taken
  <2> QED BY <2>1 DEF UpTypes
<1>4. CASE ~(got.len = Unread /\ Len(b) = Header)
  <2>1. got' = [got EXCEPT !.buf = b]
    BY <1>1, <1>4 DEF Taken
  <2>2. got'.len = got.len
    BY <1>2, <2>1
  <2> QED BY <1>1, <2>2 DEF UpTypes, TooLong
<1> QED BY <1>3, <1>4

\* The end of a connection loses units and alters none.
LEMMA CloseTypes ==
    ASSUME DownInv, CloseConnection
    PROVE  DownInv' /\ UpTypes' /\ UNCHANGED sent
<1>1. /\ got' = Fresh /\ down' \in Prefixes(down) /\ in' = in /\ sent' = sent
  BY DEF CloseConnection, client
<1>2. PICK k \in 0 .. Len(down) : down' = SubSeq(down, 1, k)
  BY <1>1 DEF Prefixes
<1>3. down' \in Seq(FrameUnit)
  BY <1>2, SubSeqProperties DEF DownInv
<1> QED BY <1>1, <1>3, FreshOK DEF DownInv, UpTypes

\* A list has a line for each upload that is stored, a file is as long as its
\* upload, what a missing file makes is as long as may be.
LEMMA SolveSizes ==
    ASSUME StoreInv, KeptInv, Len(handled) \in Nat, Len(handled) <= MaxRequests,
           NEW p \in Payloads, NEW answer \in Solve(p), answer # <<>>
    PROVE  answer[1].size \in FrameSizes
<1>1. 1 \in FrameSizes /\ MaxRequests \in Nat /\ JunkSizes \subseteq FrameSizes
  BY SizeFacts DEF RequestSizes, FrameSizes
<1>2. PICK size \in AnswerSizes(p) : answer = <<Payload(AnswerTo[p.op], size, p.n)>>
  BY DEF Solve
<1>3. answer[1].size = size
  <2>1. PICK b : b.size = size /\ answer = <<b>>
    BY <1>2 DEF Payload
  <2> QED BY <2>1
<1>4. CASE p.op = "list"
  <2>1. Cardinality(stored) \in Nat
    BY FS_CardinalityType DEF StoreInv
  <2>2. 1 + Cardinality(stored) \in FrameSizes
    BY <1>1, <2>1 DEF KeptInv, FrameSizes
  <2>3. size \in {1 + Cardinality(stored)} \union JunkSizes
    BY <1>4 DEF AnswerSizes
  <2> QED BY <1>1, <1>3, <2>2, <2>3
<1>5. CASE p.op = "download"
  <2>1. size \in {f.size : f \in stored} \union JunkSizes
    BY <1>5 DEF AnswerSizes
  <2>2. \A f \in stored : f.size \in FrameSizes
    BY SizeFacts DEF KeptInv
  <2> QED BY <1>1, <1>3, <2>1, <2>2
<1>6. CASE p.op \notin {"list", "download"}
  <2>1. size \in {1} \union JunkSizes
    BY <1>6 DEF AnswerSizes
  <2> QED BY <1>1, <1>3, <2>1
<1> QED BY <1>4, <1>5, <1>6

\* A request that is handled adds one upload to the store at most.
LEMMA KeptTypes ==
    ASSUME SInv, StoreInv, KeptInv, SizesInv, HasRequest,
           stored' \in StoredAfter(Message(got)), handled' = Append(handled, Message(got))
    PROVE  KeptInv'
<1>1. PICK p : p = Message(got)
  OBVIOUS
<1>2. p \in Payloads /\ p = sent[Now] /\ Now \in 1 .. Len(sent)
  BY <1>1, MessageIsNext
<1>3. p.size \in RequestSizes
  BY <1>2 DEF SizesInv
<1>4. Len(handled') = Len(handled) + 1 /\ Len(handled) \in Nat
  BY <1>1 DEF SInv, HandledInv
<1>5. Cardinality(stored) \in Nat /\ IsFiniteSet(stored)
  BY FS_CardinalityType DEF StoreInv
<1>6. Cardinality(stored \union {p}) <= Cardinality(stored) + 1
  <2>1. Cardinality(stored \union {p}) \in {Cardinality(stored), Cardinality(stored) + 1}
    BY <1>5, FS_AddElement
  <2> QED BY <1>5, <2>1
<1>7. stored' \in StoredAfter(p)
  BY <1>1
<1>8. CASE p.op = "upload"
  <2>1. stored' = stored \union {p}
    BY <1>7, <1>8 DEF StoredAfter
  <2>2. Cardinality(stored') <= Len(handled')
    BY <1>4, <1>5, <1>6, <2>1, FS_CardinalityType, FS_AddElement DEF KeptInv
  <2> QED BY <1>3, <1>8, <2>1, <2>2 DEF KeptInv
<1>9. CASE p.op # "upload"
  <2>1. stored' = stored \/ \E f \in stored : stored' = stored \ {f}
    <3>1. CASE p.op = "delete"
      <4>1. stored' \in {stored \ {f} : f \in stored} \union {stored}
        BY <1>7, <3>1 DEF StoredAfter
      <4> QED BY <4>1
    <3>2. CASE p.op # "delete"
      <4>1. stored' \in {stored}
        BY <1>7, <1>9, <3>2 DEF StoredAfter
      <4> QED BY <4>1
    <3> QED BY <3>1, <3>2
  <2>2. stored' \subseteq stored
    BY <2>1
  <2>3. Cardinality(stored') <= Cardinality(stored)
    BY <1>5, <2>2, FS_Subset
  <2>4. Cardinality(stored') \in Nat
    BY <1>5, <2>2, FS_Subset, FS_CardinalityType
  <2> QED BY <1>4, <1>5, <2>2, <2>3, <2>4 DEF KeptInv
<1> QED BY <1>8, <1>9

LEMMA HandleTypes ==
    ASSUME SInv, StoreInv, TInv, Handle
    PROVE  KeptInv' /\ DownInv' /\ UpTypes' /\ UNCHANGED sent
<1>1. PICK p : p = Message(got)
  OBVIOUS
<1>2. HasRequest /\ p \in Payloads /\ p = sent[Now] /\ p # Garbled
  BY <1>1, MessageIsNext DEF Handle
<1>3. /\ stored' \in StoredAfter(p) /\ handled' = Append(handled, p)
      /\ got' = Fresh /\ UNCHANGED <<at, in, sent>>
      /\ \E answer \in Solve(p) : down' = IF answer = <<>> \/ at = "exited" THEN down
                                           ELSE down \o Units(answer[1])
  BY <1>1, <1>2 DEF Handle, client
<1>4. KeptInv'
  BY <1>1, <1>2, <1>3, KeptTypes DEF TInv
<1>5. UpTypes'
  BY <1>3, FreshOK DEF UpTypes
<1>6. PICK answer \in Solve(p) :
         down' = IF answer = <<>> \/ at = "exited" THEN down ELSE down \o Units(answer[1])
  BY <1>3
<1>7. Len(handled) \in Nat /\ Len(handled) <= MaxRequests
  BY OffsetFacts, SizeFacts DEF SInv, HandledInv, TInv, SizesInv
<1>8. down \in Seq(FrameUnit) /\ KeptInv
  BY DEF TInv, DownInv
<1>9. ASSUME answer # <<>> PROVE Units(answer[1]) \in Seq(FrameUnit)
  <2>1. PICK a : a = answer[1]
    OBVIOUS
  <2>2. a \in Replies
    BY <1>2, <1>6, <1>9, <2>1, SolveFacts
  <2>3. a.size \in FrameSizes
    BY <1>2, <1>6, <1>7, <1>8, <1>9, <2>1, SolveSizes
  <2>4. /\ Units(a) \in Seq(ReplyUnit) /\ Len(Units(a)) \in Nat
        /\ \A i \in 1 .. Len(Units(a)) : Units(a)[i] = [of |-> a, at |-> i]
    BY <2>2, ReplyUnits
  <2>5. ASSUME NEW i \in 1 .. Len(Units(a)) PROVE Units(a)[i] \in FrameUnit
    <3> DEFINE t == Units(a)
    <3> HIDE DEF t
    <3>1. t \in Seq(ReplyUnit) /\ i \in 1 .. Len(t) /\ t[i] = [of |-> a, at |-> i]
      BY <2>4, <2>5 DEF t
    <3>2. t[i] \in ReplyUnit /\ t[i].of = a
      BY <3>1
    <3>3. t[i] \in FrameUnit
      BY <2>3, <3>2 DEF FrameUnit
    <3> QED BY <3>3 DEF t
  <2>6. Units(a) = [i \in 1 .. Len(Units(a)) |-> Units(a)[i]]
    BY <2>4
  <2>7. Units(a) \in Seq(FrameUnit)
    <3> DEFINE t == Units(a)
    <3> HIDE DEF t
    <3> QED BY <2>4, <2>5, <2>6 DEF t
  <2> QED BY <2>1, <2>7
<1>10. down' \in Seq(FrameUnit)
  BY <1>6, <1>8, <1>9, ConcatProperties
<1> QED BY <1>3, <1>4, <1>5, <1>10 DEF TInv, DownInv

LEMMA HandlerThrowsTypes ==
    ASSUME SInv, StoreInv, TInv, HandlerThrows
    PROVE  KeptInv' /\ DownInv' /\ UpTypes' /\ UNCHANGED sent
<1>1. /\ HasRequest /\ CloseConnection /\ stored' = stored
      /\ handled' = Append(handled, Message(got))
  BY DEF HandlerThrows
<1>2. Len(handled') = Len(handled) + 1 /\ Len(handled) \in Nat
  BY <1>1, MessageIsNext DEF SInv, HandledInv
<1>3. Cardinality(stored) \in Nat
  BY FS_CardinalityType DEF StoreInv
<1>4. KeptInv'
  BY <1>1, <1>2, <1>3 DEF TInv, KeptInv
<1> QED BY <1>1, <1>4, CloseTypes DEF TInv

LEMMA TStep == SInv /\ AInv /\ TInv /\ [HNext]_hvars => TInv'
<1> SUFFICES ASSUME SInv, AInv, TInv, [HNext]_hvars PROVE TInv'
  OBVIOUS
<1>1. CASE UNCHANGED hvars
  BY <1>1 DEF hvars, link, TInv, ConnInv, SizesInv, KeptInv, DownInv, UpTypes, ReaderOK,
              TooLong
<1>2. CASE HNext
  <2>1. Next
    BY <1>2 DEF HNext
  <2>2. ConnInv'
    BY <2>1, ConnTypes DEF TInv
  <2>3. UNCHANGED sent => SizesInv'
    BY DEF TInv, SizesInv
  <2>4. UNCHANGED <<stored, handled>> => KeptInv'
    BY DEF TInv, KeptInv
  <2>5. UNCHANGED got => UpTypes'
    BY DEF TInv, UpTypes
  <2>6. CASE TryConnect \/ Handshake \/ Acceptor \/ Ask \/ Quit
             \/ RecvThrows \/ Take \/ TakeThrows
    <3>1. /\ SizesInv' /\ UNCHANGED <<stored, handled, got>>
          /\ in' \in {in, Fresh} /\ down' \in {down, <<>>}
      BY <2>6, ClientTypes
    <3>2. <<>> \in Seq(FrameUnit)
      OBVIOUS
    <3>3. DownInv'
      BY <3>1, <3>2, FreshOK DEF TInv, DownInv
    <3> QED BY <2>2, <2>4, <2>5, <3>1, <3>3 DEF TInv
  <2>7. CASE Recv
    <3>1. UNCHANGED <<stored, handled, got, sent>>
      BY <2>7 DEF Recv, server
    <3> QED BY <2>2, <2>3, <2>4, <2>5, <2>7, <3>1, RecvTypes DEF TInv
  <2>8. CASE ServerReads
    <3>1. UNCHANGED <<in, down, stored, handled, sent>>
      BY <2>8 DEF ServerReads, client
    <3>2. DownInv'
      BY <3>1 DEF TInv, DownInv
    <3> QED BY <2>2, <2>3, <2>4, <2>8, <3>1, <3>2, ReadsTypes DEF TInv
  <2>9. CASE EndLoop \/ Cut
    <3>1. CloseConnection /\ UNCHANGED <<stored, handled>>
      BY <2>9 DEF EndLoop, Cut
    <3> QED BY <2>2, <2>3, <2>4, <3>1, CloseTypes DEF TInv
  <2>10. CASE Handle \/ HandlerThrows
    <3>1. KeptInv' /\ DownInv' /\ UpTypes' /\ UNCHANGED sent
      BY <2>10, HandleTypes, HandlerThrowsTypes DEF AInv
    <3> QED BY <2>2, <2>3, <3>1 DEF TInv
  <2> QED BY <2>1, <2>6, <2>7, <2>8, <2>9, <2>10 DEF Next, ClientStep, ServerStep
<1> QED BY <1>1, <1>2

(***************************************************************************)
(* Types, for any limit and any sizes of uploads: a reader never holds     *)
(* more than it asked for and nothing of a body that it refuses, whatever  *)
(* it takes for a length when it is out of step (comms.cpp:114-149 on the  *)
(* server, comms.cpp:118-151 on the client); attempts to connect are       *)
(* counted up to the last (comms.cpp:29, 47-53, 69-76 of the client); what *)
(* the store holds are uploads that the server accepted.                   *)
(***************************************************************************)
THEOREM SessionTypeCorrect == HSpec => []TypeOK
<1>1. SInv /\ AInv /\ TInv => TypeOK
  <2> SUFFICES ASSUME SInv, AInv, TInv PROVE TypeOK
    OBVIOUS
  <2>1. ReaderOK(got, ServerLimit)
    <3>1. got.len \in {Unread} \union RequestSizes
      <4>1. got.len = Unread \/ (got.len = sent[Now].size /\ got # Fresh)
        BY DEF SInv, GotInv, Fresh
      <4>2. got # Fresh => Now \in 1 .. Len(sent)
        BY OffsetFacts DEF SInv, GotInv
      <4> QED BY <4>1, <4>2 DEF TInv, SizesInv
    <3>2. got.len \in Unread .. Limit+1 \union UploadSizes \union JunkSizes \union 1 .. MaxRequests+1
      <4>1. Unread \in Unread .. Limit+1 /\ 1 \in 1 .. MaxRequests+1
        BY SizeFacts DEF Unread
      <4> QED BY <3>1, <4>1 DEF RequestSizes
    <3>3. Len(got.buf) <= IF got.len = Unread THEN Header-1
                          ELSE IF TooLong(got, ServerLimit) THEN 0 ELSE got.len
      BY SizeFacts DEF SInv, GotInv, TInv, UpTypes
    <3> QED BY <3>2, <3>3 DEF ReaderOK
  <2>2. \A f \in stored : f.op = "upload" /\ f.size <= ServerLimit
    BY SizeFacts DEF AInv, StoreInv, TInv, KeptInv
  <2>3. at \in Early \union Menus \union Answers \union {"exited"}
        /\ serving \in BOOLEAN
    BY DEF SInv, PhaseInv
  <2> QED BY <2>1, <2>2, <2>3 DEF TypeOK, TInv, ConnInv, DownInv, SizesInv
<1> QED BY SInit, SStep, AInit, AStep, TInit, TStep, <1>1, PTL DEF HSpec
=============================================================================
