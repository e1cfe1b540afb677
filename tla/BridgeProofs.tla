----------------------------- MODULE BridgeProofs -----------------------------
(***************************************************************************)
(* Proofs about Bridge, for any number of threads and any calls. The       *)
(* invariant says of every part of every function which objects its thread *)
(* owns when it begins: exactly Owned.                                     *)
(***************************************************************************)
EXTENDS Bridge, FiniteSetTheorems, TLAPS

\* What a thread owns at the beginning of part k of f.
Owned(f, k) ==
    CASE k = 1 -> {}
      [] f = "client_commit" /\ k = 2 -> {"aux", "module", "func"}
      [] f = "client_commit" /\ k = 3 -> {"scalar", "module", "func"}
      [] f = "client_commit" /\ k = 4 -> {"result"}
      [] f = "client_commit" /\ k = 5 -> {"result", "R"}
      [] f = "client_pub_from_pass" /\ k = 3 -> {"result", "pub"}
      [] f = "client_pub_from_pass" /\ k \in 4 .. 5 -> PubAndSalt
      [] OTHER -> {"result"}

PathsAdded == process \notin {"new", "initialized", "saved"}

Held(t) ==
    (IF at[t] = "out" THEN {} ELSE Owned(fn[t], part[t]))
       \union (IF t = Main /\ PathsAdded THEN PathNames ELSE {})

TypeInv ==
    /\ process \in {"new", "initialized", "saved", "up", "exiting", "finalized", "dead"}
    /\ gil \in Thread \union {NoThread}
    /\ at \in [Thread -> {"out", "waiting", "in"}]
    /\ fn \in [Thread -> Functions \union {NoFunction}]
    /\ part \in [Thread -> Nat]
    /\ refs \in [Thread -> [Objects -> Int]]
    /\ \A t \in Thread : IF at[t] = "out" THEN fn[t] = NoFunction /\ part[t] = 0
                         ELSE fn[t] \in Functions /\ part[t] \in 1 .. Len(Parts(fn[t]))

GilInv ==
    /\ process = "new" => gil = NoThread
    /\ process = "initialized" => gil = Main
    /\ process = "saved" => gil = NoThread
    /\ ~PathsAdded => \A t \in Thread : at[t] = "out"
    /\ \A t \in Thread : at[t] = "in" => gil = t
    /\ PathsAdded => \A t \in Thread : gil = t => at[t] = "in"

RefsInv == \A t \in Thread : \A o \in Objects : refs[t][o] = IF o \in Held(t) THEN 1 ELSE 0

BInv == TypeInv /\ GilInv /\ RefsInv

-----------------------------------------------------------------------------
(* The table *)

\* Part p keeps its promises to a thread that owns O: it uses what is owned,
\* makes what is not, and leaves next, or nothing if it fails.
Sound(O, p, next, last) ==
    /\ p.uses \subseteq O
    /\ O \cap (p.new \union p.res) = {}
    /\ p.drop \union last \subseteq O \union p.new \union p.res
    /\ (O \union p.new \union p.res) \ (p.drop \union last) = next
    /\ p.drop \union p.undo \subseteq O \union p.new
    /\ (O \union p.new) \ (p.drop \union p.undo) = {}
    /\ O \union p.new \union p.res \subseteq Objects \ PathNames

PartSound(f, k) ==
    IF k < Len(Parts(f))
    THEN Sound(Owned(f, k), Parts(f)[k], Owned(f, k+1), {})
    ELSE Sound(Owned(f, k), Parts(f)[k], {}, Last(f))

\* The arguments of a call are ordinary objects, none of them the result.
LEMMA ArgumentsApart ==
    ASSUME NEW n \in 1 .. 4
    PROVE  /\ Arguments(n) \subseteq Objects \ PathNames
           /\ Arguments(n) \cap PubAndSalt = {}
<1>1. Arguments(n) \subseteq {"module", "func", "args", "arg1", "arg2", "arg3", "arg4"}
  BY DEF Arguments
<1>2. {"module", "func", "args", "arg1", "arg2", "arg3", "arg4"} \subseteq Arguments(4)
  BY DEF Arguments
<1>3. {"module", "func", "args", "arg1", "arg2", "arg3", "arg4"} \cap (PathNames \union PubAndSalt) = {}
  BY DEF PathNames, PubAndSalt
<1> QED BY <1>1, <1>2, <1>3 DEF Objects

LEMMA ConvertSound ==
    ASSUME NEW f \in Functions, NEW made,
           made \subseteq Objects \ PathNames, "result" \notin made,
           f \notin {"client_commit", "client_pub_from_pass"},
           Parts(f) = CallAndConvert(made)
    PROVE  /\ Len(Parts(f)) = 2
           /\ \A k \in 1 .. 2 : PartSound(f, k)
<1> DEFINE c == CallPart(made, {})
           l == Look({"result"}, {"result"})
<1>1. Parts(f) = <<c, l>> /\ Len(Parts(f)) = 2
  BY DEF CallAndConvert
<1>2. Parts(f)[1] = c /\ Parts(f)[2] = l
  BY <1>1
<1>3. Owned(f, 1) = {} /\ Owned(f, 2) = {"result"} /\ Last(f) = {"result"}
  BY DEF Owned, Last
<1>4. "result" \in Objects \ PathNames
  BY DEF Objects, PubAndSalt, PathNames
<1>5. Sound({}, c, {"result"}, {})
  BY <1>4 DEF Sound, CallPart, Part
<1>6. Sound({"result"}, l, {}, {"result"})
  BY <1>4 DEF Sound, Look, Part
<1>7. PartSound(f, 1) /\ PartSound(f, 2)
  BY <1>1, <1>2, <1>3, <1>5, <1>6 DEF PartSound
<1> QED BY <1>1, <1>7

LEMMA OnlySound ==
    ASSUME NEW f \in Functions, NEW made,
           made \subseteq Objects \ PathNames, "result" \notin made,
           f \notin {"client_commit", "client_pub_from_pass"},
           Parts(f) = CallOnly(made)
    PROVE  /\ Len(Parts(f)) = 1
           /\ PartSound(f, 1)
<1> DEFINE c == CallPart(made, {})
<1>1. Parts(f) = <<c>> /\ Len(Parts(f)) = 1
  BY DEF CallOnly
<1>2. Parts(f)[1] = c
  BY <1>1
<1>3. Owned(f, 1) = {} /\ Last(f) = {"result"}
  BY DEF Owned, Last
<1>4. "result" \in Objects \ PathNames
  BY DEF Objects, PubAndSalt, PathNames
<1>5. Sound({}, c, {}, {"result"})
  BY <1>4 DEF Sound, CallPart, Part
<1> QED BY <1>1, <1>2, <1>3, <1>5 DEF PartSound

LEMMA PubSound ==
    /\ Len(Parts("client_pub_from_pass")) = 5
    /\ \A k \in 1 .. 5 : PartSound("client_pub_from_pass", k)
<1> DEFINE f == "client_pub_from_pass"
           made == Arguments(2)
           c == CallPart(made, {})
           pub == Part({"result"}, {}, {"pub"}, {}, {"result"})
           salt == Part({"result"}, {}, {"salt"}, {}, {"result", "pub"})
<1>1. Parts(f) = <<c, pub, salt, Look({"pub"}, PubAndSalt), Look({"salt"}, PubAndSalt)>>
  BY DEF Parts, PubFromPass
<1>2. /\ Len(Parts(f)) = 5
      /\ Parts(f)[1] = c /\ Parts(f)[2] = pub /\ Parts(f)[3] = salt
      /\ Parts(f)[4] = Look({"pub"}, PubAndSalt) /\ Parts(f)[5] = Look({"salt"}, PubAndSalt)
  BY <1>1
<1>3. /\ Owned(f, 1) = {} /\ Owned(f, 2) = {"result"} /\ Owned(f, 3) = {"result", "pub"}
      /\ Owned(f, 4) = PubAndSalt /\ Owned(f, 5) = PubAndSalt /\ Last(f) = PubAndSalt
  BY DEF Owned, Last
<1>4. /\ made \subseteq Objects \ PathNames /\ "result" \notin made
      /\ PubAndSalt \subseteq Objects \ PathNames
  BY ArgumentsApart DEF Objects, PubAndSalt, PathNames
<1>5. Sound({}, c, {"result"}, {})
  BY <1>4 DEF Sound, CallPart, Part, PubAndSalt
<1>6. Sound({"result"}, pub, {"result", "pub"}, {})
  BY <1>4 DEF Sound, Part, PubAndSalt
<1>7. Sound({"result", "pub"}, salt, PubAndSalt, {})
  BY <1>4 DEF Sound, Part, PubAndSalt
<1>8. Sound(PubAndSalt, Look({"pub"}, PubAndSalt), PubAndSalt, {})
  BY <1>4 DEF Sound, Look, Part, PubAndSalt
<1>9. Sound(PubAndSalt, Look({"salt"}, PubAndSalt), {}, PubAndSalt)
  BY <1>4 DEF Sound, Look, Part, PubAndSalt
<1> HIDE DEF f, made, c, pub, salt
<1>10. PartSound(f, 1)
  BY <1>2, <1>3, <1>5 DEF PartSound
<1>11. PartSound(f, 2)
  BY <1>2, <1>3, <1>6 DEF PartSound
<1>12. PartSound(f, 3)
  BY <1>2, <1>3, <1>7 DEF PartSound
<1>13. PartSound(f, 4)
  BY <1>2, <1>3, <1>8 DEF PartSound
<1>14. PartSound(f, 5)
  BY <1>2, <1>3, <1>9 DEF PartSound
<1>15. \A k \in 1 .. 5 : PartSound(f, k)
  BY <1>10, <1>11, <1>12, <1>13, <1>14
<1> QED BY <1>2, <1>15 DEF f

LEMMA CommitSound ==
    /\ Len(Parts("client_commit")) = 5
    /\ \A k \in 1 .. 5 : PartSound("client_commit", k)
<1> DEFINE f == "client_commit"
           kept == {"module", "func"}
           aux == {"auxfunc", "arg1", "arg2", "auxargs"}
           p1 == Part({}, {"module", "func", "auxfunc", "arg1", "arg2", "auxargs"},
                      {"aux"}, aux, kept)
           p2 == Part({"aux"}, {}, {"scalar"}, {"aux"}, kept)
           p3 == Part({"scalar", "func"}, {"args"}, {"result"},
                      {"scalar", "args", "module", "func"}, {})
           p4 == Part({"result"}, {"R"}, {}, {}, {"result", "R"})
           p5 == Part({"result"}, {"r"}, {}, {}, {"result", "R", "r"})
           ordinary == {"module", "func", "args", "arg1", "arg2", "auxfunc", "auxargs",
                        "aux", "scalar", "result", "R", "r"}
<1>1. Parts(f) = <<p1, p2, p3, p4, p5>>
  BY DEF Parts, Commit
<1>2. /\ Len(Parts(f)) = 5
      /\ Parts(f)[1] = p1 /\ Parts(f)[2] = p2 /\ Parts(f)[3] = p3
      /\ Parts(f)[4] = p4 /\ Parts(f)[5] = p5
  BY <1>1
<1>3. /\ Owned(f, 1) = {} /\ Owned(f, 2) = {"aux", "module", "func"}
      /\ Owned(f, 3) = {"scalar", "module", "func"} /\ Owned(f, 4) = {"result"}
      /\ Owned(f, 5) = {"result", "R"} /\ Last(f) = {"result", "R", "r"}
  BY DEF Owned, Last
<1>4. ordinary \subseteq Objects \ PathNames
  <2>1. {"module", "func", "args", "arg1", "arg2"} \subseteq Arguments(4)
    BY DEF Arguments
  <2>2. ordinary \subseteq Objects
    BY <2>1 DEF Objects, PubAndSalt
  <2>3. ordinary \cap PathNames = {}
    BY DEF PathNames
  <2> QED BY <2>2, <2>3
<1>5. Sound({}, p1, {"aux", "module", "func"}, {})
  BY <1>4 DEF Sound, Part
<1>6. Sound({"aux", "module", "func"}, p2, {"scalar", "module", "func"}, {})
  BY <1>4 DEF Sound, Part
<1>7. Sound({"scalar", "module", "func"}, p3, {"result"}, {})
  BY <1>4 DEF Sound, Part
<1>8. Sound({"result"}, p4, {"result", "R"}, {})
  BY <1>4 DEF Sound, Part
<1>9. Sound({"result", "R"}, p5, {}, {"result", "R", "r"})
  BY <1>4 DEF Sound, Part
<1> HIDE DEF f, kept, aux, p1, p2, p3, p4, p5, ordinary
<1>10. PartSound(f, 1)
  BY <1>2, <1>3, <1>5 DEF PartSound
<1>11. PartSound(f, 2)
  BY <1>2, <1>3, <1>6 DEF PartSound
<1>12. PartSound(f, 3)
  BY <1>2, <1>3, <1>7 DEF PartSound
<1>13. PartSound(f, 4)
  BY <1>2, <1>3, <1>8 DEF PartSound
<1>14. PartSound(f, 5)
  BY <1>2, <1>3, <1>9 DEF PartSound
<1>15. \A k \in 1 .. 5 : PartSound(f, k)
  BY <1>10, <1>11, <1>12, <1>13, <1>14
<1> QED BY <1>2, <1>15 DEF f

\* Every part of every function of wrap.cpp.
LEMMA TableSound ==
    ASSUME NEW f \in Functions
    PROVE  /\ Len(Parts(f)) \in 1 .. 5
           /\ \A k \in 1 .. Len(Parts(f)) : PartSound(f, k)
<1>1. CASE f = "client_commit"
  <2>1. Len(Parts(f)) = 5 /\ \A k \in 1 .. 5 : PartSound(f, k)
    BY <1>1, CommitSound
  <2> QED BY <2>1
<1>2. CASE f = "client_pub_from_pass"
  <2>1. Len(Parts(f)) = 5 /\ \A k \in 1 .. 5 : PartSound(f, k)
    BY <1>2, PubSound
  <2> QED BY <2>1
<1>3. ASSUME NEW n \in 1 .. 4
      PROVE  Arguments(n) \subseteq Objects \ PathNames /\ "result" \notin Arguments(n)
  BY ArgumentsApart DEF PubAndSalt
<1>4. /\ {"module", "func"} \subseteq Objects \ PathNames
      /\ "result" \notin {"module", "func"}
  <2>1. {"module", "func"} \subseteq Arguments(4)
    BY DEF Arguments
  <2> QED BY <2>1, <1>3
<1>5. CASE f \in {"encrypt", "decrypt"}
  <2>1. Parts(f) = CallAndConvert(Arguments(3))
    BY <1>5 DEF Parts
  <2>2. Len(Parts(f)) = 2 /\ \A k \in 1 .. 2 : PartSound(f, k)
    BY <1>5, <2>1, <1>3, ConvertSound
  <2> QED BY <2>2
<1>6. CASE f = "sha256"
  <2>1. Parts(f) = CallAndConvert(Arguments(1))
    BY <1>6 DEF Parts
  <2>2. Len(Parts(f)) = 2 /\ \A k \in 1 .. 2 : PartSound(f, k)
    BY <1>6, <2>1, <1>3, ConvertSound
  <2> QED BY <2>2
<1>7. CASE f \in {"zip_files", "unzip"}
  <2>1. Parts(f) = CallOnly(Arguments(2))
    BY <1>7 DEF Parts
  <2>2. Len(Parts(f)) = 1 /\ PartSound(f, 1)
    BY <1>7, <2>1, <1>3, OnlySound
  <2> QED BY <2>2
<1>8. CASE f = "client_compute_response"
  <2>1. Parts(f) = CallAndConvert(Arguments(4))
    BY <1>8 DEF Parts
  <2>2. Len(Parts(f)) = 2 /\ \A k \in 1 .. 2 : PartSound(f, k)
    BY <1>8, <2>1, <1>3, ConvertSound
  <2> QED BY <2>2
<1>9. CASE f = "server_gen_challenge"
  <2>1. Parts(f) = CallAndConvert({"module", "func"})
    BY <1>9 DEF Parts
  <2>2. Len(Parts(f)) = 2 /\ \A k \in 1 .. 2 : PartSound(f, k)
    BY <1>9, <2>1, <1>4, ConvertSound
  <2> QED BY <2>2
<1>10. CASE f = "server_verify"
  <2>1. Parts(f) = CallOnly(Arguments(4))
    BY <1>10 DEF Parts
  <2>2. Len(Parts(f)) = 1 /\ PartSound(f, 1)
    BY <1>10, <2>1, <1>3, OnlySound
  <2> QED BY <2>2
<1> QED BY <1>1, <1>2, <1>5, <1>6, <1>7, <1>8, <1>9, <1>10 DEF Functions

-----------------------------------------------------------------------------
(* The invariant *)

\* Counting references is taking unions and differences.
LEMMA ChangeIsSetwise ==
    ASSUME NEW t \in Thread, NEW own, NEW made, NEW dropped,
           refs \in [Thread -> [Objects -> Int]],
           \A o \in Objects : refs[t][o] = IF o \in own THEN 1 ELSE 0,
           own \cap made = {}, dropped \subseteq own \union made,
           Change(t, made, dropped)
    PROVE  /\ refs' \in [Thread -> [Objects -> Int]]
           /\ \A o \in Objects :
                 refs'[t][o] = IF o \in (own \union made) \ dropped THEN 1 ELSE 0
           /\ \A u \in Thread \ {t} : refs'[u] = refs[u]
<1>1. ASSUME NEW o, NEW S PROVE Cardinality({o} \cap S) = IF o \in S THEN 1 ELSE 0
  <2>1. CASE o \in S
    <3>1. {o} \cap S = {o}
      BY <2>1
    <3> QED BY <3>1, <2>1, FS_Singleton
  <2>2. CASE o \notin S
    <3>1. {o} \cap S = {}
      BY <2>2
    <3> QED BY <3>1, <2>2, FS_EmptySet
  <2> QED BY <2>1, <2>2
<1> DEFINE row == [o \in Objects |->
               refs[t][o] + Cardinality({o} \cap made) - Cardinality({o} \cap dropped)]
<1>2. refs' = [refs EXCEPT ![t] = row]
  BY DEF Change
<1>3. ASSUME NEW o \in Objects
      PROVE  row[o] = IF o \in (own \union made) \ dropped THEN 1 ELSE 0
  <2>1. row[o] = (IF o \in own THEN 1 ELSE 0) + (IF o \in made THEN 1 ELSE 0)
                    - (IF o \in dropped THEN 1 ELSE 0)
    BY <1>1
  <2> QED BY <2>1
<1>4. row \in [Objects -> Int]
  BY <1>3
<1> HIDE DEF row
<1> QED BY <1>2, <1>3, <1>4

LEMMA InitInv == BInit => BInv
BY BridgeAssumption
   DEF BInit, BInv, TypeInv, GilInv, RefsInv, Held, PathsAdded, NoReferences

\* A thread that is in the bridge owns what the table says, and that only.
LEMMA OwnedNow ==
    ASSUME BInv, NEW t \in Thread, at[t] # "out"
    PROVE  /\ fn[t] \in Functions
           /\ part[t] \in 1 .. Len(Parts(fn[t]))
           /\ Len(Parts(fn[t])) \in Nat
           /\ PartSound(fn[t], part[t])
           /\ PathsAdded
           /\ Held(t) = Owned(fn[t], part[t]) \union (IF t = Main THEN PathNames ELSE {})
<1>1. fn[t] \in Functions /\ part[t] \in 1 .. Len(Parts(fn[t]))
  BY DEF BInv, TypeInv
<1>2. PathsAdded
  BY DEF BInv, GilInv
<1> QED BY <1>1, <1>2, TableSound DEF Held

\* What holds of a part holds beside the two path strings.
LEMMA ChangeKeepsRefs ==
    ASSUME BInv, NEW t \in Thread, at[t] # "out",
           NEW made, NEW dropped, NEW after,
           Owned(fn[t], part[t]) \cap made = {},
           dropped \subseteq Owned(fn[t], part[t]) \union made,
           (Owned(fn[t], part[t]) \union made) \ dropped = after,
           Owned(fn[t], part[t]) \union made \subseteq Objects \ PathNames,
           Change(t, made, dropped),
           process' = process,
           \A u \in Thread \ {t} : at'[u] = at[u] /\ fn'[u] = fn[u] /\ part'[u] = part[u],
           IF at'[t] = "out" THEN after = {} ELSE Owned(fn'[t], part'[t]) = after
    PROVE  RefsInv' /\ refs' \in [Thread -> [Objects -> Int]]
<1> DEFINE own == Owned(fn[t], part[t]) \union (IF t = Main THEN PathNames ELSE {})
<1>1. PathsAdded /\ Held(t) = own
  BY OwnedNow
<1>2. \A o \in Objects : refs[t][o] = IF o \in own THEN 1 ELSE 0
  BY <1>1 DEF BInv, RefsInv
<1>3. own \cap made = {} /\ dropped \subseteq own \union made
  OBVIOUS
<1>4. /\ refs' \in [Thread -> [Objects -> Int]]
      /\ \A o \in Objects :
            refs'[t][o] = IF o \in (own \union made) \ dropped THEN 1 ELSE 0
      /\ \A u \in Thread \ {t} : refs'[u] = refs[u]
  <2> HIDE DEF own
  <2> QED BY <1>2, <1>3, ChangeIsSetwise DEF BInv, TypeInv
<1>5. (own \union made) \ dropped = after \union (IF t = Main THEN PathNames ELSE {})
  OBVIOUS
<1>6. PathsAdded'
  BY <1>1 DEF PathsAdded
<1>7. Held(t)' = after \union (IF t = Main THEN PathNames ELSE {})
  BY <1>6 DEF Held
<1>8. ASSUME NEW u \in Thread \ {t} PROVE Held(u)' = Held(u)
  BY <1>1, <1>6 DEF Held
<1>9. ASSUME NEW u \in Thread, NEW o \in Objects
      PROVE  refs'[u][o] = IF o \in Held(u)' THEN 1 ELSE 0
  <2>1. CASE u = t
    BY <2>1, <1>4, <1>5, <1>7
  <2>2. CASE u # t
    BY <2>2, <1>4, <1>8 DEF BInv, RefsInv
  <2> QED BY <2>1, <2>2
<1> QED BY <1>4, <1>9 DEF RefsInv

LEMMA ConstructStep == BInv /\ Construct => BInv'
<1> SUFFICES ASSUME BInv, Construct PROVE BInv'
  OBVIOUS
<1> USE BridgeAssumption
<1>1. CASE Initialize
  BY <1>1 DEF Initialize, callState, BInv, TypeInv, GilInv, RefsInv, Held, PathsAdded
<1>2. CASE SaveThread
  BY <1>2 DEF SaveThread, callState, BInv, TypeInv, GilInv, RefsInv, Held, PathsAdded
<1>3. CASE AddPaths
  <2>1. /\ process = "saved" /\ process' = "up" /\ ~PathsAdded /\ PathsAdded'
        /\ UNCHANGED <<gil, at, fn, part>>
    BY <1>3 DEF AddPaths, callState, PathsAdded
  <2>2. \A t \in Thread : at[t] = "out"
    BY <2>1 DEF BInv, GilInv
  <2>3. \A t \in Thread : Held(t) = {}
    BY <2>1, <2>2 DEF Held
  <2>4. \A t \in Thread : Held(t)' = IF t = Main THEN PathNames ELSE {}
    BY <2>1, <2>2 DEF Held
  <2> DEFINE row == [o \in Objects |-> refs[Main][o] + IF o \in PathNames THEN 1 ELSE 0]
  <2>5. refs' = [refs EXCEPT ![Main] = row]
    BY <1>3 DEF AddPaths
  <2>6. \A t \in Thread : \A o \in Objects : refs[t][o] = 0
    BY <2>3 DEF BInv, RefsInv
  <2>7. row \in [Objects -> Int] /\ \A o \in Objects : row[o] = IF o \in PathNames THEN 1 ELSE 0
    BY <2>6
  <2> HIDE DEF row
  <2>8. RefsInv' /\ refs' \in [Thread -> [Objects -> Int]]
    BY <2>4, <2>5, <2>6, <2>7 DEF RefsInv, BInv, TypeInv
  <2>9. TypeInv'
    BY <2>1, <2>8 DEF BInv, TypeInv
  <2>10. GilInv'
    BY <2>1, <2>2 DEF BInv, TypeInv, GilInv, PathsAdded
  <2> QED BY <2>8, <2>9, <2>10 DEF BInv
<1> QED BY <1>1, <1>2, <1>3 DEF Construct

LEMMA EnsureStep ==
    ASSUME BInv, NEW t \in Thread, NEW f \in Functions, Ensure(t, f)
    PROVE  BInv'
<1>1. /\ Alive /\ at[t] = "out" /\ UNCHANGED <<process, gil, refs>>
      /\ at' = [at EXCEPT ![t] = "waiting"]
      /\ fn' = [fn EXCEPT ![t] = f]
      /\ part' = [part EXCEPT ![t] = 1]
  BY DEF Ensure
<1>2. 1 \in 1 .. Len(Parts(f))
  BY TableSound
<1>3. TypeInv'
  BY <1>1, <1>2 DEF BInv, TypeInv
<1>4. GilInv'
  BY <1>1 DEF Alive, BInv, TypeInv, GilInv, PathsAdded
<1>5. Owned(f, 1) = {}
  BY DEF Owned
<1>6. \A u \in Thread : Held(u)' = Held(u)
  BY <1>1, <1>5 DEF Held, PathsAdded, BInv, TypeInv
<1>7. RefsInv'
  BY <1>1, <1>6 DEF BInv, RefsInv
<1> QED BY <1>3, <1>4, <1>7 DEF BInv

LEMMA GilStep ==
    ASSUME BInv, NEW t \in Thread, Acquire(t) \/ Switch(t)
    PROVE  BInv'
<1>1. /\ Alive /\ at[t] # "out" /\ UNCHANGED <<process, fn, part, refs>>
      /\ \/ at[t] = "waiting" /\ gil = NoThread /\ gil' = t /\ at' = [at EXCEPT ![t] = "in"]
         \/ at[t] = "in" /\ gil' = NoThread /\ at' = [at EXCEPT ![t] = "waiting"]
  BY DEF Acquire, Switch
<1>2. TypeInv'
  BY <1>1 DEF BInv, TypeInv
<1>3. GilInv'
  BY <1>1, BridgeAssumption DEF Alive, BInv, TypeInv, GilInv, PathsAdded
<1>4. \A u \in Thread : Held(u)' = Held(u)
  BY <1>1 DEF Held, PathsAdded, BInv, TypeInv
<1>5. RefsInv'
  BY <1>1, <1>4 DEF BInv, RefsInv
<1> QED BY <1>2, <1>3, <1>5 DEF BInv

\* A thread that leaves, after a return or an exception.
LEMMA LeaveStep ==
    ASSUME BInv, NEW t \in Thread, Alive, at[t] = "in", Leave(t), UNCHANGED process,
           RefsInv', refs' \in [Thread -> [Objects -> Int]]
    PROVE  BInv'
<1>1. /\ gil' = NoThread
      /\ at' = [at EXCEPT ![t] = "out"]
      /\ fn' = [fn EXCEPT ![t] = NoFunction]
      /\ part' = [part EXCEPT ![t] = 0]
  BY DEF Leave
<1>2. TypeInv'
  BY <1>1 DEF BInv, TypeInv
<1>3. GilInv'
  BY <1>1, BridgeAssumption DEF Alive, BInv, TypeInv, GilInv, PathsAdded
<1> QED BY <1>2, <1>3 DEF BInv

LEMMA SucceedStep ==
    ASSUME BInv, NEW t \in Thread, Succeed(t)
    PROVE  BInv'
<1> DEFINE f == fn[t]
           k == part[t]
           p == Parts(f)[k]
           made == p.new \union p.res
<1>1. Alive /\ at[t] = "in" /\ UNCHANGED process
  BY DEF Succeed
<1>2. /\ f \in Functions /\ k \in 1 .. Len(Parts(f)) /\ Len(Parts(f)) \in Nat
      /\ PartSound(f, k)
  BY <1>1, OwnedNow
<1>3. CASE k < Len(Parts(f))
  <2>1. /\ Change(t, made, p.drop) /\ part' = [part EXCEPT ![t] = k + 1]
        /\ UNCHANGED <<gil, at, fn>>
    BY <1>3 DEF Succeed, Current
  <2>2. Sound(Owned(f, k), p, Owned(f, k+1), {})
    BY <1>2, <1>3 DEF PartSound
  <2>3. /\ Owned(f, k) \cap made = {} /\ p.drop \subseteq Owned(f, k) \union made
        /\ (Owned(f, k) \union made) \ p.drop = Owned(f, k+1)
        /\ Owned(f, k) \union made \subseteq Objects \ PathNames
    BY <2>2 DEF Sound
  <2>4. k \in Nat /\ part'[t] = k + 1 /\ \A u \in Thread \ {t} : part'[u] = part[u]
    BY <2>1 DEF BInv, TypeInv
  <2>5. RefsInv' /\ refs' \in [Thread -> [Objects -> Int]]
    <3> HIDE DEF made, p
    <3> QED BY <1>1, <2>1, <2>3, <2>4, ChangeKeepsRefs
  <2>6. TypeInv'
    <3>1. part' \in [Thread -> Nat]
      BY <2>1, <2>4 DEF BInv, TypeInv
    <3>2. fn'[t] = f /\ part'[t] \in 1 .. Len(Parts(fn'[t]))
      BY <1>2, <1>3, <2>1, <2>4
    <3>3. ASSUME NEW u \in Thread
          PROVE  IF at'[u] = "out" THEN fn'[u] = NoFunction /\ part'[u] = 0
                 ELSE fn'[u] \in Functions /\ part'[u] \in 1 .. Len(Parts(fn'[u]))
      <4>1. CASE u = t
        BY <4>1, <1>1, <1>2, <2>1, <3>2
      <4>2. CASE u # t
        BY <4>2, <2>1, <2>4 DEF BInv, TypeInv
      <4> QED BY <4>1, <4>2
    <3> QED BY <1>1, <2>1, <2>5, <3>1, <3>3 DEF BInv, TypeInv
  <2>7. GilInv'
    BY <1>1, <2>1 DEF BInv, GilInv, PathsAdded
  <2> QED BY <2>5, <2>6, <2>7 DEF BInv
<1>4. CASE ~(k < Len(Parts(f)))
  <2>1. Change(t, made, p.drop \union Last(f)) /\ Leave(t)
    BY <1>4 DEF Succeed, Current
  <2>2. Sound(Owned(f, k), p, {}, Last(f))
    BY <1>2, <1>4 DEF PartSound
  <2>3. /\ Owned(f, k) \cap made = {} /\ p.drop \union Last(f) \subseteq Owned(f, k) \union made
        /\ (Owned(f, k) \union made) \ (p.drop \union Last(f)) = {}
        /\ Owned(f, k) \union made \subseteq Objects \ PathNames
    BY <2>2 DEF Sound
  <2>4. /\ at'[t] = "out"
        /\ \A u \in Thread \ {t} : at'[u] = at[u] /\ fn'[u] = fn[u] /\ part'[u] = part[u]
    BY <2>1 DEF Leave, BInv, TypeInv
  <2>5. RefsInv' /\ refs' \in [Thread -> [Objects -> Int]]
    <3> DEFINE dropped == p.drop \union Last(f)
    <3> HIDE DEF made, p, dropped
    <3>1. Change(t, made, dropped)
      BY <2>1 DEF dropped
    <3>2. /\ dropped \subseteq Owned(f, k) \union made
          /\ (Owned(f, k) \union made) \ dropped = {}
      BY <2>3 DEF dropped
    <3> QED BY <1>1, <2>3, <2>4, <3>1, <3>2, ChangeKeepsRefs
  <2> QED BY <1>1, <2>1, <2>5, LeaveStep
<1> QED BY <1>3, <1>4

LEMMA FailStep ==
    ASSUME BInv, NEW t \in Thread, Fail(t)
    PROVE  BInv'
<1> DEFINE f == fn[t]
           k == part[t]
           p == Parts(f)[k]
           made == p.new
           dropped == p.drop \union p.undo
<1>1. Alive /\ at[t] = "in" /\ UNCHANGED process /\ Change(t, made, dropped) /\ Leave(t)
  BY DEF Fail, Current
<1>2. PartSound(f, k)
  BY <1>1, OwnedNow
<1>3. /\ Owned(f, k) \cap made = {} /\ dropped \subseteq Owned(f, k) \union made
      /\ (Owned(f, k) \union made) \ dropped = {}
      /\ Owned(f, k) \union made \subseteq Objects \ PathNames
  BY <1>2 DEF PartSound, Sound
<1>4. /\ at'[t] = "out"
      /\ \A u \in Thread \ {t} : at'[u] = at[u] /\ fn'[u] = fn[u] /\ part'[u] = part[u]
  BY <1>1 DEF Leave, BInv, TypeInv
<1>5. RefsInv' /\ refs' \in [Thread -> [Objects -> Int]]
  <2> HIDE DEF made, dropped, p
  <2> QED BY <1>1, <1>3, <1>4, ChangeKeepsRefs
<1> QED BY <1>1, <1>5, LeaveStep

\* The interpreter comes to its end, or the process does.
LEMMA EndStep ==
    ASSUME BInv, \/ Exit \/ Destruct
                 \/ \E t \in Thread : MakeFails(t) \/ CallTooLate(t)
    PROVE  BInv'
<1>1. /\ UNCHANGED <<gil, at, fn, part, refs>>
      /\ process' \in {"exiting", "finalized", "dead"}
      /\ process \in {"up", "exiting", "finalized"}
  BY DEF Exit, Destruct, Finalize, End, MakeFails, CallTooLate, Alive, callState
<1>2. \A u \in Thread : Held(u)' = Held(u)
  BY <1>1 DEF Held, PathsAdded
<1> QED BY <1>1, <1>2 DEF BInv, TypeInv, GilInv, RefsInv, PathsAdded

LEMMA StepInv == BInv /\ [BNext]_bridge => BInv'
<1> SUFFICES ASSUME BInv, [BNext]_bridge PROVE BInv'
  OBVIOUS
<1>1. CASE UNCHANGED bridge
  BY <1>1 DEF bridge, BInv, TypeInv, GilInv, RefsInv, Held, PathsAdded
<1>2. ASSUME NEW t \in Thread, GoOn(t) PROVE BInv'
  BY <1>2, SucceedStep, FailStep DEF GoOn
<1> QED BY <1>1, <1>2, ConstructStep, EnsureStep, GilStep, EndStep DEF BNext

LEMMA BInvAlways == BSpec => []BInv
BY InitInv, StepInv, PTL DEF BSpec

-----------------------------------------------------------------------------
(* The theorems *)

(***************************************************************************)
(* Types: a thread in the bridge holds the GIL, and no object is given     *)
(* back twice.                                                             *)
(***************************************************************************)
THEOREM BridgeTypeCorrect == BSpec => []BTypeOK
<1>1. BInv => BTypeOK
  <2> SUFFICES ASSUME BInv PROVE BTypeOK
    OBVIOUS
  <2>1. refs \in [Thread -> [Objects -> 0 .. 1]]
    BY DEF BInv, TypeInv, RefsInv
  <2>2. NoFunction \notin Functions
    BY DEF NoFunction, Functions
  <2> QED BY <2>1, <2>2 DEF BInv, TypeInv, GilInv, BTypeOK
<1> QED BY <1>1, BInvAlways, PTL

(***************************************************************************)
(* Whatever fails in a call, a thread that is out of the bridge has given  *)
(* back the GIL and every object of the call (wrap.cpp:24-486).            *)
(***************************************************************************)
THEOREM GivenBack == BSpec => []Balanced
<1>1. BInv => Balanced
  <2> SUFFICES ASSUME BInv, NEW t \in Thread, at[t] = "out"
               PROVE  /\ process = "initialized" \/ gil # t
                      /\ \A o \in Objects \ PathNames : refs[t][o] = 0
    BY DEF Balanced
  <2>1. process = "initialized" \/ gil # t
    BY BridgeAssumption DEF BInv, TypeInv, GilInv, PathsAdded
  <2>2. Held(t) \subseteq PathNames
    BY DEF Held
  <2> QED BY <2>1, <2>2 DEF BInv, RefsInv
<1> QED BY <1>1, BInvAlways, PTL

(***************************************************************************)
(* What a part of a function uses its thread owns (wrap.cpp:233-277,       *)
(* 296-362).                                                               *)
(***************************************************************************)
THEOREM NothingUsedLate == BSpec => []UsedIsOwned
<1>1. BInv => UsedIsOwned
  <2> SUFFICES ASSUME BInv, NEW t \in Thread, at[t] # "out", NEW o \in Current(t).uses
               PROVE  refs[t][o] > 0
    BY DEF UsedIsOwned
  <2>1. o \in Owned(fn[t], part[t]) /\ Owned(fn[t], part[t]) \subseteq Objects
    BY OwnedNow DEF PartSound, Sound, Current
  <2>2. o \in Held(t)
    BY <2>1, OwnedNow
  <2> QED BY <2>1, <2>2 DEF BInv, RefsInv
<1> QED BY <1>1, BInvAlways, PTL
=============================================================================
