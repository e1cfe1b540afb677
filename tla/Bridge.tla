-------------------------------- MODULE Bridge --------------------------------
(***************************************************************************)
(* The bridge into Python: class PythonWrapper                             *)
(* (src/PythonWrapper/wrap.cpp, wrap.hxx). Its constructor starts the      *)
(* interpreter and lets go of the GIL; every function takes the GIL, calls *)
(* into Python, gives back what it owns and the GIL, and returns or        *)
(* throws; the destructor takes the GIL a last time and ends the           *)
(* interpreter, while detached handlers of the server may be anywhere.     *)
(*                                                                         *)
(* What the functions compute is left to the other modules. Of an object   *)
(* only the references count that the C++ code owns. The interpreter is    *)
(* external: a thread that calls into Python may lose the GIL and must get *)
(* it again, and a call after the end of the interpreter is fatal.         *)
(***************************************************************************)
EXTENDS Integers, Sequences, FiniteSets

CONSTANTS
    Thread,      \* the threads of the process
    Main,        \* the one that runs main and the destructors
    NoThread,    \* nobody holds the GIL
    Calls        \* Calls[t]: the functions that thread t calls

-----------------------------------------------------------------------------
(* What each function does with its objects *)

(***************************************************************************)
(* A part of a function: it needs the objects uses, makes the objects new, *)
(* asks Python for something that may fail, owns its result res if that    *)
(* has one, and drops some objects in either case; if it failed it drops   *)
(* the objects undo too, releases the GIL and throws.                      *)
(***************************************************************************)
Part(uses, new, res, drop, undo) ==
    [uses |-> uses, new |-> new, res |-> res, drop |-> drop, undo |-> undo]

\* Arguments made, function called, arguments dropped.
CallPart(made, undo) == Part({}, made, {"result"}, made, undo)

\* A look at objects that makes none.
Look(uses, undo) == Part(uses, {}, {}, {}, undo)

\* The result of the call is converted, and may be of another type.
CallAndConvert(made) == <<CallPart(made, {}), Look({"result"}, {"result"})>>

CallOnly(made) == <<CallPart(made, {})>>

\* encrypt, decrypt and sha256 differ in their arguments only.
Arguments(n) == {"module", "func", "args"} \union
                   {CASE i = 1 -> "arg1" [] i = 2 -> "arg2"
                      [] i = 3 -> "arg3" [] i = 4 -> "arg4" : i \in 1 .. n}

PubAndSalt == {"result", "pub", "salt"}

\* Mutant: the pair is given back twice when it has no salt.
PubReleasedTwice ==
    <<CallPart(Arguments(2), {}),
      Part({"result"}, {}, {"pub"}, {"result"}, {}),
      Part({}, {}, {"salt"}, {}, {"result", "pub"}),
      Look({"pub"}, {"pub", "salt"}),
      Look({"salt"}, {"pub", "salt"})>>

PubFromPass ==
    <<CallPart(Arguments(2), {}),
      Part({"result"}, {}, {"pub"}, {}, {"result"}),
      Part({"result"}, {}, {"salt"}, {}, {"result", "pub"}),
      Look({"pub"}, PubAndSalt),
      Look({"salt"}, PubAndSalt)>>

\* Mutant: the module and func that the last call needs go with the first.
CommitDroppingEarly ==
    <<Part({}, {"module", "func", "auxfunc", "arg1", "arg2", "auxargs"}, {"aux"},
           {"module", "func", "auxfunc", "arg1", "arg2", "auxargs"}, {}),
      Part({"aux"}, {}, {"scalar"}, {"aux"}, {}),
      Part({"scalar", "func"}, {"args"}, {"result"}, {"scalar", "args"}, {}),
      Part({"result"}, {"R"}, {}, {}, {"result", "R"}),
      Part({"result"}, {"r"}, {}, {}, {"result", "R", "r"})>>

\* Mutant: a failed scalar leaves module and func behind.
CommitWithoutUndo ==
    <<Part({}, {"module", "func", "auxfunc", "arg1", "arg2", "auxargs"}, {"aux"},
           {"auxfunc", "arg1", "arg2", "auxargs"}, {"module", "func"}),
      Part({"aux"}, {}, {"scalar"}, {"aux"}, {}),
      Part({"scalar", "func"}, {"args"}, {"result"},
           {"scalar", "args", "module", "func"}, {}),
      Part({"result"}, {"R"}, {}, {}, {"result", "R"}),
      Part({"result"}, {"r"}, {}, {}, {"result", "R", "r"})>>

\* Two calls: the scalar of the password, and the commitment to it.
Commit ==
    <<Part({}, {"module", "func", "auxfunc", "arg1", "arg2", "auxargs"}, {"aux"},
           {"auxfunc", "arg1", "arg2", "auxargs"}, {"module", "func"}),
      Part({"aux"}, {}, {"scalar"}, {"aux"}, {"module", "func"}),
      Part({"scalar", "func"}, {"args"}, {"result"},
           {"scalar", "args", "module", "func"}, {}),
      Part({"result"}, {"R"}, {}, {}, {"result", "R"}),
      Part({"result"}, {"r"}, {}, {}, {"result", "R", "r"})>>

Functions ==
    {"encrypt", "decrypt", "sha256", "zip_files", "unzip", "client_pub_from_pass",
     "client_commit", "client_compute_response", "server_gen_challenge",
     "server_verify"}

Parts(f) ==
    CASE f \in {"encrypt", "decrypt"}      -> CallAndConvert(Arguments(3))
      [] f = "sha256"                      -> CallAndConvert(Arguments(1))
      [] f \in {"zip_files", "unzip"}      -> CallOnly(Arguments(2))
      [] f = "client_pub_from_pass"        -> PubFromPass
      [] f = "client_commit"               -> Commit
      [] f = "client_compute_response"     -> CallAndConvert(Arguments(4))
      [] f = "server_gen_challenge"        -> CallAndConvert({"module", "func"})
      [] f = "server_verify"               -> CallOnly(Arguments(4))

\* What is dropped before a normal return.
Last(f) ==
    CASE f = "client_pub_from_pass" -> PubAndSalt
      [] f = "client_commit"        -> {"result", "R", "r"}
      [] OTHER                      -> {"result"}

PathNames == {"path1", "path2"}
Objects   == Arguments(4) \union PubAndSalt \union PathNames
                \union {"auxfunc", "auxargs", "aux", "scalar", "R", "r"}

ASSUME BridgeAssumption ==
    /\ Main \in Thread
    /\ NoThread \notin Thread
    /\ Calls \in [Thread -> SUBSET Functions]

VARIABLES
    process,   \* how far the interpreter has come
    gil,       \* who holds the GIL
    at,        \* at[t]: out of the bridge, waiting for the GIL, or in
    fn,        \* fn[t]: the function that t is in, and
    part,      \* part[t]: the part of it
    refs       \* refs[t][o]: the references to o that t owns

bridge == <<process, gil, at, fn, part, refs>>

NoFunction   == "none"
NoReferences == [o \in Objects |-> 0]

BInit ==
    /\ process = "new"
    /\ gil = NoThread
    /\ at = [t \in Thread |-> "out"]
    /\ fn = [t \in Thread |-> NoFunction]
    /\ part = [t \in Thread |-> 0]
    /\ refs = [t \in Thread |-> NoReferences]

-----------------------------------------------------------------------------
(* The constructor: Py_Initialize leaves the GIL with its thread *)

callState == <<at, fn, part>>

Initialize ==
    /\ process = "new"
    /\ process' = "initialized"
    /\ gil' = Main
    /\ UNCHANGED <<callState, refs>>

\* Mutant: no PyEval_SaveThread.
SaveNothing ==
    /\ process = "initialized"
    /\ process' = "saved"
    /\ UNCHANGED <<gil, callState, refs>>

SaveThread ==
    /\ process = "initialized"
    /\ process' = "saved"
    /\ gil' = NoThread
    /\ UNCHANGED <<callState, refs>>

\* PyList_Append takes a reference of its own: these two stay owned.
AddPaths ==
    /\ process = "saved"
    /\ process' = "up"
    /\ refs' = [refs EXCEPT ![Main] =
                   [o \in Objects |-> @[o] + IF o \in PathNames THEN 1 ELSE 0]]
    /\ UNCHANGED <<gil, callState>>

-----------------------------------------------------------------------------
(* A call *)

Alive == process \in {"up", "exiting"}

Current(t) == Parts(fn[t])[part[t]]

Change(t, made, dropped) ==
    refs' = [refs EXCEPT ![t] = [o \in Objects |->
                @[o] + Cardinality({o} \cap made) - Cardinality({o} \cap dropped)]]

\* PyGILState_Ensure, which waits.
Ensure(t, f) ==
    /\ Alive /\ (t = Main => process = "up")
    /\ at[t] = "out" /\ f \in Calls[t]
    /\ at' = [at EXCEPT ![t] = "waiting"]
    /\ fn' = [fn EXCEPT ![t] = f]
    /\ part' = [part EXCEPT ![t] = 1]
    /\ UNCHANGED <<process, gil, refs>>

Acquire(t) ==
    /\ Alive
    /\ at[t] = "waiting" /\ gil = NoThread
    /\ gil' = t
    /\ at' = [at EXCEPT ![t] = "in"]
    /\ UNCHANGED <<process, fn, part, refs>>

\* Python lets another thread run.
Switch(t) ==
    /\ Alive /\ at[t] = "in"
    /\ gil' = NoThread
    /\ at' = [at EXCEPT ![t] = "waiting"]
    /\ UNCHANGED <<process, fn, part, refs>>

Leave(t) ==
    /\ gil' = NoThread
    /\ at' = [at EXCEPT ![t] = "out"]
    /\ fn' = [fn EXCEPT ![t] = NoFunction]
    /\ part' = [part EXCEPT ![t] = 0]

\* Python did what it was asked for; after the last part return.
Succeed(t) ==
    /\ Alive /\ at[t] = "in"
    /\ LET p == Current(t)
       IN  IF part[t] < Len(Parts(fn[t]))
           THEN /\ Change(t, p.new \union p.res, p.drop)
                /\ part' = [part EXCEPT ![t] = @ + 1]
                /\ UNCHANGED <<gil, at, fn>>
           ELSE /\ Change(t, p.new \union p.res, p.drop \union Last(fn[t]))
                /\ Leave(t)
    /\ UNCHANGED process

\* Mutant: the exception leaves with the GIL.
FailHolding(t) ==
    /\ Alive /\ at[t] = "in"
    /\ LET p == Current(t)
       IN  Change(t, p.new, p.drop \union p.undo)
    /\ at' = [at EXCEPT ![t] = "out"]
    /\ fn' = [fn EXCEPT ![t] = NoFunction]
    /\ part' = [part EXCEPT ![t] = 0]
    /\ UNCHANGED <<process, gil>>

\* Python raised or gave something of another type: clean up and throw.
Fail(t) ==
    /\ Alive /\ at[t] = "in"
    /\ LET p == Current(t)
       IN  Change(t, p.new, p.drop \union p.undo)
    /\ Leave(t)
    /\ UNCHANGED process

\* An object could not be made, and nothing tests for NULL: a text that is
\* not UTF-8, a module that is not there.
MakeFails(t) ==
    /\ Alive /\ at[t] = "in"
    /\ Current(t).new # {}
    /\ process' = "dead"
    /\ UNCHANGED <<gil, callState, refs>>

-----------------------------------------------------------------------------
(* The destructor *)

Exit ==
    /\ process = "up" /\ at[Main] = "out"
    /\ process' = "exiting"
    /\ UNCHANGED <<gil, callState, refs>>

\* PyEval_RestoreThread waits for the GIL, Py_Finalize ends the interpreter.
Finalize ==
    /\ process = "exiting" /\ gil = NoThread
    /\ process' = "finalized"
    /\ UNCHANGED <<gil, callState, refs>>

\* A handler that calls now, before the process is gone.
CallTooLate(t) ==
    /\ process = "finalized"
    /\ t # Main /\ at[t] = "out" /\ Calls[t] # {}
    /\ process' = "dead"
    /\ UNCHANGED <<gil, callState, refs>>

End ==
    /\ process = "finalized"
    /\ process' = "dead"
    /\ UNCHANGED <<gil, callState, refs>>

-----------------------------------------------------------------------------
Construct == Initialize \/ SaveThread \/ AddPaths
GoOn(t)   == Succeed(t) \/ Fail(t)
Destruct  == Finalize \/ End

BNext ==
    \/ Construct \/ Exit \/ Destruct
    \/ \E t \in Thread :
          \/ \E f \in Functions : Ensure(t, f)
          \/ Acquire(t) \/ Switch(t) \/ GoOn(t) \/ MakeFails(t) \/ CallTooLate(t)

(***************************************************************************)
(* The thread that holds the GIL goes on, and when it is asked to let go   *)
(* it waits until another one has run (CPython forces the switch): every   *)
(* waiting thread gets the GIL in the end. A call of Python ends, however  *)
(* often it loses the GIL. Nobody must call, and main need not return.     *)
(***************************************************************************)
BFairness ==
    /\ WF_bridge(Construct)
    /\ SF_bridge(Finalize) /\ WF_bridge(End)
    /\ \A t \in Thread : SF_bridge(Acquire(t)) /\ SF_bridge(GoOn(t))

BSpec     == BInit /\ [][BNext]_bridge
BFairSpec == BSpec /\ BFairness

-----------------------------------------------------------------------------
(***************************************************************************)
(* Types; a thread in the bridge holds the GIL.                            *)
(***************************************************************************)
BTypeOK ==
    /\ process \in {"new", "initialized", "saved", "up", "exiting", "finalized", "dead"}
    /\ gil \in Thread \union {NoThread}
    /\ at \in [Thread -> {"out", "waiting", "in"}]
    /\ fn \in [Thread -> Functions \union {NoFunction}]
    /\ refs \in [Thread -> [Objects -> 0 .. 1]]
    /\ \A t \in Thread : /\ fn[t] = NoFunction <=> at[t] = "out"
                         /\ part[t] \in IF fn[t] = NoFunction THEN {0} ELSE 1 .. Len(Parts(fn[t]))
                         /\ at[t] = "in" => gil = t

(***************************************************************************)
(* Whatever Python does at whichever part of a call, a thread that is back *)
(* from it, by a return or by an exception, has left the GIL and owns no   *)
(* reference any more (wrap.cpp:24-486); the two path strings of the       *)
(* constructor are the only ones the bridge keeps.                         *)
(***************************************************************************)
Balanced ==
    \A t \in Thread : at[t] = "out" =>
        /\ process = "initialized" \/ gil # t
        /\ \A o \in Objects \ PathNames : refs[t][o] = 0

(***************************************************************************)
(* No part uses an object that an earlier part has given back              *)
(* (wrap.cpp:233-277, 296-362).                                            *)
(***************************************************************************)
UsedIsOwned ==
    \A t \in Thread : at[t] # "out" =>
        \A o \in Current(t).uses : refs[t][o] > 0

(***************************************************************************)
(* Every call ends, also beside threads whose calls throw (wrap.cpp:5-17,  *)
(* 52-56), unless the process ends first.                                  *)
(***************************************************************************)
CallEnds ==
    \A t \in Thread : at[t] # "out" ~> at[t] = "out" \/ process \in {"finalized", "dead"}

(***************************************************************************)
(* The destructor gets the GIL and the process ends, though handlers that  *)
(* nobody waits for are still calling (wrap.cpp:19-22, server.cpp:74-76).  *)
(***************************************************************************)
ExitEnds == process = "exiting" ~> process = "dead"
=============================================================================
