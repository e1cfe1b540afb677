-------------------------- MODULE FileStoreHistory --------------------------
(***************************************************************************)
(* FileStoreSteps with two history variables, and its properties. Neither  *)
(* variable restricts a step.                                              *)
(***************************************************************************)
EXTENDS FileStoreSteps

VARIABLES
    began,   \* began[s]: the files when the running handler of s began
    done     \* names whose upload ended without an exception

hvars == <<index, body, job, reply, began, done>>

NoFiles == [index |-> NoIndex, body |-> [i \in Slots |-> NoFile]]

HInit ==
    /\ Init
    /\ began = [s \in Session |-> NoFiles]
    /\ done = {}

UploadEnds(s) == At(s, "write_body") /\ job'[s] = Idle /\ reply'[s] # Atomic!Closed

HNext ==
    /\ Next
    /\ began' = [s \in Session |->
                    IF job'[s] = Idle THEN NoFiles
                    ELSE IF job[s] = Idle THEN [index |-> index, body |-> body]
                    ELSE began[s]]
    /\ done' = done \union {job[s].n : s \in {t \in Session : UploadEnds(t)}}

HSpec == HInit /\ [][HNext]_hvars

(***************************************************************************)
(* Types. Every handler, in whatever order it interleaves with others and  *)
(* wherever the process ends, works on slots and counts in range.          *)
(***************************************************************************)
Places == {"idle", "truncate_index", "write_index", "lookup", "open_body",
           "write_body", "read_body", "next", "open_target", "write_target",
           "remove_source"}

StepsTypeOK ==
    /\ index.total \in MinTotal-1 .. MaxFiles
    /\ index.names \in Seq(Name \union {Junk})
    /\ body \in [Slots -> Content \union {NoFile, Blank}]
    /\ \A s \in Session :
          /\ job[s].at \in Places
          /\ job[s].at \in {"open_body", "write_body", "read_body"}
                => job[s].slot \in Slots
          /\ job[s].at \in {"open_target", "write_target", "remove_source"}
                => {job[s].i, job[s].i - 1} \subseteq 0 .. MaxFiles-1

(***************************************************************************)
(* Handlers that run alone are atomic: the file operations of one handler  *)
(* have together the outcomes FileStore gives it, throws halfway and       *)
(* uninitialized reads included (data.cpp:67-243). The files are shown as  *)
(* they were when the handler began until it ends. The end of the process  *)
(* is no step of FileStore; a handler that starts from files it left       *)
(* whole is atomic again.                                                  *)
(***************************************************************************)
Sole == CHOOSE s \in Session : TRUE

ShownIndex == IF job[Sole] = Idle THEN index ELSE began[Sole].index
ShownBody  == IF job[Sole] = Idle THEN body  ELSE began[Sole].body
shown      == <<ShownIndex, ShownBody, reply>>

Alone == INSTANCE FileStore WITH
            index <- ShownIndex, body <- ShownBody, reply <- reply[Sole]

Whole == ShownIndex # BlankIndex /\ \A i \in Slots : ShownBody[i] # Blank

HandlersAreAtomic ==
    Alone!Init /\ [][Whole => Alone!Next \/ Crash \/ UNCHANGED shown]_hvars

(***************************************************************************)
(* The end of the process costs no other file its content. At every        *)
(* instant of an upload or a delete, also one that starts from what an     *)
(* earlier crash left behind, each content that is not the handler's own   *)
(* is complete in its slot or in the one before (data.cpp:137-141 copies   *)
(* before it removes). The index is not so lucky: it is empty between the  *)
(* truncation and the close of its stream (data.cpp:90-96, 154-160).       *)
(***************************************************************************)
OwnSlot(j) ==
    CASE j.at \in {"next", "open_target", "write_target", "remove_source"} -> j.k
      [] j.at \in {"truncate_index", "write_index"} /\ j.op = "delete"     -> j.k
      [] j.at \in {"open_body", "write_body"}                              -> j.slot
      [] OTHER                                                             -> -1

OtherBodiesSurvive ==
    \A s \in Session : job[s] # Idle =>
        \A i \in Slots \ {OwnSlot(job[s])} :
            began[s].body[i] \in Content =>
                \E j \in Slots \cap {i, i-1} : body[j] = began[s].body[i]

(***************************************************************************)
(* A session that downloads while another uploads never receives one       *)
(* name's content for another: either bytes of its own file or a failure   *)
(* (data.cpp:207-216 against 193-206, with the index truncated and         *)
(* rewritten, and the body opened, between the two reads).                 *)
(***************************************************************************)
DownloadsOwnFile ==
    [][\A s \in Session :
          /\ At(s, "read_body")
          /\ job'[s] = Idle
          /\ reply'[s].kind = "file"
          => reply'[s].content \in Own[job[s].n] \union {Garbage}
      ]_vars

(***************************************************************************)
(* "Checks a list of all the previously uploaded files"                    *)
(* (SilentVault.tex:114): when no handler is rewriting the index, every    *)
(* name whose upload ended without an exception is in it.                  *)
(***************************************************************************)
UploadsAreListed ==
    (\A s \in Session : job[s].at \notin {"truncate_index", "write_index"}) =>
        \A n \in done : Hits(NamesRead(index), n) # {}
=============================================================================
