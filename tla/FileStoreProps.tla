--------------------------- MODULE FileStoreProps ---------------------------
(***************************************************************************)
(* Properties of FileStore.                                                *)
(***************************************************************************)
EXTENDS FileStore

(***************************************************************************)
(* Types. Data keeps the count of an index within the bounds and its names *)
(* are names or the zeros read past the end (data.cpp:67, 117).            *)
(***************************************************************************)
Replies ==
    {NoReply, Closed} \union {FileReply(c) : c \in Content \union {Garbage}}

IsListReply(r) == /\ r.kind = "list"
                  /\ r = ListReply(r.names)
                  /\ r.names \in Seq(Name \union {Junk})

TypeOK ==
    /\ index \in Indices
    /\ index.total \in MinTotal .. MaxFiles
    /\ body \in [Slots -> Stored]
    /\ reply \in Replies \/ IsListReply(reply)

(***************************************************************************)
(* A session of a careful client leaves an index whose count is its number *)
(* of names, none of them Junk, and a body file in the slot of the first   *)
(* occurrence of every name: the pairing of index and bodies that          *)
(* _remove_index must re-establish slot by slot while it renumbers         *)
(* (data.cpp:126-142) and that add_file relies on when a name is uploaded  *)
(* again and keeps its first slot (data.cpp:200-202).                      *)
(***************************************************************************)
FirstSlot(i) == GetIndex(index.names, index.names[i]) = i-1

Paired ==
    /\ index.exists \/ index = NoIndex
    /\ index.total = Len(index.names)
    /\ index.names \in Seq(Name)
    /\ \A i \in 1..Len(index.names) : FirstSlot(i) => body[i-1] # NoFile

(***************************************************************************)
(* The promise. Under a careful client the store is UserFiles: the content *)
(* of a name is the body in its slot, the list is the set of its names.    *)
(* It fails if a renumbering moves a body to the wrong slot, if an upload  *)
(* of a known name writes elsewhere than a download reads, or if an index  *)
(* rewrite drops or revives a name.                                        *)
(***************************************************************************)
VaultFiles ==
    [n \in Name |-> IF n \in Listed THEN body[GetIndex(index.names, n)]
                                    ELSE NoFile]

VaultReply ==
    IF reply.kind = "list"
    THEN ListReply({reply.names[i] : i \in 1..Len(reply.names)})
    ELSE reply

Vault == INSTANCE UserFiles WITH files <- VaultFiles, reply <- VaultReply

KeepsVault == Vault!Spec

(***************************************************************************)
(* Whatever the client did before, ghost deletes and negative counts       *)
(* included, an upload that did not lose its connection can be downloaded: *)
(* the next get_file of that name has that content as its only answer      *)
(* (add_file and get_file resolve the name alike, data.cpp:200-202, 213).  *)
(***************************************************************************)
UploadIsReadBack ==
    [][\A n \in Name, c \in Content :
          AddFile(n, c) /\ reply' # Closed => GetReplies(n)' = {FileReply(c)}
      ]_vars

(***************************************************************************)
(* Whatever the client did before, deleting a listed name leaves the names *)
(* in front of it alone, even when the handler throws halfway: they keep   *)
(* their slot and their download (data.cpp:126, update_index).             *)
(***************************************************************************)
DeleteSparesEarlier ==
    [][\A n \in Listed, m \in Listed :
          /\ DeleteFile(n)
          /\ GetIndex(index.names, m) < GetIndex(index.names, n)
          => GetReplies(m)' = GetReplies(m)
      ]_vars

(***************************************************************************)
(* Whatever the client did before, a delete loses the body of the name it  *)
(* deletes at most: every other body file, orphans included, stays in its  *)
(* slot or moves down one, also when the loop throws at a hole or past the *)
(* end of the index (data.cpp:126-142 moves before it knows that it can    *)
(* finish).                                                                *)
(***************************************************************************)
DeleteLosesOneBody ==
    [][\A n \in Name : DeleteFile(n) =>
          \A i \in Slots \ {GetIndex(NamesRead(index), n)} :
              body[i] # NoFile =>
                 \E j \in Slots \cap {i, i-1} : body'[j] = body[i]
      ]_vars

-----------------------------------------------------------------------------
(* What the documentation says of the client's four operations and the     *)
(* code does not do for every sequence of requests.                        *)

(***************************************************************************)
(* "Demands the server to delete an uploaded file" (SilentVault.tex:115):  *)
(* a delete is about the named file; every other listed file stays on the  *)
(* list with its content.                                                  *)
(***************************************************************************)
DeleteSparesOthers ==
    [][\A n \in Name, m \in Listed :
          DeleteFile(n) /\ m # n => m \in Listed' /\ GetReplies(m)' = GetReplies(m)
      ]_vars
=============================================================================
