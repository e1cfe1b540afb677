----------------------------- MODULE FileIndex -----------------------------
(***************************************************************************)
(* The index file of a user, <user>_files.dat, as class Data reads it      *)
(* (src/Server/src/data.cpp). It holds a count and then the encrypted      *)
(* names; the position of a name, from 0, is its slot. Names are encrypted *)
(* with one key and one iv, so equal names have equal ciphertexts and a    *)
(* name stands for its ciphertext.                                         *)
(*                                                                         *)
(* The count and the names can disagree. Reading past the last name leaves *)
(* fname_len uninitialized; the build then either throws (resize of a      *)
(* negative or huge length) or yields a block of zeros, here Junk, which   *)
(* is no ciphertext of a name.                                             *)
(***************************************************************************)
EXTENDS Integers, Sequences

CONSTANTS
    Name,   \* file names
    Junk    \* what a read past the last name of the index yields

NoIndex      == [exists |-> FALSE, total |-> 0, names |-> <<>>]
Index(t, ns) == [exists |-> TRUE, total |-> t, names |-> ns]

\* The names that total reads return when none of them throws.
NamesRead(ix) ==
    IF ix.total <= 0
    THEN <<>>
    ELSE [i \in 1..ix.total |->
             IF i <= Len(ix.names) THEN ix.names[i] ELSE Junk]

\* Some of the total reads are past the last name, so one of them may throw.
ReadFails(ix) == ix.total > Len(ix.names)

Hits(ns, n) == {i \in 1..Len(ns) : ns[i] = n}

\* The slot of the first name equal to n, -1 if there is none.
GetIndex(ns, n) ==
    IF Hits(ns, n) = {}
    THEN -1
    ELSE (CHOOSE i \in Hits(ns, n) : \A j \in Hits(ns, n) : i <= j) - 1

\* Mutant: the match is not left out of all_files.
WithoutNone(ns, n) == ns

\* The names the loop of _remove_index keeps: those that are not n.
Without(ns, n) ==
    LET kept[i \in 0..Len(ns)] ==
            IF i = 0 THEN <<>>
            ELSE IF ns[i] = n THEN kept[i-1]
            ELSE Append(kept[i-1], ns[i])
    IN  kept[Len(ns)]
=============================================================================
