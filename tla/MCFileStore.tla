---------------------------- MODULE MCFileStore ----------------------------
(* Instances of FileStore for TLC. *)
EXTENDS FileStoreProps, TLC

CONSTANTS a, b, x, y

MCName       == {a, b}
MCContent    == {x, y}
MCJunkTotals == {-1, 0, 2}
MCMinTotal   == -2
MCSymmetry  == Permutations(MCName) \union Permutations(MCContent)
=============================================================================
