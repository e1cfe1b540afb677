-------------------------- MODULE MCFileStoreSteps --------------------------
(* Instances of FileStoreSteps for TLC. *)
EXTENDS FileStoreHistory, TLC

CONSTANTS a, b, x, y, s1, s2

MCName       == {a, b}
MCContent    == {x, y}
MCJunkTotals == {0, 2}
MCMinTotal   == -2
MCOne        == {s1}
MCTwo        == {s1, s2}
MCAll        == [s \in {s1} |-> {"add", "get", "list", "delete"}]
MCReader     == (s1 :> {"add", "list"}) @@ (s2 :> {"get", "list"})
MCUploaders  == [s \in {s1, s2} |-> {"add"}]
MCAnyOwn     == [n \in {a, b} |-> {x, y}]
MCEachOwn    == (a :> {x}) @@ (b :> {y})
MCFiles      == Permutations(MCName) \union Permutations(MCContent)
=============================================================================
