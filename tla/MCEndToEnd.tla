----------------------------- MODULE MCEndToEnd -----------------------------
(* An instance of EndToEnd for TLC. *)
EXTENDS EndToEnd, TLC

CONSTANTS a, b, c1, x, y, p, q, r

MCName     == {a, b, c1}
MCContent  == {x, y}
MCMinTotal == -1
MCSymmetry == Permutations(MCName) \union Permutations(MCContent)

MCPassword == {p, q, r}
\* Two passwords whose hashes fold to one key, and one apart.
MCHash == (p :> <<0, 1, 1, 1>>) @@ (q :> <<1, 0, 0, 0>>) @@ (r :> <<1, 1, 0, 0>>)

\* A text of two whole blocks, and blocks with a padding out of range, of
\* length 0, over the whole, and within it.
MCKeyText == <<5, 6, 7, 8>>
MCOthers  == {<<>>, <<5, 9>>, <<5, 0>>, <<5, 6, 2, 2>>, <<5, 6, 7, 2>>, <<5, 1>>}
=============================================================================
