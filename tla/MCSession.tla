------------------------------ MODULE MCSession ------------------------------
(* Instances of Session for TLC. *)
EXTENDS SessionProps, TLC

\* An upload at the limit and one over it.
MCUploadSizes == {2, 3}
\* What a missing file makes: an answer over the limit.
MCJunkSizes == {1, 3}
=============================================================================
