------------------------------ MODULE MCZkAuth ------------------------------
(* Instances of ZkAuth for TLC. *)
EXTENDS ZkAuthProps, TLC

CONSTANTS p1, q1, s1, s2, a1, a2, r1, r2

MCOnePass    == {p1}
MCTwoPass    == {p1, q1}
MCSalt       == {s1, s2}
MCProver     == {a1}
MCRegistrars == {r1, r2}
\* One scalar is 0 before it is set to 1, and two pairs share a secret.
MCKdf == [ps \in MCTwoPass \X MCSalt |->
             CASE ps = <<p1, s1>> -> 5
               [] ps = <<p1, s2>> -> 8
               [] ps = <<q1, s1>> -> 2
               [] ps = <<q1, s2>> -> 1]
MCKdf1 == [ps \in MCOnePass \X MCSalt |-> IF ps[2] = s1 THEN 5 ELSE 8]
MCChallenge  == 0..6
MCFew        == {2, 5}
=============================================================================
