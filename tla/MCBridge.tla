------------------------------ MODULE MCBridge ------------------------------
(* An instance of Bridge for TLC. *)
EXTENDS Bridge, TLC

CONSTANTS m, h1, h2

MCThread == {m, h1, h2}
\* The main thread makes every call, as that of the client does, and the
\* handlers those of the server.
MCCalls == (m :> Functions) @@ (h1 :> {"encrypt", "server_verify", "server_gen_challenge"})
             @@ (h2 :> {"decrypt"})
=============================================================================
