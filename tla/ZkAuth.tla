------------------------------- MODULE ZkAuth -------------------------------
(***************************************************************************)
(* Registration and authentication of one user: the client's _register and *)
(* _authenticate (src/Client/src/client.cpp), the four handlers that       *)
(* answer them (src/Server/src/resolver.cpp), and the Schnorr arithmetic   *)
(* of src/CryptoService/zk_auth.py.                                        *)
(*                                                                         *)
(* A point k*G of the curve is its exponent k, modulo the prime order n of *)
(* the curve. The record of the user is two files: the salt and the public *)
(* key, each rewritten by a truncation and a write; the sessions run in    *)
(* threads of their own and hold no lock. A file that is missing or empty  *)
(* leaves the size and the bytes of the read unset: the handler throws, or *)
(* goes on with bytes that decrypt to anything. For the salt that is some  *)
(* other salt; a public key made of such bytes is no point of the curve,   *)
(* so bytes_to_point throws.                                               *)
(*                                                                         *)
(* The dialogue is this client's: it commits before it asks for the        *)
(* challenge, and responds to the challenge it was sent. The server keeps  *)
(* neither: what it verifies, the challenge included, it takes from the    *)
(* last message (Solve). What a peer that follows another program could    *)
(* send there is not modelled, and nothing is claimed of it.               *)
(***************************************************************************)
EXTENDS Integers

CONSTANTS
    Prover,      \* sessions that authenticate
    Registrar,   \* sessions that register
    Pass,        \* passwords
    Salt,        \* salts
    Kdf,         \* PBKDF2, as an integer
    n,           \* the order of the curve
    Challenge,   \* challenges, as integers
    Missing,     \* a file that does not exist
    Blank,       \* a file of length 0
    MayCrash     \* whether the process may end with handlers running

ASSUME ZkAssumption ==
    /\ n \in Nat /\ n > 1
    /\ \A i, j \in 1..n-1 : (i * j) % n # 0
    /\ Kdf \in [Pass \X Salt -> Nat]
    /\ Challenge \subseteq Nat
    /\ {Missing, Blank} \cap (Salt \union Int) = {}
    /\ Missing # Blank
    /\ MayCrash \in BOOLEAN

VARIABLES
    salt,      \* <user>_salt.bin
    pub,       \* <user>_pub.bin
    reg,       \* where the handler of each registration is
    job,       \* where each authentication is
    verdict    \* how the latest authentication of each session ended

vars   == <<salt, pub, reg, job, verdict>>
record == <<salt, pub>>

Idle    == [at |-> "idle"]
Scalars == 0 .. n-1

-----------------------------------------------------------------------------
(* zk_auth.py *)

\* password_to_scalar; client_public_from_password is that times G.
Secret(p, s) == LET k == Kdf[p, s] % n IN IF k = 0 THEN 1 ELSE k

\* Mutant: the response is not reduced.
ResponseUnreduced(r, c, x) == r + (c % n) * (x % n)

\* Mutant: the other sign convention of Schnorr's protocol.
ResponseMinus(r, c, x) == (r - (c % n) * (x % n)) % n

\* client_compute_response_from_scalar.
Response(r, c, x) == (r + (c % n) * (x % n)) % n

\* Mutant: only the x coordinates are compared, and k*G has that of -k*G.
VerifyXOnly(R, s, P, c) ==
    LET e == (R + P * (c % n)) % n IN s % n \in {e, (n - e) % n}

\* server_verify: s*G = R + c*P.
Verify(R, s, P, c) == s % n = (R + P * (c % n)) % n

-----------------------------------------------------------------------------
Init ==
    /\ salt = Missing
    /\ pub = Missing
    /\ reg = [r \in Registrar |-> Idle]
    /\ job = [s \in Prover |-> Idle]
    /\ verdict = [s \in Prover |-> "none"]

-----------------------------------------------------------------------------
(***************************************************************************)
(* Registration. The client draws a salt and sends it with its public key; *)
(* it waits for no answer. The server rewrites one file, then the other.   *)
(***************************************************************************)
Registers(r, from, to) ==
    /\ reg[r].at = from
    /\ reg' = [reg EXCEPT ![r].at = to]
    /\ UNCHANGED <<job, verdict>>

Register(r, p, s) ==
    /\ reg[r] = Idle
    /\ reg' = [reg EXCEPT ![r] = [at |-> "write_salt", pass |-> p, salt |-> s,
                                  pub |-> Secret(p, s)]]
    /\ salt' = Blank
    /\ UNCHANGED <<pub, job, verdict>>

WriteSalt(r) ==
    /\ Registers(r, "write_salt", "open_pub")
    /\ salt' = reg[r].salt
    /\ UNCHANGED pub

OpenPub(r) ==
    /\ Registers(r, "open_pub", "write_pub")
    /\ pub' = Blank
    /\ UNCHANGED salt

WritePub(r) ==
    /\ reg[r].at = "write_pub"
    /\ reg' = [reg EXCEPT ![r] = Idle]
    /\ pub' = reg[r].pub
    /\ UNCHANGED <<salt, job, verdict>>

-----------------------------------------------------------------------------
(* Authentication *)

Close(s) ==
    /\ job' = [job EXCEPT ![s] = Idle]
    /\ verdict' = [verdict EXCEPT ![s] = "closed"]

\* The server reads the salt; the client derives its secret x from it and
\* commits to R.
AskSalt(s, p) ==
    /\ job[s] = Idle
    /\ \/ \E x \in IF salt \in Salt THEN {Secret(p, salt)} ELSE Scalars \ {0},
             R \in Scalars \ {0} :
             /\ job' = [job EXCEPT ![s] = [at |-> "commit", pass |-> p,
                                           x |-> x, R |-> R]]
             /\ verdict' = [verdict EXCEPT ![s] = "none"]
       \/ salt \notin Salt /\ Close(s)
    /\ UNCHANGED <<record, reg>>

\* The server draws a challenge and forgets it; the client responds, and sends
\* R and the challenge along with the response.
AskChallenge(s) ==
    /\ job[s].at = "commit"
    /\ \E c \in Challenge :
          job' = [job EXCEPT ![s] =
                     [at |-> "verify", pass |-> @.pass, x |-> @.x,
                      R |-> @.R, c |-> c, resp |-> Response(@.R, c, @.x)]]
    /\ UNCHANGED <<record, reg, verdict>>

\* solve of that message: of the dialogue only what it carries is known, and
\* it is held against the public key that is in the file now.
Solve(R, response, challenge) ==
    IF pub \notin Scalars THEN "closed"
    ELSE IF Verify(R, response, pub, challenge) THEN "accepted" ELSE "refused"

AskVerdict(s) ==
    /\ job[s].at = "verify"
    /\ job' = [job EXCEPT ![s] = Idle]
    /\ verdict' = [verdict EXCEPT ![s] =
                      Solve(job[s].R, job[s].resp, job[s].c)]
    /\ UNCHANGED <<record, reg>>

-----------------------------------------------------------------------------
\* The server process ends; what it has written stays.
Crash ==
    /\ MayCrash
    /\ reg' = [r \in Registrar |-> Idle]
    /\ job' = [s \in Prover |-> Idle]
    /\ verdict' = [s \in Prover |-> "closed"]
    /\ UNCHANGED record

RegStep(r) ==
    \/ \E p \in Pass, s \in Salt : Register(r, p, s)
    \/ WriteSalt(r) \/ OpenPub(r) \/ WritePub(r)

AuthStep(s) ==
    \/ \E p \in Pass : AskSalt(s, p)
    \/ AskChallenge(s) \/ AskVerdict(s)

Next ==
    \/ \E r \in Registrar : RegStep(r)
    \/ \E s \in Prover : AuthStep(s)
    \/ Crash

Spec == Init /\ [][Next]_vars
=============================================================================
