----------------------------- MODULE ZkAuthProps -----------------------------
(***************************************************************************)
(* ZkAuth with history variables, and its properties. No history variable  *)
(* restricts a step.                                                       *)
(***************************************************************************)
EXTENDS ZkAuth

CONSTANT NoPass   \* no password

ASSUME NoPassAssumption == NoPass \notin Pass

VARIABLES
    alone,         \* alone[r]: no other registration has run beside that of r
    owner,         \* the password of the latest registration that ran alone
    undisturbed,   \* undisturbed[s]: no registration step since s read the salt
    used           \* the passwords registered so far

hvars == <<salt, pub, reg, job, verdict, alone, owner, undisturbed, used>>

Begins(r) == reg[r] = Idle /\ reg'[r] # Idle
Ends(r)   == reg[r].at = "write_pub" /\ pub' = reg[r].pub /\ reg'[r] = Idle

OthersIdle(r) == \A q \in Registrar \ {r} : reg[q] = Idle

HInit ==
    /\ Init
    /\ alone = [r \in Registrar |-> FALSE]
    /\ owner = NoPass
    /\ undisturbed = [s \in Prover |-> FALSE]
    /\ used = {}

HRegStep(r) ==
    /\ RegStep(r)
    /\ alone' = IF Begins(r)
                THEN [q \in Registrar |-> q = r /\ OthersIdle(r)]
                ELSE alone
    /\ owner' = IF Ends(r) /\ alone[r] THEN reg[r].pass ELSE NoPass
    /\ undisturbed' = [s \in Prover |-> FALSE]
    /\ used' = IF Begins(r) THEN used \union {reg'[r].pass} ELSE used

HAuthStep(s) ==
    /\ AuthStep(s)
    /\ undisturbed' = [undisturbed EXCEPT ![s] = job[s] = Idle \/ @]
    /\ UNCHANGED <<alone, owner, used>>

HCrash ==
    /\ Crash
    /\ UNCHANGED <<alone, owner, undisturbed, used>>

HNext ==
    \/ \E r \in Registrar : HRegStep(r)
    \/ \E s \in Prover : HAuthStep(s)
    \/ HCrash

HSpec == HInit /\ [][HNext]_hvars

-----------------------------------------------------------------------------
(***************************************************************************)
(* Types. Secrets, commitments and responses are exponents of the curve    *)
(* (zk_auth.py:54-56, 88, 95); a public key in the file is that of a       *)
(* secret.                                                                 *)
(***************************************************************************)
RegTypes ==
    {Idle} \union
    [at : {"write_salt", "open_pub", "write_pub"}, pass : Pass,
     salt : Salt, pub : Scalars]

JobTypes ==
    {Idle} \union
    [at : {"commit"}, pass : Pass, x : Scalars, R : Scalars] \union
    [at : {"verify"}, pass : Pass, x : Scalars, R : Scalars, c : Challenge,
     resp : Scalars]

TypeOK ==
    /\ salt \in Salt \union {Missing, Blank}
    /\ pub \in Scalars \union {Missing, Blank}
    /\ reg \in [Registrar -> RegTypes]
    /\ job \in [Prover -> JobTypes]
    /\ verdict \in [Prover -> {"none", "accepted", "refused", "closed"}]
    /\ alone \in [Registrar -> BOOLEAN]
    /\ owner \in Pass \union {NoPass}
    /\ undisturbed \in [Prover -> BOOLEAN]
    /\ used \subseteq Pass

(***************************************************************************)
(* Completeness, as far as the code gives it: the user's password, as the  *)
(* latest registration set it, is accepted, if that registration ran to    *)
(* its end with no other beside it and none has begun since; crashes and   *)
(* other authentications in between make no difference                     *)
(* (resolver.cpp:49-75, client.cpp:112-176).                               *)
(***************************************************************************)
HonestIsAccepted ==
    [][\A s \in Prover :
          AskVerdict(s) /\ undisturbed[s] /\ job[s].pass = owner
          => verdict'[s] = "accepted"
      ]_hvars

(***************************************************************************)
(* A client of this program with another password than the one registered, *)
(* or with a secret of a salt that a registration has replaced since it    *)
(* read it, is refused, and told so, whatever it committed to and whatever *)
(* is drawn, a challenge of zero modulo n apart (resolver.cpp:63-75,       *)
(* zk_auth.py:125-141). The client is one that answers the challenge it    *)
(* was sent (client.cpp:135-159): the server itself compares neither the   *)
(* challenge nor the commitment with anything it sent or received before.  *)
(***************************************************************************)
OtherSecretIsRefused ==
    [][\A s \in Prover :
          /\ AskVerdict(s)
          /\ owner # NoPass /\ job[s].x # Secret(owner, salt)
          /\ job[s].c % n # 0
          => verdict'[s] = "refused"
      ]_hvars

-----------------------------------------------------------------------------
(***************************************************************************)
(* "Completeness: Honest clients are always accepted." (SilentVault.tex:   *)
(* 182): a client with the only password that was ever registered is       *)
(* accepted when no registration runs while it authenticates.              *)
(***************************************************************************)
HonestIsAlwaysAccepted ==
    [][\A s \in Prover :
          /\ AskVerdict(s)
          /\ undisturbed[s]
          /\ \A r \in Registrar : reg[r] = Idle
          /\ used = {job[s].pass}
          => verdict'[s] = "accepted"
      ]_hvars
=============================================================================
