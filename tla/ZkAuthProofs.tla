---------------------------- MODULE ZkAuthProofs ----------------------------
(***************************************************************************)
(* What holds of ZkAuthProps for every set of sessions, passwords and      *)
(* salts, every order n and every key derivation.                          *)
(***************************************************************************)
EXTENDS ZkAuthProps, TLAPS

-----------------------------------------------------------------------------
(* The arithmetic modulo the order of the curve *)

\* A residue is a scalar.
LEMMA ResidueIsScalar == \A a \in Int : a % n \in Scalars
BY ZkAssumption DEF Scalars

\* A scalar is its own residue.
LEMMA ScalarIsResidue == \A a \in Scalars : a % n = a
BY ZkAssumption DEF Scalars

\* A secret is a scalar, zero excluded (zk_auth.py:54-56).
LEMMA SecretIsScalar ==
    \A p \in Pass, s \in Salt : Secret(p, s) \in Scalars \ {0}
<1> SUFFICES ASSUME NEW p \in Pass, NEW s \in Salt
             PROVE  Secret(p, s) \in Scalars \ {0}
  OBVIOUS
<1>1. PICK k \in Nat : Kdf[p, s] = k
  <2>1. <<p, s>> \in Pass \X Salt
    OBVIOUS
  <2>2. Kdf[<<p, s>>] \in Nat
    BY <2>1, ZkAssumption
  <2> QED
    BY <2>2, Zenon
<1>2. k % n \in Scalars
  BY ResidueIsScalar
<1>3. 1 \in Scalars
  BY ZkAssumption DEF Scalars
<1>4. Secret(p, s) = IF k % n = 0 THEN 1 ELSE k % n
  BY <1>1, Zenon DEF Secret
<1> QED
  BY <1>2, <1>3, <1>4

\* A response is a scalar (zk_auth.py:95).
LEMMA ResponseIsScalar ==
    \A r, x \in Scalars, c \in Challenge : Response(r, c, x) \in Scalars
<1> SUFFICES ASSUME NEW r \in Scalars, NEW x \in Scalars, NEW c \in Challenge
             PROVE  Response(r, c, x) \in Scalars
  OBVIOUS
<1>1. r \in Int /\ c % n \in Int /\ x % n \in Int
  BY ZkAssumption, ResidueIsScalar DEF Scalars
<1>2. r + (c % n) * (x % n) \in Int
  BY <1>1
<1> QED
  BY <1>2, ResidueIsScalar DEF Response

\* The response to a challenge verifies against the public key of its secret.
LEMMA ResponseVerifies ==
    \A r, x \in Scalars, c \in Challenge : Verify(r, Response(r, c, x), x, c)
<1> SUFFICES ASSUME NEW r \in Scalars, NEW x \in Scalars, NEW c \in Challenge
             PROVE  Verify(r, Response(r, c, x), x, c)
  OBVIOUS
<1>1. x % n = x
  BY ScalarIsResidue
<1>2. Response(r, c, x) = (r + x * (c % n)) % n
  <2>1. x \in Int /\ c % n \in Int
    BY ZkAssumption, ResidueIsScalar DEF Scalars
  <2>2. (c % n) * x = x * (c % n)
    BY <2>1
  <2> QED
    BY <1>1, <2>2 DEF Response
<1>3. Response(r, c, x) % n = Response(r, c, x)
  BY ResponseIsScalar, ScalarIsResidue
<1> QED
  BY <1>2, <1>3 DEF Verify

\* Numbers with one residue differ by a multiple of n.
LEMMA SameResidue == \A a, b \in Int : a % n = b % n => (a - b) % n = 0
BY ZkAssumption

\* n is prime: factors that are not residue zero have a product that is not.
LEMMA Cancel ==
    ASSUME NEW r \in Scalars, NEW x \in Scalars, NEW y \in Scalars,
           NEW e \in Scalars, e # 0, (r + x * e) % n = (r + y * e) % n
    PROVE  x = y
<1>1. ASSUME NEW u \in Scalars, NEW v \in Scalars, u > v,
             (r + u * e) % n = (r + v * e) % n
      PROVE  FALSE
  <2>1. r \in Int /\ u \in Int /\ v \in Int /\ e \in Int
    BY ZkAssumption DEF Scalars
  <2>2. r + u * e \in Int /\ r + v * e \in Int
    BY <2>1
  <2>3. ((r + u * e) - (r + v * e)) % n = 0
    BY <1>1, <2>2, SameResidue
  <2>4. (r + u * e) - (r + v * e) = (u - v) * e
    BY <2>1
  <2>5. u - v \in 1..n-1 /\ e \in 1..n-1
    BY <1>1, ZkAssumption DEF Scalars
  <2>6. ((u - v) * e) % n # 0
    BY <2>5, ZkAssumption
  <2> QED
    BY <2>3, <2>4, <2>6
<1>2. x \in Int /\ y \in Int
  BY ZkAssumption DEF Scalars
<1>3. ~(x > y)
  BY <1>1
<1>4. ~(y > x)
  BY <1>1
<1> QED
  BY <1>2, <1>3, <1>4

-----------------------------------------------------------------------------
(* The inductive invariant *)

\* What a registration is about to write belongs together.
RegInv ==
    \A r \in Registrar :
        reg[r] # Idle => reg[r].pub = Secret(reg[r].pass, reg[r].salt)

\* The salt that a registration wrote stays while no other runs beside it.
AloneInv ==
    \A r \in Registrar :
        alone[r] /\ reg[r] # Idle =>
            /\ OthersIdle(r)
            /\ reg[r].at \in {"open_pub", "write_pub"} => salt = reg[r].salt

\* The record of an owner is whole, and nobody is about to write it.
OwnerInv ==
    owner # NoPass =>
        /\ salt \in Salt
        /\ pub = Secret(owner, salt)
        /\ \A r \in Registrar : reg[r] = Idle

\* An undisturbed authentication works with the salt that is in the file.
ReadInv ==
    \A s \in Prover :
        undisturbed[s] /\ job[s] # Idle /\ owner # NoPass =>
            job[s].x = Secret(job[s].pass, salt)

\* The response that a client sends answers the challenge.
RespInv ==
    \A s \in Prover :
        job[s].at = "verify" =>
            job[s].resp = Response(job[s].R, job[s].c, job[s].x)

IInv == TypeOK /\ RegInv /\ AloneInv /\ OwnerInv /\ ReadInv /\ RespInv

\* The fields of a registration under way.
LEMMA RegFields ==
    ASSUME NEW r \in Registrar, reg[r] \in RegTypes, reg[r] # Idle
    PROVE  /\ reg[r].at \in {"write_salt", "open_pub", "write_pub"}
           /\ reg[r].pass \in Pass
           /\ reg[r].salt \in Salt
           /\ reg[r].pub \in Scalars
BY DEF RegTypes

\* A registration that is at a place is of that type.
LEMMA RegAt ==
    ASSUME NEW e \in RegTypes,
           NEW to \in {"write_salt", "open_pub", "write_pub"},
           e # Idle
    PROVE  /\ [e EXCEPT !.at = to] \in RegTypes
           /\ [e EXCEPT !.at = to] # Idle
BY DEF RegTypes, Idle

\* The fields of an authentication under way.
LEMMA JobFields ==
    ASSUME NEW s \in Prover, job[s] \in JobTypes
    PROVE  /\ job[s].at = "idle" => job[s] = Idle
           /\ job[s].at \in {"commit", "verify"} =>
                 /\ job[s].pass \in Pass
                 /\ job[s].x \in Scalars
                 /\ job[s].R \in Scalars
           /\ job[s].at = "verify" =>
                 /\ job[s].c \in Challenge
                 /\ job[s].resp \in Scalars
           /\ job[s].at \in {"idle", "commit", "verify"}
BY DEF JobTypes, Idle

-----------------------------------------------------------------------------
(* The steps of a registration *)

LEMMA RegisterStep ==
    ASSUME IInv, NEW r \in Registrar, NEW p \in Pass, NEW s \in Salt,
           Register(r, p, s), HRegStep(r)
    PROVE  IInv'
<1>1. Secret(p, s) \in Scalars
  BY SecretIsScalar
<1> DEFINE new == [at |-> "write_salt", pass |-> p, salt |-> s, pub |-> Secret(p, s)]
<1>2. new \in RegTypes /\ new # Idle
  BY <1>1 DEF RegTypes, Idle
<1>3. PICK e \in RegTypes : e = new /\ e # Idle
  BY <1>2
<1>4. /\ e.pub = Secret(p, s) /\ e.pass = p /\ e.salt = s
      /\ e.at = "write_salt"
  BY <1>3
<1>5. reg[r] = Idle /\ reg' = [reg EXCEPT ![r] = e]
  BY <1>3 DEF Register
<1>6. reg'[r] = e /\ \A q \in Registrar : q # r => reg'[q] = reg[q]
  BY <1>5 DEF IInv, TypeOK
<1>7. alone' = [q \in Registrar |-> q = r /\ OthersIdle(r)]
  BY <1>3, <1>5, <1>6 DEF HRegStep, Begins
<1>8. owner' = NoPass
  BY <1>5 DEF HRegStep, Ends, Idle
<1>9. used' \subseteq Pass
  BY <1>3, <1>4, <1>5, <1>6 DEF HRegStep, Begins, IInv, TypeOK
<1>10. TypeOK'
  <2>1. reg' \in [Registrar -> RegTypes]
    BY <1>5 DEF IInv, TypeOK
  <2>2. salt' = Blank /\ pub' = pub /\ job' = job /\ verdict' = verdict
    BY DEF Register
  <2>3. alone' \in [Registrar -> BOOLEAN]
    BY <1>7, Zenon
  <2>4. undisturbed' \in [Prover -> BOOLEAN]
    BY Zenon DEF HRegStep
  <2> QED
    BY <1>8, <1>9, <2>1, <2>2, <2>3, <2>4 DEF IInv, TypeOK
<1>11. RegInv'
  BY <1>4, <1>6 DEF IInv, RegInv
<1>12. AloneInv'
  <2> SUFFICES ASSUME NEW q \in Registrar, alone'[q]
               PROVE  /\ OthersIdle(q)'
                      /\ reg'[q].at \notin {"open_pub", "write_pub"}
    BY DEF AloneInv
  <2>1. q = r /\ OthersIdle(r)
    BY <1>7, Zenon
  <2> QED
    BY <2>1, <1>4, <1>6 DEF OthersIdle
<1>13. OwnerInv' /\ ReadInv'
  BY <1>8 DEF OwnerInv, ReadInv
<1>14. RespInv'
  BY DEF Register, IInv, RespInv
<1> QED
  BY <1>10, <1>11, <1>12, <1>13, <1>14 DEF IInv

\* The two steps that move a registration on without ending it.
LEMMA MiddleStep ==
    ASSUME IInv, NEW r \in Registrar, HRegStep(r), WriteSalt(r) \/ OpenPub(r)
    PROVE  IInv'
<1>1. PICK to \in {"open_pub", "write_pub"} :
          /\ reg[r].at # "write_pub"
          /\ reg[r].at # "idle"
          /\ reg' = [reg EXCEPT ![r].at = to]
          /\ job' = job /\ verdict' = verdict
          /\ pub' \in {pub, Blank}
          /\ \/ salt' = reg[r].salt
             \/ salt' = salt /\ reg[r].at = "open_pub"
  BY DEF WriteSalt, OpenPub, Registers
<1>2. reg[r] \in RegTypes /\ reg[r] # Idle
  BY <1>1 DEF IInv, TypeOK, Idle
<1>3. PICK e \in RegTypes : /\ e = [reg[r] EXCEPT !.at = to]
                           /\ e # Idle
                           /\ e.at = to
                           /\ e.pass = reg[r].pass
                           /\ e.salt = reg[r].salt
                           /\ e.pub = reg[r].pub
  <2>1. [reg[r] EXCEPT !.at = to] \in RegTypes
    BY <1>2, RegAt
  <2>2. [reg[r] EXCEPT !.at = to] # Idle
    BY <1>2, RegAt
  <2> QED
    BY <2>1, <2>2, <1>2 DEF RegTypes
<1>4. reg' = [reg EXCEPT ![r] = e]
  BY <1>1, <1>3 DEF IInv, TypeOK
<1>5. reg'[r] = e /\ \A q \in Registrar : q # r => reg'[q] = reg[q]
  BY <1>4 DEF IInv, TypeOK
<1>6. alone' = alone /\ used' = used
  BY <1>2 DEF HRegStep, Begins
<1>7. owner' = NoPass
  BY <1>1 DEF HRegStep, Ends
<1>8. TypeOK'
  <2>1. reg' \in [Registrar -> RegTypes]
    BY <1>4 DEF IInv, TypeOK
  <2>2. salt' \in Salt \union {Missing, Blank}
    BY <1>1, <1>2, RegFields DEF IInv, TypeOK
  <2>3. undisturbed' \in [Prover -> BOOLEAN]
    BY Zenon DEF HRegStep
  <2> QED
    BY <1>1, <1>6, <1>7, <2>1, <2>2, <2>3 DEF IInv, TypeOK
<1>9. RegInv'
  <2> SUFFICES ASSUME NEW q \in Registrar, reg'[q] # Idle
               PROVE  reg'[q].pub = Secret(reg'[q].pass, reg'[q].salt)
    BY Zenon DEF RegInv
  <2>1. \A p \in Registrar : reg[p] # Idle => reg[p].pub = Secret(reg[p].pass, reg[p].salt)
    BY Zenon DEF IInv, RegInv
  <2>2. CASE q = r
    <3>1. reg[r].pub = Secret(reg[r].pass, reg[r].salt)
      BY <1>2, <2>1, Zenon
    <3>2. reg'[q].pub = reg[r].pub /\ reg'[q].pass = reg[r].pass /\ reg'[q].salt = reg[r].salt
      BY <1>3, <1>5, <2>2, Zenon
    <3> QED BY <3>1, <3>2, Zenon
  <2>3. CASE q # r
    BY <1>5, <2>1, <2>3, Zenon
  <2> QED BY <2>2, <2>3
<1>10. AloneInv'
  <2> SUFFICES ASSUME NEW q \in Registrar, alone[q], reg'[q] # Idle
               PROVE  /\ OthersIdle(q)'
                      /\ reg'[q].at \in {"open_pub", "write_pub"}
                            => salt' = reg'[q].salt
    BY <1>6 DEF AloneInv
  <2>1. q = r
    BY <1>2, <1>5 DEF IInv, AloneInv, OthersIdle
  <2>2. OthersIdle(r)'
    BY <2>1, <1>2, <1>5 DEF IInv, AloneInv, OthersIdle
  <2>3. salt' = reg'[r].salt
    BY <2>1, <1>1, <1>2, <1>3, <1>5 DEF IInv, AloneInv
  <2> QED
    BY <2>1, <2>2, <2>3
<1>11. OwnerInv' /\ ReadInv'
  BY <1>7 DEF OwnerInv, ReadInv
<1>12. RespInv'
  BY <1>1 DEF IInv, RespInv
<1> QED
  BY <1>8, <1>9, <1>10, <1>11, <1>12 DEF IInv

\* The last step of a registration.
LEMMA WritePubStep ==
    ASSUME IInv, NEW r \in Registrar, HRegStep(r), WritePub(r)
    PROVE  IInv'
<1>1. /\ reg[r].at = "write_pub"
      /\ reg' = [reg EXCEPT ![r] = Idle]
      /\ pub' = reg[r].pub
      /\ salt' = salt /\ job' = job /\ verdict' = verdict
  BY DEF WritePub
<1>2. reg[r] \in RegTypes /\ reg[r] # Idle
  BY <1>1 DEF IInv, TypeOK, Idle
<1>3. reg'[r] = Idle /\ \A q \in Registrar : q # r => reg'[q] = reg[q]
  BY <1>1 DEF IInv, TypeOK
<1>4. alone' = alone /\ used' = used
  BY <1>2 DEF HRegStep, Begins
<1>5. owner' = IF alone[r] THEN reg[r].pass ELSE NoPass
  BY <1>1, <1>3 DEF HRegStep, Ends
<1>6. TypeOK'
  <2>1. reg' \in [Registrar -> RegTypes]
    BY <1>1 DEF IInv, TypeOK, RegTypes
  <2>2. pub' \in Scalars /\ owner' \in Pass \union {NoPass}
    BY <1>1, <1>2, <1>5, RegFields
  <2>3. undisturbed' \in [Prover -> BOOLEAN]
    BY Zenon DEF HRegStep
  <2> QED
    BY <1>1, <1>4, <2>1, <2>2, <2>3 DEF IInv, TypeOK
<1>7. RegInv'
  BY <1>3 DEF IInv, RegInv
<1>8. AloneInv'
  BY <1>1, <1>3, <1>4 DEF IInv, AloneInv, OthersIdle
<1>9. OwnerInv'
  <2> SUFFICES ASSUME alone[r]
               PROVE  /\ salt' \in Salt
                      /\ pub' = Secret(reg[r].pass, salt')
                      /\ \A q \in Registrar : reg'[q] = Idle
    BY <1>5 DEF OwnerInv
  <2>1. salt = reg[r].salt /\ OthersIdle(r)
    BY <1>1, <1>2 DEF IInv, AloneInv
  <2>2. pub' = Secret(reg[r].pass, reg[r].salt)
    BY <1>1, <1>2 DEF IInv, RegInv
  <2> QED
    BY <1>1, <1>2, <1>3, <2>1, <2>2, RegFields DEF OthersIdle
<1>10. ReadInv'
  <2>1. \A s \in Prover : ~undisturbed'[s]
    BY Zenon DEF HRegStep
  <2> QED
    BY <2>1 DEF ReadInv
<1>11. RespInv'
  BY <1>1 DEF IInv, RespInv
<1> QED
  BY <1>6, <1>7, <1>8, <1>9, <1>10, <1>11 DEF IInv

-----------------------------------------------------------------------------
(* The steps of an authentication *)

\* An authentication writes no file and disturbs no registration.
LEMMA AuthFrame ==
    ASSUME IInv, NEW s \in Prover, HAuthStep(s), job' \in [Prover -> JobTypes],
           verdict' \in [Prover -> {"none", "accepted", "refused", "closed"}]
    PROVE  TypeOK' /\ RegInv' /\ AloneInv' /\ OwnerInv'
<1>1. salt' = salt /\ pub' = pub /\ reg' = reg
  BY DEF HAuthStep, AuthStep, AskSalt, AskChallenge, AskVerdict, record
<1>2. alone' = alone /\ owner' = owner /\ used' = used
  BY DEF HAuthStep
<1>3. undisturbed' \in [Prover -> BOOLEAN]
  BY Zenon DEF HAuthStep, IInv, TypeOK
<1>4. TypeOK'
  BY <1>1, <1>2, <1>3 DEF IInv, TypeOK
<1>5. RegInv' /\ OwnerInv'
  BY <1>1, <1>2 DEF IInv, RegInv, OwnerInv
<1>6. AloneInv'
  BY <1>1, <1>2 DEF IInv, AloneInv, OthersIdle
<1> QED
  BY <1>4, <1>5, <1>6

\* A session that goes back to idle.
LEMMA ToIdle ==
    ASSUME IInv, NEW s \in Prover, HAuthStep(s),
           job' = [job EXCEPT ![s] = Idle],
           NEW v \in {"none", "accepted", "refused", "closed"},
           verdict' = [verdict EXCEPT ![s] = v]
    PROVE  IInv'
<1>1. job' \in [Prover -> JobTypes]
  BY DEF IInv, TypeOK, JobTypes
<1>2. verdict' \in [Prover -> {"none", "accepted", "refused", "closed"}]
  BY DEF IInv, TypeOK
<1>3. TypeOK' /\ RegInv' /\ AloneInv' /\ OwnerInv'
  BY <1>1, <1>2, AuthFrame
<1>4. job'[s] = Idle /\ \A t \in Prover : t # s => job'[t] = job[t]
  BY DEF IInv, TypeOK
<1>5. RespInv'
  BY <1>4 DEF IInv, RespInv, Idle
<1>6. ReadInv'
  <2>1. /\ salt' = salt /\ owner' = owner
        /\ \A t \in Prover : t # s => undisturbed'[t] = undisturbed[t]
    BY DEF HAuthStep, AuthStep, AskSalt, AskChallenge, AskVerdict, record,
           IInv, TypeOK
  <2> QED
    BY <1>4, <2>1 DEF IInv, ReadInv
<1> QED
  BY <1>3, <1>5, <1>6 DEF IInv

LEMMA AskSaltStep ==
    ASSUME IInv, NEW s \in Prover, HAuthStep(s), NEW p \in Pass, AskSalt(s, p)
    PROVE  IInv'
<1>1. CASE Close(s)
  BY <1>1, ToIdle DEF Close
<1>2. CASE ~Close(s)
  <2>1. PICK x \in IF salt \in Salt THEN {Secret(p, salt)} ELSE Scalars \ {0},
             R \in Scalars \ {0} :
            /\ job' = [job EXCEPT ![s] = [at |-> "commit", pass |-> p,
                                          x |-> x, R |-> R]]
            /\ verdict' = [verdict EXCEPT ![s] = "none"]
    BY <1>2 DEF AskSalt
  <2>2. x \in Scalars /\ (salt \in Salt => x = Secret(p, salt))
    BY SecretIsScalar
  <2>3. PICK e \in JobTypes : /\ job' = [job EXCEPT ![s] = e]
                             /\ e.at = "commit" /\ e.pass = p /\ e.x = x
    <3>1. [at |-> "commit", pass |-> p, x |-> x, R |-> R] \in JobTypes
      BY <2>2 DEF JobTypes
    <3> QED
      BY <2>1, <3>1
  <2>4. job' \in [Prover -> JobTypes]
    BY <2>3 DEF IInv, TypeOK
  <2>5. verdict' \in [Prover -> {"none", "accepted", "refused", "closed"}]
    BY <2>1 DEF IInv, TypeOK
  <2>6. TypeOK' /\ RegInv' /\ AloneInv' /\ OwnerInv'
    BY <2>4, <2>5, AuthFrame
  <2>7. job'[s] = e /\ \A t \in Prover : t # s => job'[t] = job[t]
    BY <2>3 DEF IInv, TypeOK
  <2>8. RespInv'
    BY <2>3, <2>7 DEF IInv, RespInv
  <2>9. ReadInv'
    <3>1. /\ salt' = salt /\ owner' = owner
          /\ \A t \in Prover : t # s => undisturbed'[t] = undisturbed[t]
      BY DEF HAuthStep, AskSalt, record, IInv, TypeOK
    <3>2. owner # NoPass => salt \in Salt
      BY DEF IInv, OwnerInv
    <3> QED
      BY <2>2, <2>3, <2>7, <3>1, <3>2 DEF IInv, ReadInv
  <2> QED
    BY <2>6, <2>8, <2>9 DEF IInv
<1> QED
  BY <1>1, <1>2

LEMMA AskChallengeStep ==
    ASSUME IInv, NEW s \in Prover, HAuthStep(s), AskChallenge(s)
    PROVE  IInv'
<1> DEFINE k == job[s].R
<1>1. PICK c \in Challenge :
          job' = [job EXCEPT ![s] =
                     [at |-> "verify", pass |-> job[s].pass, x |-> job[s].x,
                      R |-> k, c |-> c, resp |-> Response(k, c, job[s].x)]]
  BY DEF AskChallenge
<1>2. /\ job[s] # Idle /\ job[s].pass \in Pass
      /\ job[s].x \in Scalars /\ k \in Scalars
  BY JobFields DEF AskChallenge, IInv, TypeOK, Idle
<1>3. Response(k, c, job[s].x) \in Scalars
  BY <1>2, ResponseIsScalar
<1>4. PICK e \in JobTypes :
          /\ job' = [job EXCEPT ![s] = e]
          /\ e.pass = job[s].pass /\ e.x = job[s].x
          /\ e.resp = Response(e.R, e.c, e.x)
  <2> DEFINE new == [at |-> "verify", pass |-> job[s].pass, x |-> job[s].x,
                     R |-> k, c |-> c, resp |-> Response(k, c, job[s].x)]
  <2>1. new \in JobTypes
    BY <1>2, <1>3 DEF JobTypes
  <2>2. /\ new.pass = job[s].pass /\ new.x = job[s].x
        /\ new.resp = Response(new.R, new.c, new.x)
    OBVIOUS
  <2>3. job' = [job EXCEPT ![s] = new]
    BY <1>1
  <2> QED
    BY <2>1, <2>2, <2>3
<1>5. job' \in [Prover -> JobTypes]
  BY <1>4 DEF IInv, TypeOK
<1>6. verdict' = verdict /\ salt' = salt /\ owner' = owner
  BY DEF AskChallenge, record, HAuthStep
<1>7. TypeOK' /\ RegInv' /\ AloneInv' /\ OwnerInv'
  BY <1>5, <1>6, AuthFrame DEF IInv, TypeOK
<1>8. job'[s] = e /\ \A t \in Prover : t # s => job'[t] = job[t]
  BY <1>4 DEF IInv, TypeOK
<1>9. RespInv'
  BY <1>4, <1>8 DEF IInv, RespInv
<1>10. ReadInv'
  <2>1. \A t \in Prover : undisturbed'[t] => undisturbed[t]
    BY <1>2, Zenon DEF HAuthStep, IInv, TypeOK
  <2> QED
    BY <1>2, <1>4, <1>6, <1>8, <2>1 DEF IInv, ReadInv
<1> QED
  BY <1>7, <1>9, <1>10 DEF IInv

LEMMA AskVerdictStep ==
    ASSUME IInv, NEW s \in Prover, HAuthStep(s), AskVerdict(s)
    PROVE  IInv'
<1>1. PICK v \in {"none", "accepted", "refused", "closed"} :
          /\ job' = [job EXCEPT ![s] = Idle]
          /\ verdict' = [verdict EXCEPT ![s] = v]
  BY DEF AskVerdict, Solve
<1> QED
  BY <1>1, ToIdle

LEMMA CrashStep ==
    ASSUME IInv, HCrash
    PROVE  IInv'
<1>1. /\ reg' = [r \in Registrar |-> Idle]
      /\ job' = [s \in Prover |-> Idle]
      /\ verdict' = [s \in Prover |-> "closed"]
      /\ salt' = salt /\ pub' = pub
      /\ alone' = alone /\ owner' = owner
      /\ undisturbed' = undisturbed /\ used' = used
  BY DEF HCrash, Crash, record
<1>2. TypeOK'
  BY <1>1 DEF IInv, TypeOK, RegTypes, JobTypes
<1>3. RegInv' /\ AloneInv' /\ OwnerInv'
  BY <1>1 DEF IInv, RegInv, AloneInv, OwnerInv
<1>4. ReadInv' /\ RespInv'
  BY <1>1 DEF IInv, ReadInv, RespInv, Idle
<1> QED
  BY <1>2, <1>3, <1>4 DEF IInv

-----------------------------------------------------------------------------
LEMMA IInvStep == IInv /\ [HNext]_hvars => IInv'
<1> SUFFICES ASSUME IInv, [HNext]_hvars
             PROVE  IInv'
  OBVIOUS
<1>1. ASSUME NEW r \in Registrar, HRegStep(r)
      PROVE  IInv'
  <2>1. CASE \E p \in Pass, s \in Salt : Register(r, p, s)
    BY <1>1, <2>1, RegisterStep
  <2>2. CASE WriteSalt(r) \/ OpenPub(r)
    BY <1>1, <2>2, MiddleStep
  <2>3. CASE WritePub(r)
    BY <1>1, <2>3, WritePubStep
  <2> QED
    BY <1>1, <2>1, <2>2, <2>3 DEF HRegStep, RegStep
<1>2. ASSUME NEW s \in Prover, HAuthStep(s)
      PROVE  IInv'
  <2>1. CASE \E p \in Pass : AskSalt(s, p)
    BY <1>2, <2>1, AskSaltStep
  <2>2. CASE AskChallenge(s)
    BY <1>2, <2>2, AskChallengeStep
  <2>3. CASE AskVerdict(s)
    BY <1>2, <2>3, AskVerdictStep
  <2> QED
    BY <1>2, <2>1, <2>2, <2>3 DEF HAuthStep, AuthStep
<1>3. CASE HCrash
  BY <1>3, CrashStep
<1>4. CASE UNCHANGED hvars
  BY <1>4 DEF hvars, IInv, TypeOK, RegInv, AloneInv, OthersIdle, OwnerInv,
              ReadInv, RespInv
<1> QED
  BY <1>1, <1>2, <1>3, <1>4 DEF HNext

LEMMA IInvHolds == HSpec => []IInv
<1>1. HInit => IInv
  <2> SUFFICES ASSUME HInit PROVE IInv
    OBVIOUS
  <2>1. TypeOK
    BY DEF HInit, Init, TypeOK, RegTypes, JobTypes
  <2>2. RegInv /\ AloneInv /\ OwnerInv
    BY DEF HInit, Init, RegInv, AloneInv, OwnerInv
  <2>3. ReadInv /\ RespInv
    BY DEF HInit, Init, ReadInv, RespInv, Idle
  <2> QED
    BY <2>1, <2>2, <2>3 DEF IInv
<1>2. IInv /\ [HNext]_hvars => IInv'
  BY IInvStep
<1> QED
  BY <1>1, <1>2, PTL DEF HSpec

(***************************************************************************)
(* The files of a user, and what the sessions carry, stay within their     *)
(* types: in particular every response is a scalar (zk_auth.py:95) and     *)
(* every public key on disk is that of a scalar.                           *)
(***************************************************************************)
THEOREM AuthTypeCorrect == HSpec => []TypeOK
BY IInvHolds, PTL DEF IInv

(***************************************************************************)
(* Completeness for every order of the curve: an undisturbed client with   *)
(* the password of a registration that ran alone is accepted               *)
(* (resolver.cpp:49-75, client.cpp:112-176).                               *)
(***************************************************************************)
THEOREM HonestAccepted == HSpec => HonestIsAccepted
<1>1. ASSUME IInv, HNext, NEW s \in Prover,
             AskVerdict(s), undisturbed[s], job[s].pass = owner
      PROVE  verdict'[s] = "accepted"
  <2>1. job[s].at = "verify" /\ job[s] # Idle
    BY <1>1 DEF AskVerdict, Idle
  <2>2. /\ job[s].pass \in Pass /\ job[s].x \in Scalars
        /\ job[s].R \in Scalars /\ job[s].c \in Challenge
    BY <1>1, <2>1, JobFields DEF IInv, TypeOK
  <2>3. owner # NoPass
    BY <1>1, <2>2, NoPassAssumption
  <2>4. salt \in Salt /\ pub = Secret(owner, salt)
    BY <1>1, <2>3 DEF IInv, OwnerInv
  <2>5. job[s].x = pub
    BY <1>1, <2>1, <2>3, <2>4 DEF IInv, ReadInv
  <2>6. job[s].resp = Response(job[s].R, job[s].c, job[s].x)
    BY <1>1, <2>1 DEF IInv, RespInv
  <2>7. Verify(job[s].R, job[s].resp, pub, job[s].c)
    BY <2>2, <2>5, <2>6, ResponseVerifies
  <2> QED
    BY <1>1, <2>2, <2>5, <2>7 DEF AskVerdict, Solve, IInv, TypeOK
<1>2. IInv /\ [HNext]_hvars =>
          [\A s \in Prover :
              AskVerdict(s) /\ undisturbed[s] /\ job[s].pass = owner
              => verdict'[s] = "accepted"]_hvars
  BY <1>1
<1> QED
  BY <1>2, IInvHolds, PTL DEF HSpec, HonestIsAccepted

(***************************************************************************)
(* For every prime order: a client of this program with another secret     *)
(* than the registered one, from another password or from a salt replaced  *)
(* since, is refused, unless the challenge it was sent is zero modulo n    *)
(* (resolver.cpp:63-75, zk_auth.py:125-141).                               *)
(***************************************************************************)
THEOREM OtherSecretRefused == HSpec => OtherSecretIsRefused
<1>1. ASSUME IInv, NEW s \in Prover, AskVerdict(s), owner # NoPass,
             job[s].x # Secret(owner, salt), job[s].c % n # 0
      PROVE  verdict'[s] = "refused"
  <2>1. job[s].at = "verify"
    BY <1>1 DEF AskVerdict
  <2>2. /\ job[s].x \in Scalars /\ job[s].R \in Scalars
        /\ job[s].c \in Challenge
    BY <2>1, JobFields, <1>1 DEF IInv, TypeOK
  <2>3. pub \in Scalars /\ job[s].x # pub
    <3>1. owner \in Pass /\ salt \in Salt /\ pub = Secret(owner, salt)
      BY <1>1 DEF IInv, TypeOK, OwnerInv
    <3> QED
      BY <1>1, <3>1, SecretIsScalar
  <2>4. job[s].resp = Response(job[s].R, job[s].c, job[s].x)
    BY <1>1, <2>1 DEF IInv, RespInv
  <2>5. Verify(job[s].R, job[s].resp, job[s].x, job[s].c)
    BY <2>2, <2>4, ResponseVerifies
  <2>6. job[s].c % n \in Scalars
    <3>1. job[s].c \in Nat
      BY <2>2, ZkAssumption, Zenon
    <3> QED
      BY <3>1, ResidueIsScalar
  <2>7. (job[s].R + job[s].x * (job[s].c % n)) % n
        # (job[s].R + pub * (job[s].c % n)) % n
    BY <1>1, <2>2, <2>3, <2>6, Cancel
  <2>8. ~Verify(job[s].R, job[s].resp, pub, job[s].c)
    BY <2>5, <2>7 DEF Verify
  <2> QED
    BY <1>1, <2>3, <2>8 DEF AskVerdict, Solve, IInv, TypeOK
<1>2. IInv /\ [HNext]_hvars =>
          [\A s \in Prover :
              /\ AskVerdict(s)
              /\ owner # NoPass /\ job[s].x # Secret(owner, salt)
              /\ job[s].c % n # 0
              => verdict'[s] = "refused"]_hvars
  BY <1>1
<1> QED
  BY <1>2, IInvHolds, PTL DEF HSpec, OtherSecretIsRefused

=============================================================================
