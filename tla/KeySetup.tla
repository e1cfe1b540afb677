------------------------------- MODULE KeySetup -------------------------------
(***************************************************************************)
(* The key of the server's data: Server::start, _set_up_encryption_key and *)
(* _check_encryption_key (src/Server/src/server.cpp), set_up_secret,       *)
(* check_secret and set_server_key_iv (src/Server/src/data.cpp), over the  *)
(* starts and ends of the server process. The first start encrypts a known *)
(* text under a key made of the password and keeps the cipher text in      *)
(* setup_key.bin; a later start decrypts it and compares. What the process *)
(* serves, everything it stores is encrypted under that key.               *)
(***************************************************************************)
EXTENDS Aes

CONSTANTS
    Password,   \* what the operator may type
    Hash,       \* the hash of each password
    KeyText,    \* secret_key, the text in setup_key.bin
    Others,     \* blocks that a cipher text may decrypt to under a wrong key
    Missing,    \* setup_key.bin does not exist
    Blank,      \* it is created and not written
    NoKey       \* _server_key and _server_iv of a process that has none

\* A key and iv: the hash is folded in two, and the result again.
Fold(h)   == [i \in 1 .. Len(h) \div 2 |-> (h[i] + h[Len(h)+1-i]) % 2]
Secret(p) == <<Fold(Hash[p]), Fold(Fold(Hash[p]))>>
Keys      == {Secret(p) : p \in Password}
KeyFiles  == {Enc(k, KeyText) : k \in Keys}

ASSUME KeyAssumption ==
    /\ Hash \in [Password -> Seq({0, 1})]
    /\ KeyText \in Seq(Nat)
    /\ \A b \in Others : Unpad(b) # Returned(KeyText)
    /\ Missing # Blank
    /\ {Missing, Blank} \cap KeyFiles = {}
    /\ NoKey \notin Keys

VARIABLES
    keyFile,     \* setup_key.bin
    main,        \* where the main thread is in start
    typed,       \* key_vec and iv_vec while the file is written
    serverKey,   \* _server_key and _server_iv
    written      \* the keys that stored data is encrypted under

keyVars == <<keyFile, main, typed, serverKey, written>>

-----------------------------------------------------------------------------
KeyInit ==
    /\ keyFile = Missing
    /\ main = "down"
    /\ typed = NoKey
    /\ serverKey = NoKey
    /\ written = {}

\* An empty file exists.
Start ==
    /\ main = "down"
    /\ main' = IF keyFile = Missing THEN "set up" ELSE "check"
    /\ UNCHANGED <<keyFile, typed, serverKey, written>>

\* Encrypt, and open the file.
SetUp(p) ==
    /\ main = "set up"
    /\ typed' = Secret(p)
    /\ keyFile' = Blank
    /\ main' = "write"
    /\ UNCHANGED <<serverKey, written>>

\* Mutant: the file stays open, and what was written in the buffer.
WriteKeyUnflushed ==
    /\ main = "write"
    /\ serverKey' = typed
    /\ typed' = NoKey
    /\ main' = "serving"
    /\ UNCHANGED <<keyFile, written>>

\* Write the file, keep the key, go on to serve.
WriteKey ==
    /\ main = "write"
    /\ keyFile' = Enc(typed, KeyText)
    /\ serverKey' = typed
    /\ typed' = NoKey
    /\ main' = "serving"
    /\ UNCHANGED written

\* What decrypt yields of the file; a blank one is read as any bytes.
Decrypted(k) ==
    IF keyFile = Blank THEN {Raised} \union {Unpad(b) : b \in Others}
    ELSE Decr(k, keyFile, Others)

\* Mutant: the result of check_secret is not looked at.
CheckIgnored(p) ==
    /\ main = "check"
    /\ \E d \in Decrypted(Secret(p)) :
          IF ~d.raised
          THEN main' = "serving" /\ serverKey' = Secret(p)
          ELSE main' = "down" /\ serverKey' = NoKey
    /\ UNCHANGED <<keyFile, typed, written>>

\* A wrong key throws out of start, which ends the process.
Check(p) ==
    /\ main = "check"
    /\ \E d \in Decrypted(Secret(p)) :
          IF d = Returned(KeyText)
          THEN main' = "serving" /\ serverKey' = Secret(p)
          ELSE main' = "down" /\ serverKey' = NoKey
    /\ UNCHANGED <<keyFile, typed, written>>

\* A handler stores something.
Store ==
    /\ main = "serving"
    /\ written' = written \union {serverKey}
    /\ UNCHANGED <<keyFile, main, typed, serverKey>>

\* "stop", or the end of the process at any point.
End ==
    /\ main # "down"
    /\ main' = "down"
    /\ typed' = NoKey
    /\ serverKey' = NoKey
    /\ UNCHANGED <<keyFile, written>>

StartUp == Start \/ WriteKey \/ \E p \in Password : SetUp(p) \/ Check(p)

KeyNext == StartUp \/ Store \/ End

KeySpec == KeyInit /\ [][KeyNext]_keyVars

-----------------------------------------------------------------------------
KeyTypeOK ==
    /\ keyFile \in {Missing, Blank} \union KeyFiles
    /\ main \in {"down", "set up", "write", "check", "serving"}
    /\ typed \in Keys \union {NoKey}
    /\ serverKey \in Keys \union {NoKey}
    /\ written \subseteq Keys

(***************************************************************************)
(* Everything that is stored is encrypted under one key, through every     *)
(* start with whatever password, and a server that serves has that key:    *)
(* start throws before it listens, though set_server_key_iv comes before   *)
(* the check (server.cpp:69-71, 126-128).                                  *)
(***************************************************************************)
OneKey ==
    /\ \A k, l \in written : k = l
    /\ main = "serving" => written \subseteq {serverKey}

(***************************************************************************)
(* A password under which data is stored is never refused: the key file is *)
(* whole before the first request is served, whenever the process ends     *)
(* (server.cpp:101-102, data.cpp:163-171). Without data it may be: a crash *)
(* between the creation and the write of the file leaves one that no       *)
(* password opens.                                                         *)
(***************************************************************************)
Refuses(p) == Check(p) /\ main' = "down"

PasswordOpensData == [][\A p \in Password : Refuses(p) => Secret(p) \notin written]_keyVars
=============================================================================
