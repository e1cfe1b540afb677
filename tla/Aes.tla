---------------------------------- MODULE Aes ----------------------------------
(***************************************************************************)
(* enc and decr of src/CryptoService/aes.py: the padding that makes every  *)
(* plain text a whole number of blocks, its removal, and a cipher text as  *)
(* a key and the blocks behind it. unpad looks at the last byte only.      *)
(***************************************************************************)
EXTENDS Integers, Sequences

CONSTANT BlockSize   \* AES.block_size

ASSUME BlockSizeAssumption == BlockSize \in Nat \ {0}

\* What a call yields when Python raises.
Raised      == [raised |-> TRUE, bytes |-> <<>>]
Returned(b) == [raised |-> FALSE, bytes |-> b]

PadLength(data) == BlockSize - (Len(data) % BlockSize)

Pad(data) == data \o [i \in 1 .. PadLength(data) |-> PadLength(data)]

\* data[-1] raises if data is empty; data[:-0] is empty.
Unpad(data) ==
    IF data = <<>> \/ data[Len(data)] > BlockSize THEN Raised
    ELSE IF data[Len(data)] = 0 THEN Returned(<<>>)
    ELSE Returned(SubSeq(data, 1, Len(data) - data[Len(data)]))

Enc(key, plain) == [key |-> key, blocks |-> Pad(plain)]

\* Under another key the blocks decrypt to other blocks.
Decr(key, cipher, others) ==
    IF key = cipher.key THEN {Unpad(cipher.blocks)}
    ELSE {Unpad(b) : b \in others}
=============================================================================
