-------------------------------- MODULE MCWire --------------------------------
(* Instances of Wire for TLC. *)
EXTENDS WireProps

MCSizes == {0, 1, 2}
\* Small contents, and contents of about 2^32 bytes.
MCDataSizes == {0, 1, 2, 60, 65}
=============================================================================
