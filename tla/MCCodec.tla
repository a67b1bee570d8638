------------------------------ MODULE MCCodec -------------------------------
(***************************************************************************)
(* Widths and field values for TLC: u16 has one digit and u32 two, so that *)
(* a field can be empty, as long as its prefix can say, and, for u32, long *)
(* enough to need both digits of the prefix.                               *)
(***************************************************************************)
EXTENDS Codec

MCWidth ==
    [u8 |-> 1, u16 |-> 1, u32 |-> 2, u64 |-> 2, array16 |-> 1, array32 |-> 2]

Blob(n) == [i \in 1 .. n |-> i % Base]

MCSample ==
    [u8 |-> {0, 1}, u16 |-> {1}, u64 |-> {1, Base^2 - 1},
     bytes16 |-> {<<>>, Blob(Base - 1)}, bytes32 |-> {<<>>, Blob(Base + 1)},
     array16 |-> {Blob(1)}, array32 |-> {Blob(2)}]
=============================================================================
