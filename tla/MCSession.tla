----------------------------- MODULE MCSession ------------------------------
(***************************************************************************)
(* Session for TLC: two server keys; configurations with the certificates  *)
(* ortd may hold, one of them left over from another key and one expired;  *)
(* every kind of verifier; a dual-stack listener, an address translator    *)
(* and a socket that cannot tell its address.                              *)
(***************************************************************************)
EXTENDS Session

CONSTANTS pk1, pk2, CA

MCServerPk == {pk1, pk2}

Config(pk, certificate) == [server_pk |-> pk, certificate |-> certificate]

MCServerConfig ==
    {Config(pk1, SelfSigned(pk1)), Config(pk2, SelfSigned(pk1)),
     Config(pk2, Certificate(CA, TRUE, pk2)),
     Config(pk2, Certificate(CA, FALSE, pk2)), Config(pk2, NoCertificate)}

V4(a) == [version |-> 4, octets |-> a]
Mapped(a) == [version |-> 6, octets |-> <<"mapped", a>>]

Start(verifier, force, local, peer, direct) ==
    [verifier |-> verifier, force_1rtt |-> force, local |-> local,
     peer |-> peer, direct |-> direct]

MCSetup ==
    {Start(v, force, V4("a"), Mapped("a"), TRUE) :
        v \in {verifier_of(no_strict_cert, ca) :
                  no_strict_cert \in BOOLEAN, ca \in {NoCa, CA}},
        force \in BOOLEAN}
    \cup {Start(verifier_of(TRUE, NoCa), FALSE, local, V4("b"), FALSE) :
             local \in {V4("a"), None}}
=============================================================================
