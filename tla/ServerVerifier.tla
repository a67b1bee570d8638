--------------------------- MODULE ServerVerifier ---------------------------
(***************************************************************************)
(* ort-net/src/cert.rs: whether ortc trusts the KEM key of a ServerHello.  *)
(* A certificate is the record of what the checks look at: whether it      *)
(* parses, whether it is valid today, whose key signed it and the key in   *)
(* its ServerPK extension.                                                 *)
(***************************************************************************)

NoCertificate == [parses |-> FALSE]    \* an empty certificate field
NoExtension == "no ServerPK extension"

Certificate(signer, valid, bound) ==
    [parses |-> TRUE, valid |-> valid, signer |-> signer, extension |-> bound]

\* What gen-cert makes: signed by its own key and valid for centuries.
SelfSigned(server_pk) == Certificate("self", TRUE, server_pk)

TrustOnFirstUse == [strict |-> FALSE]

\* `ca' is the key of the CA file, or one of these.
NoCa == "no --ca"
UnparsableCa == "not a certificate"
Strict(ca) == [strict |-> TRUE, ca |-> ca]

\* main of ortc: --no-strict-cert, or strict with the file of --ca, if given.
verifier_of(no_strict_cert, ca) ==
    IF no_strict_cert THEN TrustOnFirstUse ELSE Strict(ca)

extract_bound_server_pk(cert) == cert.extension

\* verify_signature against the CA, or against the certificate's own key.
SignatureVerifies(ca, cert) ==
    IF ca = NoCa THEN cert.signer = "self"
                 ELSE ca # UnparsableCa /\ cert.signer = ca

\* Faulty variant: the bound key is not compared with the one presented.
verify_any_binding(verifier, server_pk, certificate) ==
    verifier.strict =>
        /\ certificate.parses /\ certificate.valid
        /\ SignatureVerifies(verifier.ca, certificate)
        /\ extract_bound_server_pk(certificate) # NoExtension

\* verify returns Ok.
verify(verifier, server_pk, certificate) ==
    verifier.strict =>
        /\ certificate.parses /\ certificate.valid
        /\ SignatureVerifies(verifier.ca, certificate)
        /\ extract_bound_server_pk(certificate) = server_pk
=============================================================================
