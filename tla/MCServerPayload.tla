-------------------------- MODULE MCServerPayload ---------------------------
(***************************************************************************)
(* Flights for TLC: genuine ones of two clients, made for a key the server *)
(* may no longer have; copies altered on the way; and flights of the       *)
(* second client with the nonce and the early data of the first one's.     *)
(***************************************************************************)
EXTENDS ServerPayload

CONSTANTS Alice, Bob, HomeIp, OtherIp, OldKey, NewKey, N1, N2, N3, TsEarly, TsLate

MCIp == {HomeIp, OtherIp}

MCServerPk == {OldKey, NewKey}

Genuine ==
    {build_payload(Alice, OldKey, HomeIp, TsEarly, N1),
     build_payload(Bob, OldKey, OtherIp, TsLate, N2)}

\* Copies of a flight with one field changed, the signature kept.
Altered(f) ==
    {[f EXCEPT !.ts_millis = TsLate + 1],
     [f EXCEPT !.src_ip = OtherIp],
     [f EXCEPT !.nonce = N3],
     [f EXCEPT !.ciphertext = kem_encapsulate(NewKey, N3).ciphertext]}

\* Flights that Bob signs around the nonce and the early data of f, with the
\* ciphertext of f, which open as f does, and with one that does not.
Shared(f) ==
    LET Signed(p) == [p EXCEPT !.client_sig = sign_client_binding(Bob, p)]
        body == [f EXCEPT !.client_pk = Bob, !.src_ip = OtherIp,
                          !.ts_millis = TsLate]
    IN  {Signed(body),
         Signed([body EXCEPT !.ciphertext = kem_encapsulate(NewKey, N3).ciphertext])}

MCFlight ==
    LET f == build_payload(Alice, OldKey, HomeIp, TsEarly, N1)
    IN  Genuine \cup Altered(f) \cup Shared(f)
=============================================================================
