------------------------------- MODULE Payload ------------------------------
(***************************************************************************)
(* The KEM payload of a handshake, symbolically: ort-core connmeta.rs,     *)
(* kdf.rs and the build_payload / process_payload halves that make and     *)
(* open it.  The primitives of the suite (suite/v1.rs) are ideal: a hash,  *)
(* a signature or a ciphertext is the record of what went into it, and a   *)
(* public key stands for its pair.                                         *)
(***************************************************************************)

\* ML-KEM.  A ciphertext names the key it was made for; the shared secret
\* depends on the decapsulating key, so that a foreign ciphertext yields a
\* secret nobody else has (implicit rejection) instead of an error.
kem_decapsulate(server_pk, ct) == [dk |-> server_pk, ct |-> ct]

kem_encapsulate(server_pk, r) ==
    LET ct == [pk |-> server_pk, r |-> r]
    IN  [ciphertext |-> ct, shared |-> kem_decapsulate(server_pk, ct)]

sig_sign(key, msg) == [signer |-> key, msg |-> msg]

sig_verify(key, msg, sig) == sig = sig_sign(key, msg)

hash512(data) == [hash512 |-> data]

derive_session_keys(shared, ct) == [ikm |-> shared, salt |-> ct]

enc_key_hash(keys) == hash512(keys)

\* The connection metadata, in the order of the canonical encoding.
canonical(p) == <<p.src_ip, p.ts_millis, p.nonce>>

\* What the client signs: its connection metadata, its own key, the KEM
\* ciphertext and the sealed early data.
client_binding_msg(p) ==
    <<canonical(p), p.client_pk, p.ciphertext, p.enc_data>>

sign_client_binding(key, p) == sig_sign(key, client_binding_msg(p))

verify_client_binding(p) ==
    sig_verify(p.client_pk, client_binding_msg(p), p.client_sig)

\* Faulty variant: the tag covers the signature in place of the early data.
replay_tag_of_signature(p) == <<p.nonce, p.client_sig>>

\* The strike cache key.
replay_tag(p) == <<p.nonce, p.enc_data>>

\* Record 0 of the client-to-server pool, which the session keys and the
\* nonce determine.
SealedEarlyData(keys, nonce) == [keys |-> keys, seed |-> nonce]

\* build_payload.  `fresh' stands for both random draws, r and the nonce.
build_payload(client_pk, server_pk, src_ip, ts_millis, fresh) ==
    LET kem  == kem_encapsulate(server_pk, fresh)
        keys == derive_session_keys(kem.shared, kem.ciphertext)
        body == [client_pk |-> client_pk, ciphertext |-> kem.ciphertext,
                 src_ip |-> src_ip, ts_millis |-> ts_millis, nonce |-> fresh,
                 enc_data |-> SealedEarlyData(keys, fresh), client_sig |-> 0]
    IN  [body EXCEPT !.client_sig = sign_client_binding(client_pk, body)]

\* The keys process_payload derives for the payload p.
Keys(server_pk, p) ==
    derive_session_keys(kem_decapsulate(server_pk, p.ciphertext), p.ciphertext)

\* Faulty variant: the result of opening the early data is ignored.
OpensAnything(server_pk, p) == TRUE

\* The last step of process_payload: decapsulate, derive, rebuild the pool
\* from the nonce and open the early data.
Opens(server_pk, p) ==
    p.enc_data = SealedEarlyData(Keys(server_pk, p), p.nonce)
=============================================================================
