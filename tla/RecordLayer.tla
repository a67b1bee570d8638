---------------------------- MODULE RecordLayer -----------------------------
(***************************************************************************)
(* ort-core/src/pool.rs and record.rs: the record layers of the two peers  *)
(* of one session.  Each peer has one pool per direction.  The primitives  *)
(* are ideal: a nonce is the record of what the pool hashed, and the AEAD  *)
(* opens a ciphertext only under the nonce and the associated data it was  *)
(* sealed with.  Ciphertexts are numbered in the order in which they are   *)
(* made; 0 stands for bytes that no seal call of this session returned.    *)
(* The callers may open anything, in any order and any number of times.    *)
(***************************************************************************)
EXTENDS Integers, Sequences

CONSTANTS
    Plaintext,
    MaxSeals,            \* bound on the records sealed in one direction
    MaxOpens             \* bound on the calls of open in one direction

ASSUME MaxAssumption == MaxSeals \in Nat /\ MaxOpens \in Nat

Peer == {"client", "server"}

Direction == {"c2s", "s2c"}

\* Role::send_dir and Role::recv_dir: who seals and who opens a direction.
Sealer(dir) == IF dir = "c2s" THEN "client" ELSE "server"

Opener(dir) == IF dir = "c2s" THEN "server" ELSE "client"

VARIABLES
    pool,                \* peer |-> direction |-> DirPool
    ledger,              \* what went into ciphertext 1, 2, ...
    sent,                \* history: the ciphertexts seal has returned
    opened,              \* history: the plaintexts open has returned
    failed               \* history: the directions where an open failed

vars == <<pool, ledger, sent, opened, failed>>

-----------------------------------------------------------------------------
\* DirPool::new: both peers start from the same pool key and seed.
DirPool == [counter |-> 0, absorbed |-> <<>>]

\* EntropyPool::new: a sub-pool per direction.
EntropyPool == [dir \in Direction |-> DirPool]

\* RecordLayer::new at both ends.
Init ==
    /\ pool = [p \in Peer |-> EntropyPool]
    /\ ledger = <<>>
    /\ sent = [dir \in Direction |-> <<>>]
    /\ opened = [dir \in Direction |-> <<>>]
    /\ failed = {}

\* Faulty variant: the two sub-pools are not separated by their label.
next_nonce_unlabelled(dir, p) ==
    [label |-> "pool", absorbed |-> p.absorbed, counter |-> p.counter]

\* Faulty variant: only the counter goes into the nonce.
next_nonce_no_pool(dir, p) ==
    [label |-> dir, absorbed |-> <<>>, counter |-> p.counter]

\* DirPool::next_nonce, the value: keyed hash of label, absorbed ciphertexts
\* and counter.
next_nonce(dir, p) ==
    [label |-> dir, absorbed |-> p.absorbed, counter |-> p.counter]

\* DirPool::next_nonce, the state change.
draw(p) == [p EXCEPT !.counter = @ + 1]

\* Faulty variant: the pool ignores what it is given.
absorb_nothing(p, ct) == p

absorb(p, ct) == [p EXCEPT !.absorbed = Append(@, ct)]

record_aad(dir, counter) == <<dir, counter>>

aead_seal(nonce, aad, plaintext) ==
    [nonce |-> nonce, aad |-> aad, plaintext |-> plaintext]

aead_open(nonce, aad, ct) ==
    /\ ct \in DOMAIN ledger
    /\ ledger[ct].nonce = nonce
    /\ ledger[ct].aad = aad

-----------------------------------------------------------------------------
\* Faulty variant: the ciphertext is absorbed by the opening peer only.
seal_no_absorb(dir, plaintext) ==
    LET p  == pool[Sealer(dir)][dir]
        ct == Len(ledger) + 1
    IN  /\ p.counter < MaxSeals
        /\ ledger' = Append(ledger, aead_seal(next_nonce(dir, p),
                                              record_aad(dir, p.counter),
                                              plaintext))
        /\ pool' = [pool EXCEPT ![Sealer(dir)][dir] = draw(p)]
        /\ sent' = [sent EXCEPT ![dir] = Append(@, ct)]
        /\ UNCHANGED <<opened, failed>>

seal(dir, plaintext) ==
    LET p  == pool[Sealer(dir)][dir]
        ct == Len(ledger) + 1
    IN  /\ p.counter < MaxSeals
        /\ ledger' = Append(ledger, aead_seal(next_nonce(dir, p),
                                              record_aad(dir, p.counter),
                                              plaintext))
        /\ pool' = [pool EXCEPT ![Sealer(dir)][dir] = absorb(draw(p), ct)]
        /\ sent' = [sent EXCEPT ![dir] = Append(@, ct)]
        /\ UNCHANGED <<opened, failed>>

\* open returns Ok.
OpenOk(dir, ct) ==
    LET p == pool[Opener(dir)][dir]
    IN  /\ p.counter < MaxOpens
        /\ aead_open(next_nonce(dir, p), record_aad(dir, p.counter), ct)
        /\ pool' = [pool EXCEPT ![Opener(dir)][dir] = absorb(draw(p), ct)]
        /\ opened' = [opened EXCEPT ![dir] = Append(@, ledger[ct].plaintext)]
        /\ UNCHANGED <<ledger, sent, failed>>

\* Faulty variant: a failed open leaves the pool as it was.
OpenErrNoDraw(dir, ct) ==
    LET p == pool[Opener(dir)][dir]
    IN  /\ p.counter < MaxOpens
        /\ ~aead_open(next_nonce(dir, p), record_aad(dir, p.counter), ct)
        /\ failed' = failed \cup {dir}
        /\ UNCHANGED <<pool, ledger, sent, opened>>

\* Faulty variant: a failed open absorbs what it was given.
OpenErrAbsorbs(dir, ct) ==
    LET p == pool[Opener(dir)][dir]
    IN  /\ p.counter < MaxOpens
        /\ ~aead_open(next_nonce(dir, p), record_aad(dir, p.counter), ct)
        /\ pool' = [pool EXCEPT ![Opener(dir)][dir] = absorb(draw(p), ct)]
        /\ failed' = failed \cup {dir}
        /\ UNCHANGED <<ledger, sent, opened>>

\* open returns Err: the nonce is already drawn, nothing is absorbed.
OpenErr(dir, ct) ==
    LET p == pool[Opener(dir)][dir]
    IN  /\ p.counter < MaxOpens
        /\ ~aead_open(next_nonce(dir, p), record_aad(dir, p.counter), ct)
        /\ pool' = [pool EXCEPT ![Opener(dir)][dir] = draw(p)]
        /\ failed' = failed \cup {dir}
        /\ UNCHANGED <<ledger, sent, opened>>

open(dir, ct) == OpenOk(dir, ct) \/ OpenErr(dir, ct)

Next ==
    \E dir \in Direction :
        \/ \E m \in Plaintext : seal(dir, m)
        \/ \E ct \in 0 .. Len(ledger) : open(dir, ct)

Spec == Init /\ [][Next]_vars

-----------------------------------------------------------------------------
Nonce == [label : Direction, absorbed : Seq(Nat), counter : Nat]

Sealed == [nonce : Nonce, aad : Direction \X Nat, plaintext : Plaintext]

\* What a pool has absorbed seal has made.
AbsorbedSealed ==
    \A p \in Peer, dir \in Direction :
        \A i \in DOMAIN pool[p][dir].absorbed :
            pool[p][dir].absorbed[i] \in DOMAIN ledger

\* Type invariant of the two record layers: in particular no pool absorbs
\* bytes that are not a ciphertext, which open tells before it absorbs.
TypeOK ==
    /\ pool \in [Peer -> [Direction -> [counter : Nat, absorbed : Seq(Nat)]]]
    /\ ledger \in Seq(Sealed)
    /\ sent \in [Direction -> Seq(Nat)]
    /\ opened \in [Direction -> Seq(Plaintext)]
    /\ failed \in SUBSET Direction
    /\ AbsorbedSealed

\* The plaintexts sealed in a direction, in the order of the calls.
Sent(dir) ==
    [k \in 1 .. Len(sent[dir]) |-> ledger[sent[dir][k]].plaintext]

\* Whatever is opened, what open returns in a direction is a prefix of what
\* was sealed in it: no record is lost in the middle, repeated, reordered,
\* reflected from the other direction or made up.
OpenedIsPrefix ==
    \A dir \in Direction :
        /\ Len(opened[dir]) <= Len(Sent(dir))
        /\ \A k \in 1 .. Len(opened[dir]) : opened[dir][k] = Sent(dir)[k]

\* No two records of the session are sealed under the same nonce, although
\* both peers and both directions use one AEAD key.
NonceNeverReused ==
    \A a, b \in DOMAIN ledger :
        ledger[a].nonce = ledger[b].nonce => a = b

\* After a failed open the direction is dead: open draws the nonce before it
\* authenticates, so the pools differ for good and no record opens again.
DeadAfterFailure ==
    [][\A dir \in Direction :
           dir \in failed => opened'[dir] = opened[dir]]_vars

\* While no open has failed in a direction the next record in line opens: the
\* opener is in lock-step with the sealer, whatever the other direction does.
NextRecordOpens ==
    \A dir \in Direction :
        LET p == pool[Opener(dir)][dir]
        IN  dir \notin failed /\ p.counter < Len(sent[dir])
            => aead_open(next_nonce(dir, p), record_aad(dir, p.counter),
                         sent[dir][p.counter + 1])

-----------------------------------------------------------------------------
Fifo == INSTANCE FifoChannel
            WITH Channel <- Direction, Message <- Plaintext,
                 sent <- [dir \in Direction |-> Sent(dir)],
                 received <- opened

\* Each direction is a FIFO channel that may stop but never misdelivers.
FifoSpec == Fifo!Spec
=============================================================================
