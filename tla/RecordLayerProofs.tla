------------------------- MODULE RecordLayerProofs --------------------------
(***************************************************************************)
(* Proofs about the record layers of a session, for every set of           *)
(* plaintexts and every number of calls.                                   *)
(***************************************************************************)
EXTENDS RecordLayer, SequenceTheorems, TLAPS

-----------------------------------------------------------------------------
(***************************************************************************)
(* Facts about the operators.                                              *)
(***************************************************************************)

\* The two ends of a direction are different peers.
LEMMA EndsDiffer ==
    ASSUME NEW dir \in Direction
    PROVE  /\ Sealer(dir) \in Peer
           /\ Opener(dir) \in Peer
           /\ Sealer(dir) # Opener(dir)
BY DEF Sealer, Opener, Peer, Direction

\* Updating one sub-pool leaves every other one alone.
LEMMA PoolUpdate ==
    ASSUME TypeOK, NEW p \in Peer, NEW dir \in Direction, NEW x,
           pool' = [pool EXCEPT ![p][dir] = x]
    PROVE  /\ pool'[p][dir] = x
           /\ \A q \in Peer, d \in Direction :
                  q # p \/ d # dir => pool'[q][d] = pool[q][d]
BY DEF TypeOK

\* The same for every pool the type invariant describes.
LEMMA PoolType ==
    ASSUME TypeOK, NEW p \in Peer, NEW dir \in Direction,
           NEW x \in [counter : Nat, absorbed : Seq(Nat)],
           pool' = [pool EXCEPT ![p][dir] = x]
    PROVE  pool' \in [Peer -> [Direction -> [counter : Nat, absorbed : Seq(Nat)]]]
<1>1. pool[p] \in [Direction -> [counter : Nat, absorbed : Seq(Nat)]]
  BY DEF TypeOK
<1>2. [pool[p] EXCEPT ![dir] = x]
        \in [Direction -> [counter : Nat, absorbed : Seq(Nat)]]
  BY <1>1
<1>3. pool' = [pool EXCEPT ![p] = [pool[p] EXCEPT ![dir] = x]]
  OBVIOUS
<1> QED
  BY <1>2, <1>3 DEF TypeOK

\* Drawing a nonce and absorbing a ciphertext.
LEMMA PoolOps ==
    ASSUME NEW p \in [counter : Nat, absorbed : Seq(Nat)], NEW ct \in Nat
    PROVE  /\ draw(p) \in [counter : Nat, absorbed : Seq(Nat)]
           /\ draw(p).counter = p.counter + 1
           /\ draw(p).absorbed = p.absorbed
           /\ absorb(draw(p), ct) \in [counter : Nat, absorbed : Seq(Nat)]
           /\ absorb(draw(p), ct).counter = p.counter + 1
           /\ absorb(draw(p), ct).absorbed = Append(p.absorbed, ct)
<1>1. /\ draw(p) \in [counter : Nat, absorbed : Seq(Nat)]
      /\ draw(p).counter = p.counter + 1
      /\ draw(p).absorbed = p.absorbed
  BY DEF draw
<1>2. Append(p.absorbed, ct) \in Seq(Nat)
  OBVIOUS
<1> QED
  BY <1>1, <1>2 DEF absorb

\* A sub-pool that absorbs a sealed ciphertext, or nothing, keeps
\* AbsorbedSealed.
LEMMA AbsorbStep ==
    ASSUME TypeOK, NEW p \in Peer, NEW dir \in Direction, NEW x,
           pool' = [pool EXCEPT ![p][dir] = x],
           DOMAIN ledger \subseteq DOMAIN ledger',
           \/ x.absorbed = pool[p][dir].absorbed
           \/ \E ct \in DOMAIN ledger' :
                 x.absorbed = Append(pool[p][dir].absorbed, ct)
    PROVE  AbsorbedSealed'
<1> SUFFICES ASSUME NEW q \in Peer, NEW d \in Direction,
                    NEW i \in DOMAIN pool'[q][d].absorbed
             PROVE  pool'[q][d].absorbed[i] \in DOMAIN ledger'
  BY DEF AbsorbedSealed
<1>0. /\ pool'[p][dir] = x
      /\ q # p \/ d # dir => pool'[q][d] = pool[q][d]
  BY DEF TypeOK
<1>1. \A k \in DOMAIN pool[q][d].absorbed :
          pool[q][d].absorbed[k] \in DOMAIN ledger'
  BY DEF TypeOK, AbsorbedSealed
<1>2. CASE q # p \/ d # dir
  BY <1>0, <1>1, <1>2
<1>3. CASE q = p /\ d = dir
  <2>1. pool'[q][d] = x
    BY <1>0, <1>3, Zenon
  <2>2. CASE x.absorbed = pool[p][dir].absorbed
    <3>1. /\ i \in DOMAIN pool[q][d].absorbed
          /\ x.absorbed[i] = pool[q][d].absorbed[i]
      BY <1>3, <2>1, <2>2, Zenon
    <3> QED BY <1>1, <2>1, <3>1, Zenon
  <2>3. ASSUME NEW ct \in DOMAIN ledger',
               x.absorbed = Append(pool[p][dir].absorbed, ct)
        PROVE  pool'[q][d].absorbed[i] \in DOMAIN ledger'
    <3>1. PICK a \in Seq(Nat) : a = pool[p][dir].absorbed
      BY DEF TypeOK
    <3>2. x.absorbed[i] \in {a[k] : k \in DOMAIN a} \cup {ct}
      <4>1. x.absorbed = Append(a, ct) /\ i \in DOMAIN x.absorbed
        BY <2>1, <2>3, <3>1
      <4> QED BY <4>1
    <3> QED BY <1>1, <1>3, <2>1, <3>1, <3>2
  <2> QED BY <2>2, <2>3
<1> QED BY <1>2, <1>3

-----------------------------------------------------------------------------
(***************************************************************************)
(* Type correctness.                                                       *)
(***************************************************************************)

\* Every call keeps the types.
LEMMA TypeStep ==
    ASSUME TypeOK, [Next]_vars
    PROVE  TypeOK'
<1>1. ASSUME NEW dir \in Direction, NEW m \in Plaintext, seal(dir, m)
      PROVE  TypeOK'
  <2> DEFINE p  == pool[Sealer(dir)][dir]
             ct == Len(ledger) + 1
  <2>1. /\ p \in [counter : Nat, absorbed : Seq(Nat)]
        /\ ct \in Nat
        /\ ledger \in Seq(Sealed)
        /\ sent \in [Direction -> Seq(Nat)]
    BY EndsDiffer DEF TypeOK
  <2>2. pool' \in [Peer -> [Direction -> [counter : Nat, absorbed : Seq(Nat)]]]
    BY <1>1, <2>1, EndsDiffer, PoolOps, PoolType DEF seal
  <2>3. aead_seal(next_nonce(dir, p), record_aad(dir, p.counter), m) \in Sealed
    BY <2>1 DEF aead_seal, next_nonce, record_aad, Sealed, Nonce
  <2>4. ledger' \in Seq(Sealed)
    BY <1>1, <2>1, <2>3 DEF seal
  <2>5. Append(sent[dir], ct) \in Seq(Nat)
    BY <2>1
  <2>6. sent' \in [Direction -> Seq(Nat)]
    BY <1>1, <2>1, <2>5 DEF seal
  <2>7. DOMAIN ledger \subseteq DOMAIN ledger' /\ ct \in DOMAIN ledger'
    BY <1>1, <2>1, <2>3 DEF seal
  <2>8. AbsorbedSealed'
    BY <1>1, <2>1, <2>7, EndsDiffer, PoolOps, AbsorbStep DEF seal
  <2> QED
    BY <1>1, <2>2, <2>4, <2>6, <2>8 DEF seal, TypeOK
<1>2. ASSUME NEW dir \in Direction, NEW ct \in 0 .. Len(ledger), OpenOk(dir, ct)
      PROVE  TypeOK'
  <2> DEFINE p == pool[Opener(dir)][dir]
  <2>1. /\ p \in [counter : Nat, absorbed : Seq(Nat)]
        /\ ledger \in Seq(Sealed)
        /\ opened \in [Direction -> Seq(Plaintext)]
        /\ ct \in Nat
    BY EndsDiffer DEF TypeOK
  <2>2. pool' \in [Peer -> [Direction -> [counter : Nat, absorbed : Seq(Nat)]]]
    BY <1>2, <2>1, EndsDiffer, PoolOps, PoolType DEF OpenOk
  <2>3. ledger[ct].plaintext \in Plaintext
    <3>1. ct \in DOMAIN ledger
      BY <1>2 DEF OpenOk, aead_open
    <3>2. ledger[ct] \in Sealed
      BY <2>1, <3>1
    <3> QED
      BY <3>2 DEF Sealed
  <2>4. Append(opened[dir], ledger[ct].plaintext) \in Seq(Plaintext)
    BY <2>1, <2>3
  <2>5. opened' \in [Direction -> Seq(Plaintext)]
    BY <1>2, <2>1, <2>4 DEF OpenOk
  <2>6. AbsorbedSealed'
    <3>1. ct \in DOMAIN ledger' /\ DOMAIN ledger' = DOMAIN ledger
      BY <1>2 DEF OpenOk, aead_open
    <3> QED BY <1>2, <2>1, <3>1, EndsDiffer, PoolOps, AbsorbStep DEF OpenOk
  <2> QED
    BY <1>2, <2>2, <2>5, <2>6 DEF OpenOk, TypeOK
<1>3. ASSUME NEW dir \in Direction, NEW ct \in 0 .. Len(ledger), OpenErr(dir, ct)
      PROVE  TypeOK'
  <2>1. pool[Opener(dir)][dir] \in [counter : Nat, absorbed : Seq(Nat)]
    BY EndsDiffer DEF TypeOK
  <2>2. draw(pool[Opener(dir)][dir]) \in [counter : Nat, absorbed : Seq(Nat)]
    BY <2>1 DEF draw
  <2>3. pool' \in [Peer -> [Direction -> [counter : Nat, absorbed : Seq(Nat)]]]
    BY <1>3, <2>2, EndsDiffer, PoolType DEF OpenErr
  <2>4. AbsorbedSealed'
    <3>1. /\ draw(pool[Opener(dir)][dir]).absorbed
               = pool[Opener(dir)][dir].absorbed
          /\ DOMAIN ledger' = DOMAIN ledger
      BY <1>3, <2>1 DEF draw, OpenErr
    <3> QED BY <1>3, <3>1, EndsDiffer, AbsorbStep DEF OpenErr
  <2> QED
    BY <1>3, <2>3, <2>4 DEF OpenErr, TypeOK
<1>4. CASE UNCHANGED vars
  BY <1>4 DEF vars, TypeOK, AbsorbedSealed
<1> QED
  BY <1>1, <1>2, <1>3, <1>4 DEF Next, open

\* The initial pools, ledger and histories have their types.
LEMMA TypeInit ==
    ASSUME Init
    PROVE  TypeOK
<1>1. DirPool \in [counter : Nat, absorbed : Seq(Nat)]
  BY DEF DirPool
<1>2. AbsorbedSealed
  BY DEF Init, EntropyPool, DirPool, AbsorbedSealed
<1> QED
  BY <1>1, <1>2 DEF Init, EntropyPool, TypeOK

\* The pools, the ledger and the histories keep their types.
THEOREM TypeCorrect == Spec => []TypeOK
BY TypeInit, TypeStep, PTL DEF Spec

-----------------------------------------------------------------------------
(***************************************************************************)
(* The inductive invariant: first its parts, as predicates on values, and  *)
(* how they survive when a ciphertext is added.                            *)
(***************************************************************************)

\* Ciphertext s[k] was sealed under counter k - 1, after s[1], ..., s[k - 1].
Line(dir, k, s, L) ==
    /\ s[k] \in DOMAIN L
    /\ L[s[k]].aad = <<dir, k - 1>>
    /\ L[s[k]].nonce.label = dir
    /\ L[s[k]].nonce.counter = k - 1
    /\ Len(L[s[k]].nonce.absorbed) = k - 1
    /\ \A i \in 1 .. k - 1 : L[s[k]].nonce.absorbed[i] = s[i]

InLine(dir, s, L) == \A k \in 1 .. Len(s) : Line(dir, k, s, L)

\* An opener that has absorbed a and returned o has followed the line s.
Follows(a, o, s, L) ==
    /\ Len(a) <= Len(s)
    /\ Len(o) = Len(a)
    /\ \A i \in 1 .. Len(a) : a[i] = s[i] /\ o[i] = L[s[i]].plaintext

\* Appending one element to a sequence, pointwise.
LEMMA AppendFacts ==
    ASSUME NEW S, NEW q \in Seq(S), NEW x \in S
    PROVE  /\ Append(q, x) \in Seq(S)
           /\ Len(q) \in Nat
           /\ DOMAIN q = 1 .. Len(q)
           /\ Len(Append(q, x)) = Len(q) + 1
           /\ DOMAIN Append(q, x) = 1 .. Len(q) + 1
           /\ \A i \in 1 .. Len(q) : Append(q, x)[i] = q[i]
           /\ Append(q, x)[Len(q) + 1] = x
           /\ \A i \in 1 .. Len(q) + 1 : i \in 1 .. Len(q) \/ i = Len(q) + 1
           /\ Len(q) + 1 \in 1 .. Len(q) + 1
           /\ 1 .. Len(q) \subseteq 1 .. Len(q) + 1
OBVIOUS

\* A new ledger entry leaves a line alone.
LEMMA LineKeeps ==
    ASSUME NEW dir, NEW s \in Seq(Nat), NEW L \in Seq(Sealed), NEW e \in Sealed,
           InLine(dir, s, L)
    PROVE  InLine(dir, s, Append(L, e))
<1>1. /\ DOMAIN L \subseteq DOMAIN Append(L, e)
      /\ \A c \in DOMAIN L : Append(L, e)[c] = L[c]
  BY AppendFacts
<1>2. ASSUME NEW k \in 1 .. Len(s)
      PROVE  Line(dir, k, s, Append(L, e))
  <2>1. Line(dir, k, s, L)
    BY DEF InLine
  <2>2. /\ s[k] \in DOMAIN Append(L, e)
        /\ Append(L, e)[s[k]] = L[s[k]]
    BY <1>1, <2>1 DEF Line
  <2> QED
    BY <2>1, <2>2 DEF Line
<1> QED
  BY <1>2 DEF InLine

\* A ciphertext sealed after a whole line extends it.
LEMMA LineGrows ==
    ASSUME NEW dir, NEW s \in Seq(Nat), NEW L \in Seq(Sealed), NEW e \in Sealed,
           InLine(dir, s, L),
           e.aad = <<dir, Len(s)>>, e.nonce.label = dir,
           e.nonce.counter = Len(s), e.nonce.absorbed = s
    PROVE  InLine(dir, Append(s, Len(L) + 1), Append(L, e))
<1> DEFINE ct == Len(L) + 1
           n  == Len(s)
           t  == Append(s, ct)
           M  == Append(L, e)
<1>1. ct \in Nat
  BY AppendFacts
<1>2. /\ n \in Nat
      /\ Len(t) = n + 1
      /\ \A i \in 1 .. n : t[i] = s[i]
      /\ t[n + 1] = ct
      /\ \A i \in 1 .. n + 1 : i \in 1 .. n \/ i = n + 1
  BY <1>1, AppendFacts
<1>3. /\ M[ct] = e
      /\ ct \in DOMAIN M
  BY AppendFacts
<1>4. ASSUME NEW k \in 1 .. n
      PROVE  Line(dir, k, t, M)
  <2>1. Line(dir, k, s, M)
    BY LineKeeps DEF InLine
  <2>2. t[k] = s[k] /\ \A i \in 1 .. k - 1 : t[i] = s[i]
    BY <1>2
  <2> HIDE DEF t, M
  <2> QED
    BY <2>1, <2>2 DEF Line
<1>5. Line(dir, n + 1, t, M)
  <2>1. (n + 1) - 1 = n
    BY <1>2
  <2>2. M[t[n + 1]] = e /\ t[n + 1] \in DOMAIN M
    BY <1>2, <1>3
  <2> HIDE DEF t, M, ct
  <2> QED
    BY <1>2, <2>1, <2>2 DEF Line
<1> HIDE DEF t, M
<1>6. InLine(dir, t, M)
  BY <1>2, <1>4, <1>5 DEF InLine
<1> QED
  BY <1>6 DEF t, M

\* A new ledger entry leaves an opener's progress alone.
LEMMA FollowsKeeps ==
    ASSUME NEW dir, NEW a \in Seq(Nat), NEW o \in Seq(Plaintext),
           NEW s \in Seq(Nat), NEW L \in Seq(Sealed), NEW e \in Sealed,
           InLine(dir, s, L), Follows(a, o, s, L)
    PROVE  Follows(a, o, s, Append(L, e))
<1>1. \A c \in DOMAIN L : Append(L, e)[c] = L[c]
  BY AppendFacts
<1>2. Len(a) \in Nat /\ Len(s) \in Nat /\ Len(a) <= Len(s)
  BY DEF Follows
<1>3. \A i \in 1 .. Len(a) : i \in 1 .. Len(s)
  BY <1>2
<1>4. \A i \in 1 .. Len(a) : s[i] \in DOMAIN L
  BY <1>3 DEF InLine, Line
<1> QED
  BY <1>1, <1>4 DEF Follows

\* A longer line leaves an opener's progress alone.
LEMMA FollowsGrows ==
    ASSUME NEW a \in Seq(Nat), NEW o \in Seq(Plaintext), NEW s \in Seq(Nat),
           NEW L, NEW ct \in Nat, Follows(a, o, s, L)
    PROVE  Follows(a, o, Append(s, ct), L)
<1>1. Len(a) \in Nat /\ Len(s) \in Nat /\ Len(a) <= Len(s)
  BY DEF Follows
<1>2. /\ Len(Append(s, ct)) = Len(s) + 1
      /\ \A i \in 1 .. Len(a) : Append(s, ct)[i] = s[i]
  BY <1>1, AppendFacts
<1>3. Len(a) <= Len(Append(s, ct))
  BY <1>1, <1>2
<1> QED
  BY <1>2, <1>3 DEF Follows

\* Opening the next ciphertext in line is progress.
LEMMA FollowsOpens ==
    ASSUME NEW a \in Seq(Nat), NEW o \in Seq(Plaintext), NEW s \in Seq(Nat),
           NEW L, Follows(a, o, s, L), Len(a) + 1 \in 1 .. Len(s),
           L[s[Len(a) + 1]].plaintext \in Plaintext
    PROVE  Follows(Append(a, s[Len(a) + 1]),
                   Append(o, L[s[Len(a) + 1]].plaintext), s, L)
<1> DEFINE n == Len(a)
           b == Append(a, s[n + 1])
           q == Append(o, L[s[n + 1]].plaintext)
<1>1. s[n + 1] \in Nat
  OBVIOUS
<1>2. /\ n \in Nat
      /\ Len(b) = n + 1
      /\ \A i \in 1 .. n : b[i] = a[i]
      /\ b[n + 1] = s[n + 1]
      /\ \A i \in 1 .. n + 1 : i \in 1 .. n \/ i = n + 1
  BY <1>1, AppendFacts
<1>3. Len(o) = n
  BY DEF Follows
<1>4. /\ Len(q) = n + 1
      /\ \A i \in 1 .. n : q[i] = o[i]
      /\ q[n + 1] = L[s[n + 1]].plaintext
  BY <1>3, AppendFacts
<1>5. n + 1 <= Len(s)
  BY <1>2
<1> HIDE DEF b, q
<1>6. \A i \in 1 .. n + 1 : b[i] = s[i] /\ q[i] = L[s[i]].plaintext
  BY <1>2, <1>4 DEF Follows
<1>7. Follows(b, q, s, L)
  BY <1>2, <1>4, <1>5, <1>6 DEF Follows
<1> QED
  BY <1>7 DEF b, q

-----------------------------------------------------------------------------
(***************************************************************************)
(* The invariant on states.                                                *)
(***************************************************************************)

\* The sealer has drawn one nonce for, and absorbed, every ciphertext it
\* returned.
SealerAt(dir) ==
    /\ pool[Sealer(dir)][dir].absorbed = sent[dir]
    /\ pool[Sealer(dir)][dir].counter = Len(sent[dir])

\* The opener's counter runs ahead of what it absorbed exactly when an open
\* has failed.
Lockstep(dir) ==
    LET p == pool[Opener(dir)][dir]
    IN  IF dir \in failed THEN p.counter > Len(p.absorbed)
                          ELSE p.counter = Len(p.absorbed)

DirInv(dir) ==
    /\ SealerAt(dir)
    /\ InLine(dir, sent[dir], ledger)
    /\ Follows(pool[Opener(dir)][dir].absorbed, opened[dir], sent[dir], ledger)
    /\ Lockstep(dir)

\* Ciphertext ct is in the line of its direction where its counter says.
PlacedAt(ct, s, L) ==
    LET dir == L[ct].nonce.label
        k   == L[ct].nonce.counter + 1
    IN  k \in 1 .. Len(s[dir]) /\ s[dir][k] = ct

Placed == \A ct \in DOMAIN ledger : PlacedAt(ct, sent, ledger)

Inv ==
    /\ TypeOK
    /\ Placed
    /\ \A dir \in Direction : DirInv(dir)

\* The types of one direction's state.
LEMMA DirTypes ==
    ASSUME TypeOK, NEW dir \in Direction
    PROVE  /\ pool[Sealer(dir)][dir] \in [counter : Nat, absorbed : Seq(Nat)]
           /\ pool[Opener(dir)][dir] \in [counter : Nat, absorbed : Seq(Nat)]
           /\ pool[Opener(dir)][dir].counter \in Nat
           /\ pool[Opener(dir)][dir].absorbed \in Seq(Nat)
           /\ Len(pool[Opener(dir)][dir].absorbed) \in Nat
           /\ sent[dir] \in Seq(Nat)
           /\ Len(sent[dir]) \in Nat
           /\ opened[dir] \in Seq(Plaintext)
           /\ ledger \in Seq(Sealed)
           /\ Len(ledger) \in Nat
<1>1. /\ pool[Sealer(dir)][dir] \in [counter : Nat, absorbed : Seq(Nat)]
      /\ pool[Opener(dir)][dir] \in [counter : Nat, absorbed : Seq(Nat)]
  BY EndsDiffer DEF TypeOK
<1>2. /\ pool[Opener(dir)][dir].counter \in Nat
      /\ pool[Opener(dir)][dir].absorbed \in Seq(Nat)
  BY <1>1
<1>3. sent[dir] \in Seq(Nat) /\ opened[dir] \in Seq(Plaintext)
  BY DEF TypeOK
<1>4. ledger \in Seq(Sealed)
  BY DEF TypeOK
<1> QED
  BY <1>1, <1>2, <1>3, <1>4, LenProperties

\* The invariant holds before any record is sealed.
LEMMA InvInit ==
    ASSUME Init
    PROVE  Inv
<1>1. TypeOK
  BY TypeInit
<1>2. Placed
  BY DEF Init, EntropyPool, Placed
<1>3. ASSUME NEW dir \in Direction
      PROVE  DirInv(dir)
  <2>1. /\ pool[Sealer(dir)][dir] = DirPool
        /\ pool[Opener(dir)][dir] = DirPool
    BY EndsDiffer DEF Init, EntropyPool
  <2>2. sent[dir] = <<>> /\ opened[dir] = <<>> /\ dir \notin failed
    BY DEF Init, EntropyPool
  <2>3. DirPool.counter = 0 /\ DirPool.absorbed = <<>>
    BY DEF DirPool
  <2>4. SealerAt(dir) /\ Lockstep(dir)
    BY <2>1, <2>2, <2>3 DEF SealerAt, Lockstep
  <2>5. InLine(dir, sent[dir], ledger)
    BY <2>2 DEF InLine
  <2>6. Follows(<<>>, <<>>, <<>>, ledger)
    BY DEF Follows
  <2> QED
    BY <2>1, <2>2, <2>3, <2>4, <2>5, <2>6 DEF DirInv
<1> QED
  BY <1>1, <1>2, <1>3 DEF Inv

\* A ciphertext that opens is the next one in line, and no open has failed
\* before in its direction.
LEMMA OpensInLine ==
    ASSUME Inv, NEW dir \in Direction, NEW ct,
           aead_open(next_nonce(dir, pool[Opener(dir)][dir]),
                     record_aad(dir, pool[Opener(dir)][dir].counter), ct)
    PROVE  /\ ct \in DOMAIN ledger
           /\ dir \notin failed
           /\ Len(pool[Opener(dir)][dir].absorbed) + 1 \in 1 .. Len(sent[dir])
           /\ sent[dir][Len(pool[Opener(dir)][dir].absorbed) + 1] = ct
<1> DEFINE p == pool[Opener(dir)][dir]
           c == p.counter
           n == Len(p.absorbed)
<1>1. c \in Nat /\ n \in Nat
  BY DirTypes DEF Inv
<1>2. ct \in DOMAIN ledger /\ ledger[ct].nonce = next_nonce(dir, p)
  BY DEF aead_open
<1>3. /\ ledger[ct].nonce.label = dir
      /\ ledger[ct].nonce.counter = c
      /\ ledger[ct].nonce.absorbed = p.absorbed
  BY <1>2 DEF next_nonce
<1>4. c + 1 \in 1 .. Len(sent[dir]) /\ sent[dir][c + 1] = ct
  BY <1>2, <1>3 DEF Inv, Placed, PlacedAt
<1>5. Line(dir, c + 1, sent[dir], ledger)
  BY <1>4 DEF Inv, DirInv, InLine
<1>6. n = (c + 1) - 1
  BY <1>3, <1>4, <1>5 DEF Line
<1>7. c = n
  BY <1>1, <1>6
<1>8. dir \notin failed
  <2>1. Lockstep(dir)
    BY DEF Inv, DirInv
  <2> HIDE DEF c, n
  <2>2. dir \in failed => c > n
    BY <2>1 DEF Lockstep, c, n
  <2> QED
    BY <1>1, <1>7, <2>2
<1> QED
  BY <1>2, <1>4, <1>7, <1>8

\* seal keeps the invariant.
LEMMA InvSeal ==
    ASSUME Inv, TypeOK', NEW dir \in Direction, NEW m \in Plaintext, seal(dir, m)
    PROVE  Inv'
<1> DEFINE p  == pool[Sealer(dir)][dir]
           ct == Len(ledger) + 1
           e  == aead_seal(next_nonce(dir, p), record_aad(dir, p.counter), m)
<1>1. /\ p \in [counter : Nat, absorbed : Seq(Nat)]
      /\ ledger \in Seq(Sealed)
      /\ Len(ledger) \in Nat
      /\ ct \in Nat
      /\ sent[dir] \in Seq(Nat)
      /\ Len(sent[dir]) \in Nat
  BY DirTypes DEF Inv
<1>2. p.absorbed = sent[dir] /\ p.counter = Len(sent[dir])
  BY DEF Inv, DirInv, SealerAt
<1>3. /\ e \in Sealed
      /\ e.aad = <<dir, Len(sent[dir])>>
      /\ e.nonce.label = dir
      /\ e.nonce.counter = Len(sent[dir])
      /\ e.nonce.absorbed = sent[dir]
  <2>1. next_nonce(dir, p) \in Nonce
    BY <1>1 DEF next_nonce, Nonce
  <2>2. record_aad(dir, p.counter) \in Direction \X Nat
    BY <1>1 DEF record_aad
  <2>3. e \in Sealed
    BY <2>1, <2>2 DEF aead_seal, Sealed
  <2> QED
    BY <1>2, <2>3 DEF aead_seal, next_nonce, record_aad
<1>4. /\ ledger' = Append(ledger, e)
      /\ opened' = opened
      /\ failed' = failed
      /\ pool' = [pool EXCEPT ![Sealer(dir)][dir] = absorb(draw(p), ct)]
      /\ sent' = [sent EXCEPT ![dir] = Append(@, ct)]
  BY DEF seal
<1> HIDE DEF e
<1>5. /\ \A d \in Direction : d # dir => sent'[d] = sent[d]
      /\ sent'[dir] = Append(sent[dir], ct)
  BY <1>4 DEF Inv, TypeOK
<1>6. pool'[Sealer(dir)][dir] = absorb(draw(p), ct)
  BY <1>4, EndsDiffer DEF Inv, TypeOK
<1>7. ASSUME NEW d \in Direction
      PROVE  pool'[Opener(d)][d] = pool[Opener(d)][d]
  <2>1. Opener(d) \in Peer /\ (Opener(d) # Sealer(dir) \/ d # dir)
    BY EndsDiffer
  <2> QED
    BY <1>4, <2>1, EndsDiffer, PoolUpdate DEF Inv
<1>8. ASSUME NEW d \in Direction, d # dir
      PROVE  pool'[Sealer(d)][d] = pool[Sealer(d)][d]
  BY <1>4, <1>8, EndsDiffer, PoolUpdate DEF Inv
<1>9. Placed'
  <2>1. /\ DOMAIN ledger' = 1 .. Len(ledger) + 1
        /\ DOMAIN ledger = 1 .. Len(ledger)
        /\ \A c \in DOMAIN ledger : ledger'[c] = ledger[c]
        /\ ledger'[ct] = e
        /\ \A c \in DOMAIN ledger' : c \in DOMAIN ledger \/ c = ct
    BY <1>1, <1>3, <1>4, AppendFacts
  <2>2. /\ Len(sent'[dir]) = Len(sent[dir]) + 1
        /\ \A k \in 1 .. Len(sent[dir]) : sent'[dir][k] = sent[dir][k]
        /\ sent'[dir][Len(sent[dir]) + 1] = ct
        /\ 1 .. Len(sent[dir]) \subseteq 1 .. Len(sent'[dir])
        /\ Len(sent[dir]) + 1 \in 1 .. Len(sent'[dir])
    BY <1>1, <1>5, AppendFacts
  <2>3. ASSUME NEW c \in DOMAIN ledger
        PROVE  PlacedAt(c, sent', ledger')
    <3>1. PlacedAt(c, sent, ledger) /\ ledger'[c] = ledger[c]
      BY <2>1 DEF Inv, Placed
    <3>2. ledger[c] \in Sealed
      BY <1>1
    <3>3. ledger[c].nonce.label \in Direction
      BY <3>2 DEF Sealed, Nonce
    <3>4. CASE ledger[c].nonce.label = dir
      BY <2>2, <3>1, <3>4 DEF PlacedAt
    <3>5. CASE ledger[c].nonce.label # dir
      BY <1>5, <3>1, <3>3, <3>5 DEF PlacedAt
    <3> QED
      BY <3>4, <3>5
  <2>4. PlacedAt(ct, sent', ledger')
    BY <1>3, <2>1, <2>2 DEF PlacedAt
  <2> QED
    BY <2>1, <2>3, <2>4 DEF Placed
<1>10. ASSUME NEW d \in Direction
       PROVE  DirInv(d)'
  <2>1. /\ sent[d] \in Seq(Nat)
        /\ opened[d] \in Seq(Plaintext)
        /\ pool[Opener(d)][d].absorbed \in Seq(Nat)
        /\ DirInv(d)
    BY DirTypes DEF Inv
  <2>2. Lockstep(d)'
    BY <1>4, <1>7, <2>1 DEF DirInv, Lockstep
  <2>3. Follows(pool[Opener(d)][d].absorbed, opened[d], sent[d], ledger')
    BY <1>1, <1>3, <1>4, <2>1, FollowsKeeps DEF DirInv
  <2>4. CASE d = dir
    <3>1. InLine(d, sent'[d], ledger')
      <4>1. InLine(dir, sent[dir], ledger)
        BY <2>1, <2>4 DEF DirInv
      <4>2. InLine(dir, Append(sent[dir], Len(ledger) + 1), Append(ledger, e))
        BY <1>1, <1>3, <4>1, LineGrows
      <4> QED
        BY <1>4, <1>5, <2>4, <4>2
    <3>2. Follows(pool[Opener(d)][d].absorbed, opened[d], sent'[d], ledger')
      BY <1>1, <1>5, <2>1, <2>3, <2>4, FollowsGrows
    <3>3. SealerAt(d)'
      <4>1. absorb(draw(p), ct).absorbed = Append(p.absorbed, ct)
        BY <1>1, PoolOps
      <4>2. absorb(draw(p), ct).counter = p.counter + 1
        BY <1>1, PoolOps
      <4>3. Len(Append(sent[dir], ct)) = Len(sent[dir]) + 1
        BY <1>1, AppendFacts
      <4> QED
        BY <1>2, <1>5, <1>6, <2>4, <4>1, <4>2, <4>3 DEF SealerAt
    <3> QED
      BY <1>4, <1>7, <2>2, <3>1, <3>2, <3>3 DEF DirInv
  <2>5. CASE d # dir
    <3>1. sent'[d] = sent[d] /\ pool'[Sealer(d)][d] = pool[Sealer(d)][d]
      BY <1>5, <1>8, <2>5
    <3>2. InLine(d, sent[d], ledger')
      BY <1>1, <1>3, <1>4, <2>1, LineKeeps DEF DirInv
    <3>3. SealerAt(d)'
      BY <2>1, <3>1 DEF DirInv, SealerAt
    <3> QED
      BY <1>4, <1>7, <2>2, <2>3, <3>1, <3>2, <3>3 DEF DirInv
  <2> QED
    BY <2>4, <2>5
<1> QED
  BY <1>9, <1>10 DEF Inv

\* A successful open keeps the invariant.
LEMMA InvOpenOk ==
    ASSUME Inv, TypeOK', NEW dir \in Direction, NEW ct \in 0 .. Len(ledger),
           OpenOk(dir, ct)
    PROVE  Inv'
<1> DEFINE p == pool[Opener(dir)][dir]
           n == Len(p.absorbed)
<1>1. /\ p \in [counter : Nat, absorbed : Seq(Nat)]
      /\ p.counter \in Nat
      /\ p.absorbed \in Seq(Nat)
      /\ n \in Nat
      /\ sent[dir] \in Seq(Nat)
      /\ opened[dir] \in Seq(Plaintext)
      /\ ledger \in Seq(Sealed)
      /\ ct \in Nat
  BY DirTypes DEF Inv
<1>2. /\ ledger' = ledger
      /\ sent' = sent
      /\ failed' = failed
      /\ pool' = [pool EXCEPT ![Opener(dir)][dir] = absorb(draw(p), ct)]
      /\ opened' = [opened EXCEPT ![dir] = Append(@, ledger[ct].plaintext)]
  BY DEF OpenOk
<1>3. /\ ct \in DOMAIN ledger
      /\ dir \notin failed
      /\ n + 1 \in 1 .. Len(sent[dir])
      /\ sent[dir][n + 1] = ct
  BY OpensInLine DEF OpenOk
<1>4. /\ pool'[Opener(dir)][dir] = absorb(draw(p), ct)
      /\ opened'[dir] = Append(opened[dir], ledger[ct].plaintext)
      /\ \A d \in Direction : d # dir => opened'[d] = opened[d]
  BY <1>2, EndsDiffer DEF Inv, TypeOK
<1>5. ASSUME NEW d \in Direction
      PROVE  pool'[Sealer(d)][d] = pool[Sealer(d)][d]
  <2>1. Sealer(d) \in Peer /\ (Sealer(d) # Opener(dir) \/ d # dir)
    BY EndsDiffer
  <2> QED
    BY <1>2, <2>1, EndsDiffer, PoolUpdate DEF Inv
<1>6. ASSUME NEW d \in Direction, d # dir
      PROVE  pool'[Opener(d)][d] = pool[Opener(d)][d]
  BY <1>2, <1>6, EndsDiffer, PoolUpdate DEF Inv
<1>7. Placed'
  BY <1>2 DEF Inv, Placed
<1>8. ASSUME NEW d \in Direction
      PROVE  DirInv(d)'
  <2>1. DirInv(d)
    BY DEF Inv
  <2>2. SealerAt(d)'
    BY <1>2, <1>5, <2>1 DEF DirInv, SealerAt
  <2>3. InLine(d, sent[d], ledger)'
    BY <1>2, <2>1 DEF DirInv
  <2>4. CASE d = dir
    <3>1. /\ absorb(draw(p), ct).absorbed = Append(p.absorbed, ct)
          /\ absorb(draw(p), ct).counter = p.counter + 1
      BY <1>1, PoolOps
    <3>2. Len(Append(p.absorbed, ct)) = n + 1
      BY <1>1, AppendFacts
    <3>3. p.counter = n
      BY <1>3, <2>1, <2>4 DEF DirInv, Lockstep
    <3>4. Lockstep(d)'
      BY <1>2, <1>3, <1>4, <2>4, <3>1, <3>2, <3>3 DEF Lockstep
    <3>5. ledger[ct].plaintext \in Plaintext
      <4>1. ledger[ct] \in Sealed
        BY <1>1, <1>3
      <4> QED
        BY <4>1 DEF Sealed
    <3>6. Follows(p.absorbed, opened[dir], sent[dir], ledger)
      BY <2>1, <2>4 DEF DirInv
    <3>7. Follows(Append(p.absorbed, ct), Append(opened[dir], ledger[ct].plaintext),
                  sent[dir], ledger)
      <4>1. ledger[sent[dir][n + 1]].plaintext \in Plaintext
        BY <1>3, <3>5
      <4> QED
        BY <1>1, <1>3, <3>6, <4>1, FollowsOpens
    <3> QED
      BY <1>2, <1>4, <2>2, <2>3, <2>4, <3>1, <3>4, <3>7 DEF DirInv
  <2>5. CASE d # dir
    <3>1. Lockstep(d)'
      BY <1>2, <1>6, <2>1, <2>5 DEF DirInv, Lockstep
    <3> QED
      BY <1>2, <1>4, <1>6, <2>1, <2>2, <2>3, <2>5, <3>1 DEF DirInv
  <2> QED
    BY <2>4, <2>5
<1> QED
  BY <1>7, <1>8 DEF Inv

\* A failed open keeps the invariant.
LEMMA InvOpenErr ==
    ASSUME Inv, TypeOK', NEW dir \in Direction, NEW ct, OpenErr(dir, ct)
    PROVE  Inv'
<1> DEFINE p == pool[Opener(dir)][dir]
<1>1. /\ p \in [counter : Nat, absorbed : Seq(Nat)]
      /\ p.counter \in Nat
      /\ Len(p.absorbed) \in Nat
  BY DirTypes DEF Inv
<1>2. /\ ledger' = ledger
      /\ sent' = sent
      /\ opened' = opened
      /\ failed' = failed \cup {dir}
      /\ pool' = [pool EXCEPT ![Opener(dir)][dir] = draw(p)]
  BY DEF OpenErr
<1>3. pool'[Opener(dir)][dir] = draw(p)
  BY <1>2, EndsDiffer DEF Inv, TypeOK
<1>4. draw(p).absorbed = p.absorbed /\ draw(p).counter = p.counter + 1
  BY <1>1 DEF draw
<1>5. ASSUME NEW d \in Direction
      PROVE  pool'[Sealer(d)][d] = pool[Sealer(d)][d]
  <2>1. Sealer(d) \in Peer /\ (Sealer(d) # Opener(dir) \/ d # dir)
    BY EndsDiffer
  <2> QED
    BY <1>2, <2>1, EndsDiffer, PoolUpdate DEF Inv
<1>6. ASSUME NEW d \in Direction, d # dir
      PROVE  pool'[Opener(d)][d] = pool[Opener(d)][d]
  BY <1>2, <1>6, EndsDiffer, PoolUpdate DEF Inv
<1>7. Placed'
  BY <1>2 DEF Inv, Placed
<1>8. ASSUME NEW d \in Direction
      PROVE  DirInv(d)'
  <2>1. DirInv(d)
    BY DEF Inv
  <2>2. SealerAt(d)'
    BY <1>2, <1>5, <2>1 DEF DirInv, SealerAt
  <2>3. CASE d = dir
    <3>1. p.counter >= Len(p.absorbed)
      <4>1. CASE dir \in failed
        <5>1. p.counter > Len(p.absorbed)
          BY <2>1, <2>3, <4>1 DEF DirInv, Lockstep
        <5> QED
          BY <1>1, <5>1
      <4>2. CASE dir \notin failed
        <5>1. p.counter = Len(p.absorbed)
          BY <2>1, <2>3, <4>2 DEF DirInv, Lockstep
        <5> QED
          BY <1>1, <5>1
      <4> QED
        BY <4>1, <4>2
    <3>2. p.counter + 1 > Len(p.absorbed)
      BY <1>1, <3>1
    <3>3. Lockstep(d)'
      BY <1>2, <1>3, <1>4, <2>3, <3>2 DEF Lockstep
    <3> QED
      BY <1>2, <1>3, <1>4, <2>1, <2>2, <2>3, <3>3 DEF DirInv
  <2>4. CASE d # dir
    <3>1. Lockstep(d)'
      BY <1>2, <1>6, <2>1, <2>4 DEF DirInv, Lockstep
    <3> QED
      BY <1>2, <1>6, <2>1, <2>2, <2>4, <3>1 DEF DirInv
  <2> QED
    BY <2>3, <2>4
<1> QED
  BY <1>7, <1>8 DEF Inv

\* Every call keeps the invariant.
LEMMA InvStep ==
    ASSUME Inv, [Next]_vars
    PROVE  Inv'
<1>1. TypeOK'
  BY TypeStep DEF Inv
<1>2. CASE UNCHANGED vars
  <2>1. UNCHANGED <<pool, ledger, sent, opened, failed>>
    BY <1>2 DEF vars
  <2>2. Placed'
    BY <2>1 DEF Inv, Placed
  <2>3. ASSUME NEW dir \in Direction
        PROVE  DirInv(dir)'
    <3>1. DirInv(dir)
      BY DEF Inv
    <3> QED
      BY <2>1, <3>1 DEF DirInv, SealerAt, Lockstep
  <2> QED
    BY <1>1, <2>2, <2>3 DEF Inv
<1>3. CASE Next
  BY <1>1, <1>3, InvSeal, InvOpenOk, InvOpenErr DEF Next, open
<1> QED
  BY <1>2, <1>3

-----------------------------------------------------------------------------
(***************************************************************************)
(* The theorems.                                                           *)
(***************************************************************************)

\* What a peer gets out of a direction is a prefix of what the other put in,
\* whatever it is given to open.
THEOREM PrefixDelivery == Spec => []OpenedIsPrefix
<1>1. Inv => OpenedIsPrefix
  <2> SUFFICES ASSUME Inv, NEW dir \in Direction
               PROVE  /\ Len(opened[dir]) <= Len(Sent(dir))
                      /\ \A k \in 1 .. Len(opened[dir]) :
                             opened[dir][k] = Sent(dir)[k]
    BY DEF OpenedIsPrefix
  <2> DEFINE a == pool[Opener(dir)][dir].absorbed
  <2>1. Len(a) \in Nat /\ Len(sent[dir]) \in Nat
    BY DirTypes DEF Inv
  <2>2. Follows(a, opened[dir], sent[dir], ledger)
    BY DEF Inv, DirInv
  <2>3. /\ Len(Sent(dir)) = Len(sent[dir])
        /\ \A k \in 1 .. Len(sent[dir]) : Sent(dir)[k] = ledger[sent[dir][k]].plaintext
    BY <2>1 DEF Sent
  <2>4. /\ Len(opened[dir]) = Len(a)
        /\ Len(a) <= Len(sent[dir])
        /\ \A k \in 1 .. Len(a) : opened[dir][k] = ledger[sent[dir][k]].plaintext
    BY <2>2 DEF Follows
  <2>5. \A k \in 1 .. Len(a) : k \in 1 .. Len(sent[dir])
    BY <2>1, <2>4
  <2> QED
    BY <2>3, <2>4, <2>5
<1> QED
  BY <1>1, InvInit, InvStep, PTL DEF Spec

\* No nonce seals two records of a session.
THEOREM NonceUniqueness == Spec => []NonceNeverReused
<1>1. Inv => NonceNeverReused
  BY DEF Inv, Placed, PlacedAt, NonceNeverReused
<1> QED
  BY <1>1, InvInit, InvStep, PTL DEF Spec

\* An intact direction always accepts the next record in line.
THEOREM IntactDirectionOpens == Spec => []NextRecordOpens
<1>1. Inv => NextRecordOpens
  <2> DEFINE p(dir) == pool[Opener(dir)][dir]
             c(dir) == p(dir).counter
  <2> SUFFICES ASSUME Inv, NEW dir \in Direction,
                      dir \notin failed, c(dir) < Len(sent[dir])
               PROVE  aead_open(next_nonce(dir, p(dir)),
                                record_aad(dir, c(dir)), sent[dir][c(dir) + 1])
    BY DEF NextRecordOpens
  <2> DEFINE n == c(dir)
             L == ledger[sent[dir][n + 1]]
  <2>1. /\ n \in Nat /\ Len(sent[dir]) \in Nat
        /\ p(dir).absorbed \in Seq(Nat)
        /\ ledger \in Seq(Sealed)
    BY DirTypes DEF Inv
  <2>2. n + 1 \in 1 .. Len(sent[dir]) /\ (n + 1) - 1 = n
    BY <2>1
  <2>3. Line(dir, n + 1, sent[dir], ledger)
    BY <2>2 DEF Inv, DirInv, InLine
  <2>4. /\ sent[dir][n + 1] \in DOMAIN ledger
        /\ L.aad = <<dir, n>>
        /\ L.nonce.label = dir
        /\ L.nonce.counter = n
        /\ Len(L.nonce.absorbed) = n
        /\ \A i \in 1 .. n : L.nonce.absorbed[i] = sent[dir][i]
    BY <2>2, <2>3 DEF Line
  <2>5. L \in Sealed
    <3>1. \A ct \in DOMAIN ledger : ledger[ct] \in Sealed
      BY <2>1
    <3> QED
      BY <2>4, <3>1
  <2>6. L.nonce \in Nonce
    BY <2>5 DEF Sealed
  <2>7. n = Len(p(dir).absorbed)
    BY DEF Inv, DirInv, Lockstep
  <2>8. \A i \in 1 .. n : p(dir).absorbed[i] = sent[dir][i]
    BY <2>7 DEF Inv, DirInv, Follows
  <2>9. L.nonce.absorbed = p(dir).absorbed
    <3>1. L.nonce.absorbed \in Seq(Nat)
      BY <2>6 DEF Nonce
    <3>2. \A i \in 1 .. Len(L.nonce.absorbed) :
              L.nonce.absorbed[i] = p(dir).absorbed[i]
      BY <2>4, <2>8
    <3> QED
      BY <2>1, <2>4, <2>7, <3>1, <3>2, SeqEqual
  <2>10. L.nonce = next_nonce(dir, p(dir))
    BY <2>4, <2>6, <2>9 DEF Nonce, next_nonce
  <2> QED
    BY <2>4, <2>10 DEF aead_open, record_aad
<1> QED
  BY <1>1, InvInit, InvStep, PTL DEF Spec

\* A direction in which an open failed never yields another record.
THEOREM FailureIsFinal == Spec => DeadAfterFailure
<1>1. ASSUME Inv, [Next]_vars
      PROVE  [\A dir \in Direction :
                 dir \in failed => opened'[dir] = opened[dir]]_vars
  <2> SUFFICES ASSUME NEW dir \in Direction, dir \in failed, Next
               PROVE  opened'[dir] = opened[dir]
    BY <1>1
  <2>1. ASSUME NEW d \in Direction, NEW ct, OpenOk(d, ct)
        PROVE  opened'[dir] = opened[dir]
    <3>1. d # dir
      BY <1>1, <2>1, OpensInLine DEF OpenOk
    <3> QED
      BY <1>1, <2>1, <3>1 DEF OpenOk, Inv, TypeOK
  <2> QED
    BY <2>1 DEF Next, open, seal, OpenErr
<1> QED
  BY <1>1, InvInit, InvStep, PTL DEF Spec, DeadAfterFailure

-----------------------------------------------------------------------------
(***************************************************************************)
(* The record layer implements FifoChannel.                                *)
(***************************************************************************)

\* seal is a Send of the abstract channel.
LEMMA SealSends ==
    ASSUME Inv, NEW dir \in Direction, NEW m \in Plaintext, seal(dir, m)
    PROVE  Fifo!Send(dir, m)
<1> DEFINE p  == pool[Sealer(dir)][dir]
           ct == Len(ledger) + 1
           e  == aead_seal(next_nonce(dir, p), record_aad(dir, p.counter), m)
<1>1. /\ ledger \in Seq(Sealed)
      /\ Len(ledger) \in Nat
      /\ ct \in Nat
      /\ p \in [counter : Nat, absorbed : Seq(Nat)]
      /\ \A d \in Direction : sent[d] \in Seq(Nat) /\ Len(sent[d]) \in Nat
  BY DirTypes DEF Inv
<1>2. /\ e \in Sealed /\ e.plaintext = m
  <2>1. next_nonce(dir, p) \in Nonce
    BY <1>1 DEF next_nonce, Nonce
  <2>2. record_aad(dir, p.counter) \in Direction \X Nat
    BY <1>1 DEF record_aad
  <2> QED
    BY <2>1, <2>2 DEF aead_seal, Sealed
<1>3. /\ ledger' = Append(ledger, e)
      /\ sent' = [sent EXCEPT ![dir] = Append(@, ct)]
      /\ opened' = opened
  BY DEF seal
<1> HIDE DEF e
<1>4. /\ \A c \in DOMAIN ledger : ledger'[c] = ledger[c]
      /\ ledger'[ct] = e
  BY <1>1, <1>2, <1>3, AppendFacts
<1>5. /\ \A d \in Direction : d # dir => sent'[d] = sent[d]
      /\ sent'[dir] = Append(sent[dir], ct)
  BY <1>3 DEF Inv, TypeOK
<1>6. ASSUME NEW d \in Direction, NEW k \in 1 .. Len(sent[d])
      PROVE  ledger'[sent[d][k]] = ledger[sent[d][k]]
  <2>1. Line(d, k, sent[d], ledger)
    BY DEF Inv, DirInv, InLine
  <2> QED
    BY <1>4, <2>1 DEF Line
<1>7. ASSUME NEW d \in Direction, d # dir
      PROVE  Sent(d)' = Sent(d)
  BY <1>5, <1>6, <1>7 DEF Sent
<1>8. Sent(dir)' = Append(Sent(dir), m)
  <2> DEFINE n == Len(sent[dir])
  <2>1. /\ Len(sent'[dir]) = n + 1
        /\ \A k \in 1 .. n : sent'[dir][k] = sent[dir][k]
        /\ sent'[dir][n + 1] = ct
        /\ \A k \in 1 .. n + 1 : k \in 1 .. n \/ k = n + 1
    BY <1>1, <1>5, AppendFacts
  <2>2. \A k \in 1 .. n : ledger[sent[dir][k]].plaintext \in Plaintext
    <3> SUFFICES ASSUME NEW k \in 1 .. n
                 PROVE  ledger[sent[dir][k]].plaintext \in Plaintext
      OBVIOUS
    <3>1. Line(dir, k, sent[dir], ledger)
      BY DEF Inv, DirInv, InLine
    <3>2. \A c \in DOMAIN ledger : ledger[c] \in Sealed
      BY <1>1
    <3>3. ledger[sent[dir][k]] \in Sealed
      BY <3>1, <3>2 DEF Line
    <3> QED
      BY <3>3 DEF Sealed
  <2>3. /\ Sent(dir) \in Seq(Plaintext)
        /\ Len(Sent(dir)) = n
        /\ \A k \in 1 .. n : Sent(dir)[k] = ledger[sent[dir][k]].plaintext
    BY <1>1, <2>2 DEF Sent
  <2>4. /\ Append(Sent(dir), m) \in Seq(Plaintext)
        /\ Len(Append(Sent(dir), m)) = n + 1
        /\ \A k \in 1 .. n : Append(Sent(dir), m)[k] = Sent(dir)[k]
        /\ Append(Sent(dir), m)[n + 1] = m
    BY <2>3, AppendFacts
  <2>5. Sent(dir)' = [k \in 1 .. n + 1 |-> ledger'[sent'[dir][k]].plaintext]
    BY <2>1 DEF Sent
  <2>6. \A k \in 1 .. n + 1 :
            ledger'[sent'[dir][k]].plaintext = Append(Sent(dir), m)[k]
    BY <1>2, <1>4, <1>6, <2>1, <2>3, <2>4
  <2>7. Append(Sent(dir), m) = [k \in 1 .. n + 1 |-> Append(Sent(dir), m)[k]]
    <3>1. \A q \in Seq(Plaintext) : q = [k \in 1 .. Len(q) |-> q[k]]
      OBVIOUS
    <3> QED
      BY <2>4, <3>1
  <2> QED
    BY <2>5, <2>6, <2>7
<1>9. [d \in Direction |-> Sent(d)]'
        = [[d \in Direction |-> Sent(d)] EXCEPT ![dir] = Append(@, m)]
  BY <1>7, <1>8
<1> QED
  BY <1>3, <1>9 DEF Fifo!Send

\* A successful open is a Receive of the abstract channel.
LEMMA OpenReceives ==
    ASSUME Inv, NEW dir \in Direction, NEW ct, OpenOk(dir, ct)
    PROVE  Fifo!Receive(dir)
<1> DEFINE n == Len(pool[Opener(dir)][dir].absorbed)
<1>1. n \in Nat /\ Len(sent[dir]) \in Nat
  BY DirTypes DEF Inv
<1>2. n + 1 \in 1 .. Len(sent[dir]) /\ sent[dir][n + 1] = ct
  BY OpensInLine DEF OpenOk
<1>3. Len(opened[dir]) = n
  BY DEF Inv, DirInv, Follows
<1>4. Len(Sent(dir)) = Len(sent[dir]) /\ Sent(dir)[n + 1] = ledger[ct].plaintext
  BY <1>1, <1>2 DEF Sent
<1>5. n < Len(sent[dir])
  BY <1>1, <1>2
<1>6. /\ ledger' = ledger
      /\ sent' = sent
      /\ opened' = [opened EXCEPT ![dir] = Append(@, ledger[ct].plaintext)]
  BY DEF OpenOk
<1>7. [d \in Direction |-> Sent(d)]' = [d \in Direction |-> Sent(d)]
  BY <1>6 DEF Sent
<1> QED
  BY <1>3, <1>4, <1>5, <1>6, <1>7 DEF Fifo!Receive

\* The two record layers implement a pair of FIFO channels: each direction
\* delivers what was sealed in it, in order and once each, whatever arrives.
THEOREM ImplementsFifo == Spec => FifoSpec
<1>1. Init => Fifo!Init
  <2> SUFFICES ASSUME Init
               PROVE  \A dir \in Direction : Sent(dir) = <<>>
    BY DEF Init, EntropyPool, Fifo!Init
  <2> QED
    BY DEF Init, EntropyPool, Sent
<1>2. ASSUME Inv, [Next]_vars
      PROVE  [Fifo!Next]_<<[dir \in Direction |-> Sent(dir)], opened>>
  <2>1. ASSUME NEW dir \in Direction, NEW m \in Plaintext, seal(dir, m)
        PROVE  Fifo!Next
    BY <1>2, <2>1, SealSends DEF Fifo!Next
  <2>2. ASSUME NEW dir \in Direction, NEW ct, OpenOk(dir, ct)
        PROVE  Fifo!Next
    BY <1>2, <2>2, OpenReceives DEF Fifo!Next
  <2>3. ASSUME sent' = sent, ledger' = ledger, opened' = opened
        PROVE  UNCHANGED <<[dir \in Direction |-> Sent(dir)], opened>>
    BY <2>3 DEF Sent
  <2>4. \/ \E dir \in Direction, m \in Plaintext : seal(dir, m)
        \/ \E dir \in Direction, ct \in 0 .. Len(ledger) : OpenOk(dir, ct)
        \/ sent' = sent /\ ledger' = ledger /\ opened' = opened
    BY <1>2 DEF Next, open, OpenErr, vars
  <2> QED
    BY <2>1, <2>2, <2>3, <2>4
<1> QED
  BY <1>1, <1>2, InvInit, InvStep, PTL DEF Spec, FifoSpec, Fifo!Spec
=============================================================================
