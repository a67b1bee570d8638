---------------------------- MODULE CodecProofs -----------------------------
(***************************************************************************)
(* Proofs about Codec, for every base, width and length: what the digits   *)
(* of an integer, a field, the fields of a layout and a frame are read     *)
(* back as; what the bytes must have been when reading them succeeds; and  *)
(* from these two directions the three properties of the codec.  The       *)
(* recursive functions of Codec are reasoned about by induction over sets  *)
(* of numbers.                                                             *)
(***************************************************************************)
EXTENDS Codec, SequenceTheorems, WellFoundedInduction, TLAPS

-----------------------------------------------------------------------------
(* Induction and recursion.                                                *)
LEMMA NatMin ==
    ASSUME NEW T, T \subseteq Nat, T # {}
    PROVE  \E m \in T : \A k \in T : ~(k < m)
<1> DEFINE R == OpToRel(<, Nat)
<1>1. IsWellFoundedOn(R, Nat)
  BY NatLessThanWellFounded, Zenon
<1>2. \A x, y \in Nat : y < x => <<y, x>> \in R
  BY DEF OpToRel
<1> HIDE DEF R
<1>3. PICK m \in T : \A k \in T : ~(<<k, m>> \in R)
  BY <1>1, WFMin, Zenon
<1> QED BY <1>2, <1>3, Zenon

\* Induction over the natural numbers, for a set: a property is its set.
LEMMA Induction ==
    ASSUME NEW T, 0 \in T, \A n \in Nat : n \in T => n + 1 \in T
    PROVE  \A n \in Nat : n \in T
<1> SUFFICES ASSUME Nat \ T # {} PROVE FALSE
  OBVIOUS
<1>1. PICK m \in Nat \ T : \A k \in Nat \ T : ~(k < m)
  BY NatMin, Zenon
<1>2. m # 0 /\ m - 1 \in Nat /\ m - 1 < m
  BY <1>1
<1>3. m - 1 \in T
  BY <1>1, <1>2
<1> QED BY <1>1, <1>2, <1>3

LEMMA UpTo ==
    ASSUME NEW n \in Nat, NEW T, 0 \in T,
           \A i \in 0 .. n - 1 : i \in T => i + 1 \in T
    PROVE  \A i \in 0 .. n : i \in T
<1> DEFINE U == {i \in Nat : i <= n => i \in T}
<1>1. 0 \in U
  OBVIOUS
<1>2. \A i \in Nat : i \in U => i + 1 \in U
  OBVIOUS
<1> HIDE DEF U
<1>3. \A i \in Nat : i \in U
  BY <1>1, <1>2, Induction, Zenon
<1> QED BY <1>3 DEF U

\* g starts with x and goes on as step says.
Follows(g, n, x, step) ==
    g[0] = x /\ \A i \in 1 .. n : g[i] = step[i][g[i - 1]]

\* A function on 0 .. n may be defined by its first value and by how each
\* value follows from the one before.
LEMMA Recursion ==
    ASSUME NEW n \in Nat, NEW S, NEW x \in S, NEW step \in [1 .. n -> [S -> S]]
    PROVE  \E g \in [0 .. n -> S] : Follows(g, n, x, step)
<1> DEFINE T == {m \in 0 .. n :
                  \E g \in [0 .. m -> S] : Follows(g, m, x, step)}
<1>1. 0 \in T
  <2> DEFINE g == [i \in 0 .. 0 |-> x]
  <2>1. g \in [0 .. 0 -> S] /\ Follows(g, 0, x, step)
    BY DEF Follows
  <2> QED BY <2>1
<1>2. ASSUME NEW m \in 0 .. n - 1, m \in T PROVE m + 1 \in T
  <2>1. PICK g \in [0 .. m -> S] : Follows(g, m, x, step)
    BY <1>2
  <2> DEFINE h == [i \in 0 .. m + 1 |->
                     IF i <= m THEN g[i] ELSE step[m + 1][g[m]]]
  <2>2. step[m + 1][g[m]] \in S
    BY <2>1
  <2>3. h \in [0 .. m + 1 -> S]
    BY <2>1, <2>2
  <2>4. h[0] = x
    BY <2>1 DEF Follows
  <2>5. \A i \in 1 .. m + 1 : h[i] = step[i][h[i - 1]]
    BY <2>1 DEF Follows
  <2>6. Follows(h, m + 1, x, step)
    BY <2>4, <2>5, Zenon DEF Follows
  <2> QED BY <2>3, <2>6
<1> HIDE DEF T
<1>3. \A i \in 0 .. n : i \in T
  BY <1>1, <1>2, UpTo, Zenon
<1>4. n \in T
  BY <1>3
<1> QED BY <1>4 DEF T

-----------------------------------------------------------------------------
(* The digits of an integer.                                               *)
\* The running value of from_be_bytes.
Values(s, v) ==
    /\ v \in [0 .. Len(s) -> Nat] /\ v[0] = 0
    /\ \A i \in 1 .. Len(s) : v[i] = v[i - 1] * Base + s[i]

LEMMA FromDigits ==
    ASSUME NEW s \in Seq(Byte)
    PROVE  \E v : Values(s, v) /\ from_be_bytes(s) = v[Len(s)]
<1> DEFINE step == [i \in 1 .. Len(s) |-> [x \in Nat |-> x * Base + s[i]]]
           Def(v) == v = [i \in 0 .. Len(s) |->
                            IF i = 0 THEN 0 ELSE v[i - 1] * Base + s[i]]
           w == CHOOSE v : Def(v)
<1>0. Len(s) \in Nat /\ Base \in Nat /\ 0 \in Nat
  BY CodecAssumption
<1>1. step \in [1 .. Len(s) -> [Nat -> Nat]]
  <2>1. \A i \in 1 .. Len(s) : s[i] \in Nat
    BY CodecAssumption DEF Byte
  <2> QED BY <1>0, <2>1
<1>2. PICK g \in [0 .. Len(s) -> Nat] : Follows(g, Len(s), 0, step)
  <2> HIDE DEF step
  <2> QED BY <1>0, <1>1, Recursion, Zenon
<1>3. g[0] = 0 /\ \A i \in 1 .. Len(s) : g[i] = g[i - 1] * Base + s[i]
  <2>1. \A i \in 1 .. Len(s) : g[i - 1] \in Nat
    BY <1>0
  <2> QED BY <1>2, <2>1 DEF Follows
<1>4. Def(g)
  BY <1>3
<1>5. Def(w)
  BY <1>4
<1>6. from_be_bytes(s) = w[Len(s)]
  BY DEF from_be_bytes
<1> HIDE DEF w
<1>61. ASSUME NEW i \in 1 .. Len(s) PROVE w[i] = w[i - 1] * Base + s[i]
  <2>1. i \in 0 .. Len(s) /\ i # 0
    BY <1>0
  <2> QED BY <1>5, <2>1, Zenon
<1>7. \A i \in 0 .. Len(s) : w[i] \in Nat
  <2> DEFINE T == {i \in 0 .. Len(s) : w[i] \in Nat}
  <2>1. 0 \in T
    BY <1>0, <1>5
  <2>2. ASSUME NEW i \in 0 .. Len(s) - 1, i \in T PROVE i + 1 \in T
    <3>1. i + 1 \in 1 .. Len(s) /\ w[i] \in Nat /\ s[i + 1] \in Nat
      BY <1>0, <2>2 DEF Byte
    <3>2. w[i + 1] = w[i] * Base + s[i + 1]
      BY <1>61, <3>1
    <3> QED BY <1>0, <3>1, <3>2, SMTT(20)
  <2> HIDE DEF T
  <2>3. \A i \in 0 .. Len(s) : i \in T
    BY <1>0, <2>1, <2>2, UpTo, Zenon
  <2> QED BY <2>3 DEF T
<1>8. w \in [0 .. Len(s) -> Nat]
  <2>1. w = [i \in 0 .. Len(s) |-> w[i]]
    BY <1>5
  <2> QED BY <1>7, <2>1
<1>9. w[0] = 0
  BY <1>0, <1>5
<1>10. Values(s, w)
  BY <1>61, <1>8, <1>9, Zenon DEF Values
<1> QED BY <1>6, <1>10

\* The quotients of to_be_bytes.
Quotients(v, w, q) ==
    /\ q \in [0 .. w -> Nat] /\ q[0] = v
    /\ \A k \in 1 .. w : q[k] = q[k - 1] \div Base

LEMMA DivNat ==
    ASSUME NEW x \in Nat PROVE x \div Base \in Nat /\ x % Base \in Byte
BY CodecAssumption DEF Byte

LEMMA ToDigits ==
    ASSUME NEW v \in Nat, NEW w \in Nat
    PROVE  \E q : /\ Quotients(v, w, q)
                  /\ to_be_bytes(v, w) = [i \in 1 .. w |-> q[w - i] % Base]
<1> DEFINE step == [k \in 1 .. w |-> [x \in Nat |-> x \div Base]]
           Def(q) == q = [k \in 0 .. w |->
                            IF k = 0 THEN v ELSE q[k - 1] \div Base]
           z == CHOOSE q : Def(q)
<1>1. step \in [1 .. w -> [Nat -> Nat]]
  BY DivNat
<1>2. PICK g \in [0 .. w -> Nat] : Follows(g, w, v, step)
  <2> HIDE DEF step
  <2> QED BY <1>1, Recursion, Zenon
<1>3. g[0] = v /\ \A k \in 1 .. w : g[k] = g[k - 1] \div Base
  <2>1. \A k \in 1 .. w : g[k - 1] \in Nat
    OBVIOUS
  <2> QED BY <1>2, <2>1 DEF Follows
<1>4. Def(g)
  BY <1>3
<1>5. Def(z)
  BY <1>4
<1>6. to_be_bytes(v, w) = [i \in 1 .. w |-> z[w - i] % Base]
  BY DEF to_be_bytes
<1> HIDE DEF z
<1>7. ASSUME NEW k \in 1 .. w PROVE z[k] = z[k - 1] \div Base
  <2>1. k \in 0 .. w /\ k # 0
    OBVIOUS
  <2> QED BY <1>5, <2>1, Zenon
<1>8. z[0] = v
  BY <1>5
<1>9. \A k \in 0 .. w : z[k] \in Nat
  <2> DEFINE T == {k \in 0 .. w : z[k] \in Nat}
  <2>1. 0 \in T
    BY <1>8
  <2>2. ASSUME NEW k \in 0 .. w - 1, k \in T PROVE k + 1 \in T
    <3>1. k + 1 \in 1 .. w /\ z[k] \in Nat /\ k + 1 - 1 = k
      BY <2>2
    <3>2. z[k + 1] = z[k] \div Base
      BY <1>7, <3>1
    <3>3. z[k] \div Base \in Nat
      BY <3>1, DivNat, Zenon
    <3> QED BY <3>1, <3>2, <3>3
  <2> HIDE DEF T
  <2>3. \A k \in 0 .. w : k \in T
    BY <2>1, <2>2, UpTo, Zenon
  <2> QED BY <2>3 DEF T
<1>10. z \in [0 .. w -> Nat]
  <2>1. z = [k \in 0 .. w |-> z[k]]
    BY <1>5
  <2> QED BY <1>9, <2>1
<1>11. Quotients(v, w, z)
  BY <1>7, <1>8, <1>10, Zenon DEF Quotients
<1> QED BY <1>6, <1>11

LEMMA LastDigit ==
    ASSUME NEW x \in Nat, NEW b \in Byte
    PROVE  (x * Base + b) \div Base = x /\ (x * Base + b) % Base = b
BY CodecAssumption DEF Byte

\* Writing a number gives back the digits it was read from.
LEMMA Digits ==
    ASSUME NEW s \in Seq(Byte)
    PROVE  /\ from_be_bytes(s) \in Nat
           /\ to_be_bytes(from_be_bytes(s), Len(s)) = s
<1>1. PICK v : Values(s, v) /\ from_be_bytes(s) = v[Len(s)]
  BY FromDigits
<1>2. PICK n \in Nat : n = Len(s)
  OBVIOUS
<1>3. /\ v \in [0 .. n -> Nat] /\ v[0] = 0
      /\ \A i \in 1 .. n : v[i] = v[i - 1] * Base + s[i]
  BY <1>1, <1>2 DEF Values
<1>4. from_be_bytes(s) = v[n] /\ v[n] \in Nat
  BY <1>1, <1>2, <1>3
<1>5. PICK q : /\ Quotients(v[n], n, q)
               /\ to_be_bytes(v[n], n) = [i \in 1 .. n |-> q[n - i] % Base]
  BY <1>4, ToDigits
<1>6. ASSUME NEW i \in 1 .. n
      PROVE  v[i] \div Base = v[i - 1] /\ v[i] % Base = s[i]
  <2>1. v[i - 1] \in Nat /\ s[i] \in Byte
    BY <1>2, <1>3
  <2>2. v[i] = v[i - 1] * Base + s[i]
    BY <1>3
  <2> QED BY <2>1, <2>2, LastDigit
<1>7. \A k \in 0 .. n : q[k] = v[n - k]
  <2> DEFINE T == {k \in 0 .. n : q[k] = v[n - k]}
  <2>1. 0 \in T
    BY <1>5 DEF Quotients
  <2>2. ASSUME NEW k \in 0 .. n - 1, k \in T PROVE k + 1 \in T
    <3>1. q[k + 1] = q[k] \div Base
      BY <1>5 DEF Quotients
    <3>2. n - k \in 1 .. n /\ n - k - 1 = n - (k + 1) /\ k + 1 \in 0 .. n
      OBVIOUS
    <3>3. q[k] = v[n - k]
      BY <2>2
    <3>4. v[n - k] \div Base = v[n - (k + 1)]
      BY <1>6, <3>2
    <3> QED BY <3>1, <3>2, <3>3, <3>4
  <2> HIDE DEF T
  <2>3. \A k \in 0 .. n : k \in T
    BY <2>1, <2>2, UpTo, Zenon
  <2> QED BY <2>3 DEF T
<1>8. ASSUME NEW i \in 1 .. n PROVE q[n - i] % Base = s[i]
  <2>1. n - i \in 0 .. n /\ n - (n - i) = i
    OBVIOUS
  <2>2. q[n - i] = v[i]
    BY <1>7, <2>1
  <2> QED BY <1>6, <2>2
<1>9. s = [i \in 1 .. n |-> s[i]]
  BY <1>2
<1>10. to_be_bytes(v[n], n) = s
  BY <1>5, <1>8, <1>9
<1> QED BY <1>2, <1>4, <1>10

\* The integers of w digits are the ones to_be_bytes writes and reads back.
LEMMA UintWritten ==
    ASSUME NEW w \in Nat, NEW v \in Uint(w)
    PROVE  /\ v \in Nat
           /\ to_be_bytes(v, w) \in Seq(Byte) /\ Len(to_be_bytes(v, w)) = w
           /\ from_be_bytes(to_be_bytes(v, w)) = v
<1>1. PICK s \in [1 .. w -> Byte] : v = from_be_bytes(s)
  BY DEF Uint
<1>2. s \in Seq(Byte) /\ Len(s) = w
  OBVIOUS
<1>3. from_be_bytes(s) \in Nat /\ to_be_bytes(from_be_bytes(s), Len(s)) = s
  BY <1>2, Digits
<1> QED BY <1>1, <1>2, <1>3

LEMMA UintRead ==
    ASSUME NEW s \in Seq(Byte)
    PROVE  /\ from_be_bytes(s) \in Uint(Len(s)) /\ from_be_bytes(s) \in Nat
           /\ to_be_bytes(from_be_bytes(s), Len(s)) = s
<1>1. s \in [1 .. Len(s) -> Byte]
  OBVIOUS
<1> QED BY <1>1, Digits DEF Uint

-----------------------------------------------------------------------------
(* Sequences.                                                              *)
LEMMA Split ==
    ASSUME NEW S, NEW s \in Seq(S), NEW n \in 0 .. Len(s)
    PROVE  /\ SubSeq(s, 1, n) \in Seq(S) /\ Len(SubSeq(s, 1, n)) = n
           /\ SubSeq(s, n + 1, Len(s)) \in Seq(S)
           /\ s = SubSeq(s, 1, n) \o SubSeq(s, n + 1, Len(s))
<1> DEFINE x == SubSeq(s, 1, n)
           y == SubSeq(s, n + 1, Len(s))
<1>1. x \in Seq(S) /\ Len(x) = n /\ \A i \in 1 .. n : x[i] = s[i]
  OBVIOUS
<1>2. /\ y \in Seq(S) /\ Len(y) = Len(s) - n
      /\ \A i \in 1 .. Len(s) - n : y[i] = s[n + i]
  OBVIOUS
<1> HIDE DEF x, y
<1>3. x \o y \in Seq(S) /\ Len(x \o y) = Len(s)
  BY <1>1, <1>2, SMTT(20)
<1>4. \A i \in 1 .. Len(s) : (x \o y)[i] = s[i]
  BY <1>1, <1>2, SMTT(20)
<1>5. s = x \o y
  <2> DEFINE z == x \o y
  <2>1. z \in Seq(S) /\ Len(s) = Len(z) /\ \A i \in 1 .. Len(s) : s[i] = z[i]
    BY <1>3, <1>4
  <2> HIDE DEF z
  <2>2. s = z
    BY <2>1, SeqEqual, Zenon
  <2> QED BY <2>2 DEF z
<1> QED BY <1>1, <1>2, <1>5, Zenon DEF x, y

LEMMA Unsplit ==
    ASSUME NEW S, NEW x \in Seq(S), NEW y \in Seq(S)
    PROVE  /\ x \o y \in Seq(S) /\ Len(x \o y) = Len(x) + Len(y)
           /\ SubSeq(x \o y, 1, Len(x)) = x
           /\ SubSeq(x \o y, Len(x) + 1, Len(x \o y)) = y
<1> DEFINE z == x \o y
           a == SubSeq(z, 1, Len(x))
           b == SubSeq(z, Len(x) + 1, Len(z))
<1>1. z \in Seq(S) /\ Len(z) = Len(x) + Len(y)
  OBVIOUS
<1>2. /\ \A i \in 1 .. Len(x) : z[i] = x[i]
      /\ \A i \in 1 .. Len(y) : z[Len(x) + i] = y[i]
  OBVIOUS
<1> HIDE DEF z
<1>3. a \in Seq(S) /\ Len(a) = Len(x) /\ \A i \in 1 .. Len(x) : a[i] = z[i]
  BY <1>1
<1>4. /\ b \in Seq(S) /\ Len(b) = Len(y)
      /\ \A i \in 1 .. Len(y) : b[i] = z[Len(x) + i]
  BY <1>1
<1> HIDE DEF a, b
<1>5. a = x
  BY <1>2, <1>3
<1>6. b = y
  BY <1>2, <1>4
<1> QED BY <1>1, <1>5, <1>6 DEF a, b, z

LEMMA Regroup ==
    \A x, y, z \in Seq(Byte) : (x \o y) \o z = x \o (y \o z)
BY ConcatAssociative

-----------------------------------------------------------------------------
(* The calls of Reader, forwards: what they make of written bytes; and     *)
(* backwards: what the bytes were, if they succeed.                        *)
Value == Nat \cup Seq(Byte)

State ==
    [rest : Seq(Byte), value : Value, fields : Seq(Value),
     err : {"none", "Truncated"}]

\* From r, a call that succeeds returns v, leaves y and ends in s.
Returns(r, v, y, s) ==
    /\ s \in State /\ s.err = "none"
    /\ s.value = v /\ s.rest = y /\ s.fields = r.fields

LEMMA WidthNat ==
    /\ \A kind \in IntKind : Width[kind] \in Nat
    /\ \A kind \in ArrayKind : Width[kind] \in Nat
    /\ \A kind \in DOMAIN LengthPrefix : Width[LengthPrefix[kind]] \in Nat
BY CodecAssumption DEF IntKind, ArrayKind, LengthPrefix

LEMMA TakeForward ==
    ASSUME NEW r \in State, r.err = "none",
           NEW x \in Seq(Byte), NEW y \in Seq(Byte), r.rest = x \o y
    PROVE  Returns(r, x, y, take(r, Len(x)))
<1>1. Len(r.rest) = Len(x) + Len(y) /\ Len(x) \in Nat /\ Len(y) \in Nat
  BY Unsplit
<1>2. SubSeq(r.rest, 1, Len(x)) = x
  BY Unsplit
<1>3. SubSeq(r.rest, Len(x) + 1, Len(r.rest)) = y
  BY Unsplit
<1>4. take(r, Len(x)) = [r EXCEPT !.value = x, !.rest = y]
  <2>1. ~ (Len(r.rest) < Len(x))
    BY <1>1
  <2> QED BY <1>2, <1>3, <2>1, Zenon DEF take
<1> QED BY <1>4, Zenon DEF Returns, State, Value

LEMMA TakeBack ==
    ASSUME NEW r \in State, r.err = "none", NEW n \in Nat
    PROVE  \/ take(r, n) \in State /\ take(r, n).err = "Truncated"
           \/ \E x, y \in Seq(Byte) :
                  Len(x) = n /\ r.rest = x \o y /\ Returns(r, x, y, take(r, n))
<1>0. r.rest \in Seq(Byte) /\ Len(r.rest) \in Nat
  BY DEF State
<1>1. CASE Len(r.rest) < n
  BY <1>1 DEF take, State
<1>2. CASE ~ (Len(r.rest) < n)
  <2>1. n \in 0 .. Len(r.rest)
    BY <1>0, <1>2
  <2> DEFINE x == SubSeq(r.rest, 1, n)
             y == SubSeq(r.rest, n + 1, Len(r.rest))
  <2>2. /\ x \in Seq(Byte) /\ y \in Seq(Byte)
        /\ Len(x) = n /\ r.rest = x \o y
    BY <1>0, <2>1, Split, Zenon
  <2> HIDE DEF x, y
  <2>3. Returns(r, x, y, take(r, n))
    BY <2>2, TakeForward, Zenon
  <2> QED BY <2>2, <2>3, Zenon
<1> QED BY <1>1, <1>2, Zenon

\* The value of a call may be replaced by what it stands for.
LEMMA Revalued ==
    ASSUME NEW r, NEW x, NEW y, NEW s, Returns(r, x, y, s), NEW v \in Value
    PROVE  Returns(r, v, y, [s EXCEPT !.value = v])
BY Zenon DEF Returns, State

LEMMA IntForward ==
    ASSUME NEW r \in State, r.err = "none", NEW kind \in IntKind,
           NEW v \in Uint(Width[kind]), NEW y \in Seq(Byte),
           r.rest = to_be_bytes(v, Width[kind]) \o y
    PROVE  Returns(r, v, y, ReadInt(r, kind))
<1> DEFINE x == to_be_bytes(v, Width[kind])
           s == take(r, Width[kind])
<1>1. /\ v \in Value /\ x \in Seq(Byte) /\ Len(x) = Width[kind]
      /\ from_be_bytes(x) = v
  BY WidthNat, UintWritten, Zenon DEF Value
<1>2. Returns(r, x, y, s)
  BY <1>1, TakeForward, Zenon
<1>3. s.err = "none" /\ s.value = x
  BY <1>2, Zenon DEF Returns
<1>4. ReadInt(r, kind) = [s EXCEPT !.value = v]
  BY <1>1, <1>3, Zenon DEF ReadInt
<1> HIDE DEF x, s
<1>5. Returns(r, v, y, [s EXCEPT !.value = v])
  BY <1>1, <1>2, Revalued, Zenon
<1> QED BY <1>4, <1>5, Zenon

LEMMA IntBack ==
    ASSUME NEW r \in State, r.err = "none", NEW kind \in IntKind
    PROVE  \/ ReadInt(r, kind) \in State /\ ReadInt(r, kind).err = "Truncated"
           \/ \E v \in Uint(Width[kind]), y \in Seq(Byte) :
                  /\ r.rest = to_be_bytes(v, Width[kind]) \o y
                  /\ Returns(r, v, y, ReadInt(r, kind))
<1> DEFINE s == take(r, Width[kind])
<1>0. Width[kind] \in Nat
  BY WidthNat
<1>1. CASE s \in State /\ s.err = "Truncated"
  <2>1. ReadInt(r, kind) = s
    BY <1>1, Zenon DEF ReadInt
  <2> QED BY <1>1, <2>1, Zenon
<1>2. ASSUME NEW x \in Seq(Byte), NEW y \in Seq(Byte),
             Len(x) = Width[kind], r.rest = x \o y, Returns(r, x, y, s)
      PROVE  \E v \in Uint(Width[kind]), z \in Seq(Byte) :
                 /\ r.rest = to_be_bytes(v, Width[kind]) \o z
                 /\ Returns(r, v, z, ReadInt(r, kind))
  <2> DEFINE v == from_be_bytes(x)
  <2>1. v \in Uint(Width[kind]) /\ v \in Value /\ to_be_bytes(v, Width[kind]) = x
    BY <1>2, UintRead, Zenon DEF Value
  <2>2. s.err = "none" /\ s.value = x
    BY <1>2, Zenon DEF Returns
  <2>3. ReadInt(r, kind) = [s EXCEPT !.value = v]
    BY <2>2, Zenon DEF ReadInt
  <2> HIDE DEF v, s
  <2>5. Returns(r, v, y, [s EXCEPT !.value = v])
    BY <1>2, <2>1, Revalued, Zenon
  <2>4. Returns(r, v, y, ReadInt(r, kind))
    BY <2>3, <2>5, Zenon
  <2> QED BY <1>2, <2>1, <2>4, Zenon
<1>3. \/ s \in State /\ s.err = "Truncated"
      \/ \E x, y \in Seq(Byte) :
             Len(x) = Width[kind] /\ r.rest = x \o y /\ Returns(r, x, y, s)
  BY <1>0, TakeBack, Zenon
<1> HIDE DEF s
<1> QED BY <1>1, <1>2, <1>3, Zenon

\* One field: what is written is read back, and leaves what follows it.
LEMMA ReadForward ==
    ASSUME NEW r \in State, r.err = "none", NEW kind \in Kind, NEW v,
           IsValue(kind, v), NEW y \in Seq(Byte), r.rest = Write(kind, v) \o y
    PROVE  Returns(r, v, y, Read(r, kind))
<1>1. CASE kind \in IntKind
  <2>1. v \in Uint(Width[kind]) /\ r.rest = to_be_bytes(v, Width[kind]) \o y
    BY <1>1, Zenon DEF IsValue, Write
  <2>2. Read(r, kind) = ReadInt(r, kind)
    BY <1>1, Zenon DEF Read
  <2> QED BY <1>1, <2>1, <2>2, IntForward, Zenon
<1>2. CASE kind \notin IntKind /\ kind \in DOMAIN LengthPrefix
  <2> DEFINE pre == LengthPrefix[kind]
             n == ReadInt(r, pre)
             x == to_be_bytes(Len(v), Width[pre])
  <2>1. pre \in IntKind
    BY <1>2 DEF LengthPrefix, IntKind
  <2>2. v \in Seq(Byte) /\ Len(v) \in Uint(Width[pre]) /\ Write(kind, v) = x \o v
    BY <1>2, Zenon DEF IsValue, Write
  <2>3. x \in Seq(Byte)
    BY <2>1, <2>2, WidthNat, UintWritten, Zenon
  <2>4. r.rest = x \o (v \o y) /\ v \o y \in Seq(Byte)
    <3> HIDE DEF x
    <3>1. (x \o v) \o y = x \o (v \o y)
      BY <2>2, <2>3, Regroup, Zenon
    <3>2. v \o y \in Seq(Byte)
      BY <2>2, Unsplit, Zenon
    <3> QED BY <2>2, <3>1, <3>2, Zenon
  <2>5. Returns(r, Len(v), v \o y, n)
    BY <2>1, <2>2, <2>4, IntForward, Zenon
  <2>6. Read(r, kind) = take(n, Len(v))
    BY <1>2, <2>5, Zenon DEF Read, Returns
  <2>7. n \in State /\ n.err = "none" /\ n.rest = v \o y /\ n.fields = r.fields
    BY <2>5, Zenon DEF Returns
  <2>8. Returns(n, v, y, take(n, Len(v)))
    BY <2>2, <2>7, TakeForward, Zenon
  <2> QED BY <2>6, <2>7, <2>8, Zenon DEF Returns
<1>3. CASE kind \notin IntKind /\ kind \notin DOMAIN LengthPrefix
  <2>1. kind \in ArrayKind
    BY <1>3, Zenon DEF Kind
  <2>2. v \in [1 .. Width[kind] -> Byte] /\ Write(kind, v) = v
    BY <1>3, Zenon DEF IsValue, Write
  <2>3. v \in Seq(Byte) /\ Len(v) = Width[kind]
    <3>1. PICK w \in Nat : w = Width[kind]
      BY <2>1, WidthNat, Zenon
    <3>2. v \in [1 .. w -> Byte]
      BY <2>2, <3>1, Zenon
    <3>3. v \in Seq(Byte) /\ Len(v) = w
      BY <3>2
    <3> QED BY <3>1, <3>3
  <2>4. Read(r, kind) = take(r, Len(v))
    BY <1>3, <2>3, Zenon DEF Read
  <2> QED BY <2>2, <2>3, <2>4, TakeForward, Zenon
<1> QED BY <1>1, <1>2, <1>3, Zenon

\* One field, read: it is Truncated, or the bytes were those of a value.
LEMMA ReadBack ==
    ASSUME NEW r \in State, r.err = "none", NEW kind \in Kind
    PROVE  \/ Read(r, kind) \in State /\ Read(r, kind).err = "Truncated"
           \/ \E v \in Value, y \in Seq(Byte) :
                  /\ IsValue(kind, v) /\ r.rest = Write(kind, v) \o y
                  /\ Returns(r, v, y, Read(r, kind))
<1> DEFINE Goal ==
      \/ Read(r, kind) \in State /\ Read(r, kind).err = "Truncated"
      \/ \E v \in Value, y \in Seq(Byte) :
             /\ IsValue(kind, v) /\ r.rest = Write(kind, v) \o y
             /\ Returns(r, v, y, Read(r, kind))
<1> SUFFICES Goal
  BY Zenon
<1>1. CASE kind \in IntKind
  <2>1. Read(r, kind) = ReadInt(r, kind)
    BY <1>1, Zenon DEF Read
  <2>2. ASSUME NEW v \in Uint(Width[kind]), NEW y \in Seq(Byte),
               r.rest = to_be_bytes(v, Width[kind]) \o y,
               Returns(r, v, y, ReadInt(r, kind))
        PROVE  Goal
    <3>1. v \in Value /\ IsValue(kind, v) /\ Write(kind, v) = to_be_bytes(v, Width[kind])
      BY <1>1, WidthNat, UintWritten, Zenon DEF Value, IsValue, Write
    <3> QED BY <2>1, <2>2, <3>1, Zenon
  <2>3. CASE ReadInt(r, kind) \in State /\ ReadInt(r, kind).err = "Truncated"
    BY <2>1, <2>3, Zenon
  <2> HIDE DEF Goal
  <2> QED BY <1>1, <2>2, <2>3, IntBack, Zenon
<1>2. CASE kind \notin IntKind /\ kind \in DOMAIN LengthPrefix
  <2> DEFINE pre == LengthPrefix[kind]
             n == ReadInt(r, pre)
  <2>1. pre \in IntKind
    BY <1>2 DEF LengthPrefix, IntKind
  <2>2. CASE n \in State /\ n.err = "Truncated"
    <3>1. Read(r, kind) = n
      BY <1>2, <2>2, Zenon DEF Read
    <3> QED BY <2>2, <3>1, Zenon
  <2>3. ASSUME NEW m \in Uint(Width[pre]), NEW z \in Seq(Byte),
               r.rest = to_be_bytes(m, Width[pre]) \o z,
               Returns(r, m, z, n)
        PROVE  Goal
    <3> DEFINE x == to_be_bytes(m, Width[pre])
    <3>1. m \in Nat /\ x \in Seq(Byte)
      BY <2>1, WidthNat, UintWritten, Zenon
    <3>2. n \in State /\ n.err = "none" /\ n.rest = z /\ n.fields = r.fields
      BY <2>3, Zenon DEF Returns
    <3>3. Read(r, kind) = take(n, m)
      BY <1>2, <2>3, Zenon DEF Read, Returns
    <3>4. CASE take(n, m) \in State /\ take(n, m).err = "Truncated"
      BY <3>3, <3>4, Zenon
    <3>5. ASSUME NEW v \in Seq(Byte), NEW y \in Seq(Byte), Len(v) = m,
                 n.rest = v \o y, Returns(n, v, y, take(n, m))
          PROVE  Goal
      <4>1. IsValue(kind, v) /\ Write(kind, v) = x \o v /\ v \in Value
        BY <1>2, <3>5, Zenon DEF IsValue, Write, Value
      <4>2. r.rest = x \o (v \o y)
        BY <2>3, <3>2, <3>5, Zenon
      <4>3. (x \o v) \o y = x \o (v \o y)
        <5> HIDE DEF x
        <5> QED BY <3>1, <3>5, Regroup, ZenonT(40)
      <4>4. Returns(r, v, y, Read(r, kind))
        BY <3>2, <3>3, <3>5, Zenon DEF Returns
      <4> HIDE DEF x
      <4> QED BY <4>1, <4>2, <4>3, <4>4, Zenon
    <3> HIDE DEF Goal, n
    <3> QED BY <3>1, <3>2, <3>4, <3>5, TakeBack, Zenon
  <2> HIDE DEF Goal
  <2> QED BY <2>1, <2>2, <2>3, IntBack, Zenon
<1>3. CASE kind \notin IntKind /\ kind \notin DOMAIN LengthPrefix
  <2>0. kind \in ArrayKind
    BY <1>3, Zenon DEF Kind
  <2>1. Width[kind] \in Nat
    BY <2>0, WidthNat, Zenon
  <2>2. Read(r, kind) = take(r, Width[kind])
    BY <1>3, Zenon DEF Read
  <2>3. CASE take(r, Width[kind]) \in State /\ take(r, Width[kind]).err = "Truncated"
    BY <2>2, <2>3, Zenon
  <2>4. ASSUME NEW v \in Seq(Byte), NEW y \in Seq(Byte), Len(v) = Width[kind],
               r.rest = v \o y, Returns(r, v, y, take(r, Width[kind]))
        PROVE  Goal
    <3>1. v \in [1 .. Width[kind] -> Byte]
      BY <2>4
    <3>2. IsValue(kind, v) /\ Write(kind, v) = v /\ v \in Value
      BY <1>3, <3>1, Zenon DEF IsValue, Write, Value
    <3> QED BY <2>2, <2>4, <3>2, Zenon
  <2> HIDE DEF Goal
  <2> QED BY <2>1, <2>3, <2>4, TakeBack, ZenonT(40)
<1> QED BY <1>1, <1>2, <1>3, Zenon

LEMMA WriteBytes ==
    ASSUME NEW kind \in Kind, NEW v, IsValue(kind, v)
    PROVE  v \in Value /\ Write(kind, v) \in Seq(Byte)
<1>1. CASE kind \in IntKind
  BY <1>1, WidthNat, UintWritten, Zenon DEF Value, IsValue, Write
<1>2. CASE kind \notin IntKind /\ kind \in DOMAIN LengthPrefix
  <2> DEFINE x == to_be_bytes(Len(v), Width[LengthPrefix[kind]])
  <2>1. v \in Seq(Byte) /\ Write(kind, v) = x \o v
    BY <1>2, Zenon DEF IsValue, Write
  <2>2. x \in Seq(Byte)
    BY <1>2, WidthNat, UintWritten, Zenon DEF IsValue
  <2> HIDE DEF x
  <2>3. x \o v \in Seq(Byte)
    BY <2>1, <2>2, Unsplit, Zenon
  <2> QED BY <2>1, <2>3, Zenon DEF Value
<1>3. CASE kind \notin IntKind /\ kind \notin DOMAIN LengthPrefix
  <2>1. kind \in ArrayKind
    BY <1>3, Zenon DEF Kind
  <2>2. v \in [1 .. Width[kind] -> Byte] /\ Write(kind, v) = v
    BY <1>3, Zenon DEF IsValue, Write
  <2>3. PICK w \in Nat : w = Width[kind]
    BY <2>1, WidthNat, Zenon
  <2>4. v \in [1 .. w -> Byte]
    BY <2>2, <2>3, Zenon
  <2>5. v \in Seq(Byte)
    BY <2>4
  <2> QED BY <2>2, <2>5, Zenon DEF Value
<1> QED BY <1>1, <1>2, <1>3, Zenon

-----------------------------------------------------------------------------
(* The fields of a layout.                                                 *)
IsLayout(layout) ==
    /\ Len(layout) \in Nat /\ DOMAIN layout = 1 .. Len(layout)
    /\ \A i \in 1 .. Len(layout) : layout[i][2] \in Kind

Fits(layout, v) == \A i \in 1 .. Len(layout) : IsValue(layout[i][2], v[i])

\* What WriteFields has still to write.
Suffixes(layout, v, f) ==
    /\ f \in [1 .. Len(layout) + 1 -> Seq(Byte)] /\ f[Len(layout) + 1] = <<>>
    /\ \A i \in 1 .. Len(layout) :
           f[i] = Write(layout[i][2], v[i]) \o f[i + 1]

LEMMA WriteForm ==
    ASSUME NEW layout, IsLayout(layout), NEW v, Fits(layout, v)
    PROVE  \E f : Suffixes(layout, v, f) /\ WriteFields(layout, v) = f[1]
<1>0. PICK n \in Nat : n = Len(layout)
  BY DEF IsLayout
<1> DEFINE c == [i \in 1 .. n |-> Write(layout[i][2], v[i])]
           step == [k \in 1 .. n |-> [x \in Seq(Byte) |-> c[n + 1 - k] \o x]]
           Def(f) == f = [i \in 1 .. n + 1 |->
                            IF i > n THEN <<>>
                            ELSE Write(layout[i][2], v[i]) \o f[i + 1]]
           w == CHOOSE f : Def(f)
<1>1. c \in [1 .. n -> Seq(Byte)]
  <2>1. \A i \in 1 .. n : Write(layout[i][2], v[i]) \in Seq(Byte)
    BY <1>0, WriteBytes, Zenon DEF IsLayout, Fits
  <2> QED BY <2>1
<1>2. \A i \in 1 .. n : c[i] = Write(layout[i][2], v[i])
  OBVIOUS
<1>3. step \in [1 .. n -> [Seq(Byte) -> Seq(Byte)]]
  <2> HIDE DEF c
  <2>1. \A k \in 1 .. n : n + 1 - k \in 1 .. n
    OBVIOUS
  <2>2. \A i \in 1 .. n : \A x \in Seq(Byte) : c[i] \o x \in Seq(Byte)
    BY <1>1
  <2> QED BY <2>1, <2>2
<1>4. PICK g \in [0 .. n -> Seq(Byte)] : Follows(g, n, <<>>, step)
  <2> HIDE DEF step
  <2>1. <<>> \in Seq(Byte)
    OBVIOUS
  <2> QED BY <1>3, <2>1, Recursion, Zenon
<1>5. g[0] = <<>> /\ \A k \in 1 .. n : g[k] = c[n + 1 - k] \o g[k - 1]
  <2> HIDE DEF c
  <2>1. \A k \in 1 .. n : g[k - 1] \in Seq(Byte)
    OBVIOUS
  <2> QED BY <1>4, <2>1, Zenon DEF Follows
<1>6. Def([i \in 1 .. n + 1 |-> g[n + 1 - i]])
  <2> DEFINE h == [i \in 1 .. n + 1 |-> g[n + 1 - i]]
  <2> HIDE DEF c
  <2>1. h[n + 1] = <<>>
    BY <1>5
  <2>2. ASSUME NEW i \in 1 .. n
        PROVE  h[i] = Write(layout[i][2], v[i]) \o h[i + 1]
    <3>1. PICK k \in 1 .. n : k = n + 1 - i /\ n + 1 - k = i
      OBVIOUS
    <3>2. h[i] = g[k] /\ h[i + 1] = g[k - 1]
      BY <3>1
    <3>3. g[k] = c[n + 1 - k] \o g[k - 1]
      BY <1>5, Zenon
    <3> HIDE DEF h
    <3>4. c[i] = Write(layout[i][2], v[i])
      BY <1>2, Zenon
    <3> QED BY <3>1, <3>2, <3>3, <3>4, Zenon
  <2>3. \A i \in 1 .. n + 1 : IF i > n THEN i = n + 1 ELSE i \in 1 .. n
    OBVIOUS
  <2>4. h = [i \in 1 .. n + 1 |-> h[i]]
    OBVIOUS
  <2> HIDE DEF h
  <2>5. Def(h)
    BY <2>1, <2>2, <2>3, <2>4, Zenon
  <2> QED BY <2>5 DEF h
<1>7. Def(w)
  <2> HIDE DEF Def
  <2> QED BY <1>6
<1>8. WriteFields(layout, v) = w[1]
  BY <1>0 DEF WriteFields
<1> HIDE DEF w, c, step
<1>9. w[n + 1] = <<>>
  BY <1>7
<1>10. ASSUME NEW i \in 1 .. n
       PROVE  w[i] = Write(layout[i][2], v[i]) \o w[i + 1]
  <2>1. i \in 1 .. n + 1 /\ ~ (i > n)
    OBVIOUS
  <2> QED BY <1>7, <2>1, Zenon
<1>11. \A k \in 0 .. n : w[n + 1 - k] \in Seq(Byte)
  <2> DEFINE T == {k \in 0 .. n : w[n + 1 - k] \in Seq(Byte)}
  <2>1. 0 \in T
    BY <1>9
  <2>2. ASSUME NEW k \in 0 .. n - 1, k \in T PROVE k + 1 \in T
    <3>1. /\ n - k \in 1 .. n /\ k + 1 \in 0 .. n
          /\ n - k + 1 = n + 1 - k /\ n + 1 - (k + 1) = n - k
      OBVIOUS
    <3>2. w[n - k] = c[n - k] \o w[n + 1 - k]
      <4>1. w[n - k] = c[n - k] \o w[n - k + 1]
        BY <1>2, <1>10, <3>1, Zenon
      <4> QED BY <3>1, <4>1, Zenon
    <3>3. c[n - k] \in Seq(Byte) /\ w[n + 1 - k] \in Seq(Byte)
      BY <1>1, <2>2, <3>1
    <3>4. w[n - k] \in Seq(Byte)
      BY <3>2, <3>3
    <3> QED BY <3>1, <3>4
  <2> HIDE DEF T
  <2>3. \A k \in 0 .. n : k \in T
    BY <2>1, <2>2, UpTo, Zenon
  <2> QED BY <2>3 DEF T
<1>12. w \in [1 .. n + 1 -> Seq(Byte)]
  <2>1. ASSUME NEW i \in 1 .. n + 1 PROVE w[i] \in Seq(Byte)
    <3>1. n + 1 - i \in 0 .. n /\ n + 1 - (n + 1 - i) = i
      OBVIOUS
    <3> QED BY <1>11, <3>1, Zenon
  <2>2. w = [i \in 1 .. n + 1 |-> w[i]]
    BY <1>7
  <2> QED BY <2>1, <2>2
<1>13. Suffixes(layout, v, w)
  BY <1>0, <1>9, <1>10, <1>12, Zenon DEF Suffixes
<1> QED
  <2> WITNESS w
  <2> QED BY <1>8, <1>13, Zenon

\* From r, the field v is read, which leaves y and ends in s.
Adds(r, v, y, s) ==
    /\ s \in State /\ s.err = "none"
    /\ s.rest = y /\ s.fields = Append(r.fields, v)

LEMMA ReturnsAdds ==
    ASSUME NEW r \in State, NEW v \in Value, NEW y, NEW s, Returns(r, v, y, s)
    PROVE  Adds(r, v, y, [s EXCEPT !.fields = Append(s.fields, s.value)])
<1>1. s \in State /\ s.value = v /\ s.rest = y /\ s.err = "none" /\ s.fields = r.fields
  BY Zenon DEF Returns
<1>2. Append(s.fields, s.value) \in Seq(Value)
  BY <1>1, AppendProperties DEF State
<1> QED BY <1>1, <1>2, Zenon DEF Adds, State

LEMMA FieldForward ==
    ASSUME NEW r \in State, r.err = "none", NEW field, field[2] \in Kind, NEW v,
           IsValue(field[2], v), NEW y \in Seq(Byte),
           r.rest = Write(field[2], v) \o y
    PROVE  Adds(r, v, y, ReadField(r, field))
<1> DEFINE s == Read(r, field[2])
<1>1. Returns(r, v, y, s)
  BY ReadForward, Zenon
<1>2. s.err = "none"
  BY <1>1, Zenon DEF Returns
<1>3. ReadField(r, field) = [s EXCEPT !.fields = Append(s.fields, s.value)]
  BY <1>2, Zenon DEF ReadField
<1>4. v \in Value
  BY WriteBytes, Zenon
<1> HIDE DEF s
<1>5. Adds(r, v, y, [s EXCEPT !.fields = Append(s.fields, s.value)])
  BY <1>1, <1>4, ReturnsAdds, Zenon
<1> QED BY <1>3, <1>5, Zenon

\* ReadField(r, field) is s, so r was before the bytes of a value.
Was(r, kind, s) ==
    /\ r.err = "none"
    /\ \E v \in Value, y \in Seq(Byte) :
          /\ IsValue(kind, v) /\ r.rest = Write(kind, v) \o y
          /\ Adds(r, v, y, s)

LEMMA FieldBack ==
    ASSUME NEW r \in State, NEW field, field[2] \in Kind
    PROVE  /\ ReadField(r, field) \in State
           /\ ReadField(r, field).err = "none"
                => Was(r, field[2], ReadField(r, field))
<1> DEFINE s == Read(r, field[2])
           Goal == /\ ReadField(r, field) \in State
                   /\ ReadField(r, field).err = "none"
                        => Was(r, field[2], ReadField(r, field))
<1> SUFFICES Goal
  BY Zenon
<1>1. CASE r.err # "none"
  <2>1. ReadField(r, field) = r
    BY <1>1, Zenon DEF ReadField
  <2> QED BY <1>1, <2>1, Zenon
<1>2. CASE r.err = "none" /\ s \in State /\ s.err = "Truncated"
  <2>1. ReadField(r, field) = s
    BY <1>2, Zenon DEF ReadField
  <2> QED BY <1>2, <2>1, Zenon
<1>3. ASSUME r.err = "none", NEW v \in Value, NEW y \in Seq(Byte),
             IsValue(field[2], v), r.rest = Write(field[2], v) \o y
      PROVE  Goal
  <2>1. Adds(r, v, y, ReadField(r, field))
    BY <1>3, FieldForward, Zenon
  <2>2. ReadField(r, field) \in State
    BY <2>1, Zenon DEF Adds
  <2>3. Was(r, field[2], ReadField(r, field))
    BY <1>3, <2>1, Zenon DEF Was
  <2> QED BY <2>2, <2>3, Zenon
<1>4. CASE r.err = "none"
  <2>1. \/ s \in State /\ s.err = "Truncated"
        \/ \E v \in Value, y \in Seq(Byte) :
               IsValue(field[2], v) /\ r.rest = Write(field[2], v) \o y
    BY <1>4, ReadBack, Zenon
  <2> HIDE DEF Goal, s
  <2> QED BY <1>2, <1>3, <1>4, <2>1, Zenon
<1> QED BY <1>1, <1>4, Zenon

\* The states ReadFields goes through.
Steps(r, layout, f) ==
    /\ f \in [0 .. Len(layout) -> State] /\ f[0] = r
    /\ \A i \in 1 .. Len(layout) : f[i] = ReadField(f[i - 1], layout[i])

LEMMA ReadForm ==
    ASSUME NEW r \in State, NEW layout, IsLayout(layout)
    PROVE  \E f : Steps(r, layout, f) /\ ReadFields(r, layout) = f[Len(layout)]
<1>0. PICK n \in Nat : n = Len(layout)
  BY DEF IsLayout
<1> DEFINE step == [i \in 1 .. n |-> [x \in State |-> ReadField(x, layout[i])]]
           Def(f) == f = [i \in 0 .. n |->
                            IF i = 0 THEN r ELSE ReadField(f[i - 1], layout[i])]
           w == CHOOSE f : Def(f)
<1>1. \A i \in 1 .. n : \A x \in State : ReadField(x, layout[i]) \in State
  BY <1>0, FieldBack, Zenon DEF IsLayout
<1>2. step \in [1 .. n -> [State -> State]]
  BY <1>1, Zenon
<1>3. PICK g \in [0 .. n -> State] : Follows(g, n, r, step)
  <2> HIDE DEF step
  <2> QED BY <1>2, Recursion, Zenon
<1>4. g[0] = r /\ \A i \in 1 .. n : g[i] = ReadField(g[i - 1], layout[i])
  <2>1. \A i \in 1 .. n : g[i - 1] \in State
    OBVIOUS
  <2> QED BY <1>3, <2>1, Zenon DEF Follows
<1>5. Def(g)
  <2>1. \A i \in 0 .. n : i = 0 \/ i \in 1 .. n
    OBVIOUS
  <2> QED BY <1>4, <2>1, Zenon
<1>6. Def(w)
  <2> HIDE DEF Def
  <2> QED BY <1>5
<1>7. ReadFields(r, layout) = w[n]
  BY <1>0 DEF ReadFields
<1> HIDE DEF w, step
<1>8. w[0] = r
  <2>1. 0 \in 0 .. n
    OBVIOUS
  <2> QED BY <1>6, <2>1, Zenon
<1>9. ASSUME NEW i \in 1 .. n PROVE w[i] = ReadField(w[i - 1], layout[i])
  <2>1. i \in 0 .. n /\ i # 0
    OBVIOUS
  <2> QED BY <1>6, <2>1, Zenon
<1>10. \A i \in 0 .. n : w[i] \in State
  <2> DEFINE T == {i \in 0 .. n : w[i] \in State}
  <2>1. 0 \in T
    BY <1>8
  <2>2. ASSUME NEW i \in 0 .. n - 1, i \in T PROVE i + 1 \in T
    <3>1. i + 1 \in 1 .. n /\ i + 1 \in 0 .. n /\ i + 1 - 1 = i
      OBVIOUS
    <3>2. w[i + 1] = ReadField(w[i], layout[i + 1])
      <4>1. w[i + 1] = ReadField(w[i + 1 - 1], layout[i + 1])
        BY <1>9, <3>1
      <4> QED BY <3>1, <4>1, Zenon
    <3> QED BY <1>1, <2>2, <3>1, <3>2, Zenon
  <2> HIDE DEF T
  <2>3. \A i \in 0 .. n : i \in T
    BY <2>1, <2>2, UpTo, Zenon
  <2> QED BY <2>3 DEF T
<1>11. w \in [0 .. n -> State]
  <2>1. w = [i \in 0 .. n |-> w[i]]
    BY <1>6
  <2> QED BY <1>10, <2>1, Zenon
<1>12. Steps(r, layout, w)
  BY <1>0, <1>8, <1>9, <1>11, Zenon DEF Steps
<1> QED
  <2> WITNESS w
  <2> QED BY <1>0, <1>7, <1>12, Zenon

LEMMA AppendPrefix ==
    ASSUME NEW S, NEW v \in Seq(S), NEW i \in 0 .. Len(v) - 1
    PROVE  Append(SubSeq(v, 1, i), v[i + 1]) = SubSeq(v, 1, i + 1)
<1> DEFINE p == SubSeq(v, 1, i)
           q == SubSeq(v, 1, i + 1)
<1>1. p \in Seq(S) /\ Len(p) = i /\ \A j \in 1 .. i : p[j] = v[j]
  OBVIOUS
<1>2. q \in Seq(S) /\ Len(q) = i + 1 /\ \A j \in 1 .. i + 1 : q[j] = v[j]
  OBVIOUS
<1> HIDE DEF p, q
<1> DEFINE a == Append(p, v[i + 1])
<1>3. a \in Seq(S) /\ Len(a) = i + 1 /\ \A j \in 1 .. i + 1 : a[j] = v[j]
  BY <1>1
<1> HIDE DEF a
<1>4. a = q
  BY <1>2, <1>3, SeqEqual
<1> QED BY <1>4 DEF a, p, q

LEMMA PrefixAppend ==
    ASSUME NEW S, NEW v \in Seq(S), NEW i \in 1 .. Len(v), NEW s \in Seq(S),
           NEW u \in S, Append(s, u) = SubSeq(v, 1, i)
    PROVE  s = SubSeq(v, 1, i - 1) /\ u = v[i]
<1> DEFINE q == SubSeq(v, 1, i)
           p == SubSeq(v, 1, i - 1)
           a == Append(s, u)
<1>1. q \in Seq(S) /\ Len(q) = i /\ \A j \in 1 .. i : q[j] = v[j]
  OBVIOUS
<1>2. p \in Seq(S) /\ Len(p) = i - 1 /\ \A j \in 1 .. i - 1 : p[j] = v[j]
  OBVIOUS
<1>3. Len(a) = Len(s) + 1 /\ a[Len(s) + 1] = u /\ \A j \in 1 .. Len(s) : a[j] = s[j]
  OBVIOUS
<1>4. a = q
  OBVIOUS
<1> HIDE DEF a, p, q
<1>5. Len(s) = i - 1
  BY <1>1, <1>3, <1>4
<1>6. u = v[i]
  BY <1>1, <1>3, <1>4, <1>5
<1>7. \A j \in 1 .. i - 1 : s[j] = p[j]
  BY <1>1, <1>2, <1>3, <1>4, <1>5
<1>8. s = p
  BY <1>2, <1>5, <1>7, SeqEqual
<1> QED BY <1>6, <1>8 DEF p

\* Reading layout from r returns v and leaves y.
Ends(r, layout, v, y) ==
    /\ ReadFields(r, layout) \in State
    /\ ReadFields(r, layout).err = "none"
    /\ ReadFields(r, layout).rest = y
    /\ ReadFields(r, layout).fields = v

\* A layout is read back as it was written, and what follows it is left.
LEMMA FieldsForward ==
    ASSUME NEW layout, IsLayout(layout),
           NEW v \in Seq(Value), Len(v) = Len(layout), Fits(layout, v),
           NEW r \in State, r.err = "none", r.fields = <<>>,
           NEW y \in Seq(Byte), r.rest = WriteFields(layout, v) \o y
    PROVE  Ends(r, layout, v, y)
<1>0. PICK n \in Nat : n = Len(layout)
  BY Zenon DEF IsLayout
<1>1. PICK g : Suffixes(layout, v, g) /\ WriteFields(layout, v) = g[1]
  BY WriteForm, Zenon
<1>2. PICK f : Steps(r, layout, f) /\ ReadFields(r, layout) = f[n]
  BY <1>0, ReadForm, Zenon
<1>3. /\ g \in [1 .. n + 1 -> Seq(Byte)] /\ g[n + 1] = <<>>
      /\ \A i \in 1 .. n : g[i] = Write(layout[i][2], v[i]) \o g[i + 1]
  BY <1>0, <1>1, Zenon DEF Suffixes
<1>4. /\ f \in [0 .. n -> State] /\ f[0] = r
      /\ \A i \in 1 .. n : f[i] = ReadField(f[i - 1], layout[i])
  BY <1>0, <1>2, Zenon DEF Steps
<1>5. \A i \in 1 .. n : layout[i][2] \in Kind /\ IsValue(layout[i][2], v[i])
  BY <1>0, Zenon DEF IsLayout, Fits
<1> DEFINE At(i) == /\ f[i].err = "none" /\ f[i].rest = g[i + 1] \o y
                    /\ f[i].fields = SubSeq(v, 1, i)
<1>6. At(0)
  <2>1. SubSeq(v, 1, 0) = <<>>
    OBVIOUS
  <2>2. 0 + 1 = 1
    OBVIOUS
  <2> QED BY <1>1, <1>4, <2>1, <2>2, Zenon
<1>7. ASSUME NEW i \in 0 .. n - 1, At(i) PROVE At(i + 1)
  <2>1. i + 1 \in 1 .. n /\ i \in 0 .. n /\ i + 1 - 1 = i /\ i + 2 \in 1 .. n + 1
        /\ i + 1 + 1 = i + 2
    OBVIOUS
  <2> DEFINE u == v[i + 1]
             kind == layout[i + 1][2]
             z == g[i + 2]
  <2>2. f[i] \in State /\ f[i].err = "none" /\ f[i].fields = SubSeq(v, 1, i)
    BY <1>4, <1>7, <2>1, Zenon
  <2>3. f[i + 1] = ReadField(f[i], layout[i + 1])
    <3>1. f[i + 1] = ReadField(f[i + 1 - 1], layout[i + 1])
      BY <1>4, <2>1
    <3> QED BY <2>1, <3>1, Zenon
  <2>4. kind \in Kind /\ IsValue(kind, u)
    BY <1>5, <2>1, Zenon
  <2>5. z \in Seq(Byte) /\ Write(kind, u) \in Seq(Byte)
    BY <1>3, <2>1, <2>4, WriteBytes, Zenon
  <2>6. g[i + 1] = Write(kind, u) \o z
    BY <1>3, <2>1, Zenon
  <2>7. f[i].rest = Write(kind, u) \o (z \o y) /\ z \o y \in Seq(Byte)
    <3> HIDE DEF kind, u, z
    <3>1. (Write(kind, u) \o z) \o y = Write(kind, u) \o (z \o y)
      BY <2>5, Regroup, Zenon
    <3>2. z \o y \in Seq(Byte)
      BY <2>5, Unsplit, Zenon
    <3> QED BY <1>7, <2>6, <3>1, <3>2, Zenon
  <2>8. Adds(f[i], u, z \o y, f[i + 1])
    BY <2>2, <2>3, <2>4, <2>7, FieldForward, Zenon
  <2>9. Append(SubSeq(v, 1, i), v[i + 1]) = SubSeq(v, 1, i + 1)
    <3>1. i \in 0 .. Len(v) - 1
      BY <1>0
    <3> QED BY <3>1, AppendPrefix, Zenon
  <2> QED BY <2>1, <2>2, <2>8, <2>9, Zenon DEF Adds
<1>8. \A i \in 0 .. n : At(i)
  <2> DEFINE T == {i \in 0 .. n : At(i)}
  <2> HIDE DEF At
  <2>1. 0 \in T
    BY <1>6
  <2>2. ASSUME NEW i \in 0 .. n - 1, i \in T PROVE i + 1 \in T
    <3>1. i + 1 \in 0 .. n
      OBVIOUS
    <3> QED BY <1>7, <2>2, <3>1, Zenon
  <2> HIDE DEF T
  <2>3. \A i \in 0 .. n : i \in T
    BY <2>1, <2>2, UpTo, Zenon
  <2> QED BY <2>3, Zenon DEF T
<1>9. f[n] \in State /\ At(n)
  <2> HIDE DEF At
  <2>1. n \in 0 .. n
    OBVIOUS
  <2> QED BY <1>4, <1>8, <2>1, Zenon
<1>10. <<>> \o y = y
  BY ConcatEmptySeq
<1>11. SubSeq(v, 1, n) = v
  BY <1>0, SubSeqFull
<1>12. f[n].rest = y
  BY <1>3, <1>9, <1>10, Zenon
<1>13. f[n].fields = v /\ f[n].err = "none" /\ f[n] \in State
  BY <1>9, <1>11, Zenon
<1> HIDE DEF At
<1> QED BY <1>2, <1>12, <1>13, Zenon DEF Ends

\* ReadFields fails in one way only.
LEMMA FieldsState ==
    ASSUME NEW layout, IsLayout(layout), NEW r \in State
    PROVE  ReadFields(r, layout) \in State
<1>1. PICK f : Steps(r, layout, f) /\ ReadFields(r, layout) = f[Len(layout)]
  BY ReadForm, Zenon
<1>2. Len(layout) \in 0 .. Len(layout)
  BY DEF IsLayout
<1> QED BY <1>1, <1>2, Zenon DEF Steps

\* If a layout could be read, the bytes were those of its fields.
LEMMA FieldsBack ==
    ASSUME NEW layout, IsLayout(layout),
           NEW r \in State, r.fields = <<>>, ReadFields(r, layout).err = "none"
    PROVE  /\ ReadFields(r, layout).fields \in Seq(Value)
           /\ Len(ReadFields(r, layout).fields) = Len(layout)
           /\ Fits(layout, ReadFields(r, layout).fields)
           /\ r.rest = WriteFields(layout, ReadFields(r, layout).fields)
                         \o ReadFields(r, layout).rest
<1>0. PICK n \in Nat : n = Len(layout)
  BY Zenon DEF IsLayout
<1>1. PICK f : Steps(r, layout, f) /\ ReadFields(r, layout) = f[n]
  BY <1>0, ReadForm, Zenon
<1>2. /\ f \in [0 .. n -> State] /\ f[0] = r
      /\ \A i \in 1 .. n : f[i] = ReadField(f[i - 1], layout[i])
  BY <1>0, <1>1, Zenon DEF Steps
<1>3. \A i \in 1 .. n : layout[i][2] \in Kind
  BY <1>0, Zenon DEF IsLayout
<1>4. PICK v : v = f[n].fields
  OBVIOUS
<1>5. PICK y : y = f[n].rest
  OBVIOUS
<1>6. f[n] \in State /\ f[n].err = "none" /\ v \in Seq(Value) /\ y \in Seq(Byte)
  <2>1. n \in 0 .. n
    OBVIOUS
  <2>2. f[n] \in State
    BY <1>2, <2>1, Zenon
  <2> QED BY <1>1, <1>4, <1>5, <2>2, Zenon DEF State
\* Every step succeeded.
<1>7. ASSUME NEW i \in 1 .. n, f[i].err = "none"
      PROVE  f[i - 1] \in State /\ Was(f[i - 1], layout[i][2], f[i])
  <2>1. i - 1 \in 0 .. n
    OBVIOUS
  <2>2. f[i - 1] \in State /\ layout[i][2] \in Kind
    BY <1>2, <1>3, <2>1, Zenon
  <2>3. f[i] = ReadField(f[i - 1], layout[i])
    BY <1>2, Zenon
  <2> QED BY <1>7, <2>2, <2>3, FieldBack, Zenon
<1>8. \A k \in 0 .. n : f[n - k].err = "none"
  <2> DEFINE T == {k \in 0 .. n : f[n - k].err = "none"}
  <2>1. 0 \in T
    <3>1. n - 0 = n /\ 0 \in 0 .. n
      OBVIOUS
    <3> QED BY <1>6, <3>1, Zenon
  <2>2. ASSUME NEW k \in 0 .. n - 1, k \in T PROVE k + 1 \in T
    <3>1. PICK i \in 1 .. n : i = n - k /\ i - 1 = n - (k + 1)
      OBVIOUS
    <3>2. f[i].err = "none"
      BY <2>2, <3>1, Zenon
    <3>3. f[i - 1].err = "none"
      BY <1>7, <3>2, Zenon DEF Was
    <3>4. k + 1 \in 0 .. n
      OBVIOUS
    <3> QED BY <3>1, <3>3, <3>4, Zenon
  <2> HIDE DEF T
  <2>3. \A k \in 0 .. n : k \in T
    BY <2>1, <2>2, UpTo, Zenon
  <2> QED BY <2>3, Zenon DEF T
<1>9. ASSUME NEW i \in 1 .. n
      PROVE  f[i - 1] \in State /\ f[i] \in State /\ Was(f[i - 1], layout[i][2], f[i])
  <2>1. n - i \in 0 .. n /\ n - (n - i) = i /\ i \in 0 .. n
    OBVIOUS
  <2>2. f[i].err = "none"
    BY <1>8, <2>1, Zenon
  <2> QED BY <1>2, <1>7, <2>1, <2>2, Zenon
\* So i fields have been read after i steps.
<1>10. \A i \in 0 .. n : Len(f[i].fields) = i
  <2> DEFINE T == {i \in 0 .. n : Len(f[i].fields) = i}
  <2>1. 0 \in T
    BY <1>2
  <2>2. ASSUME NEW i \in 0 .. n - 1, i \in T PROVE i + 1 \in T
    <3>1. i + 1 \in 1 .. n /\ i + 1 \in 0 .. n /\ i + 1 - 1 = i
      OBVIOUS
    <3>2. f[i] \in State /\ Was(f[i], layout[i + 1][2], f[i + 1])
      BY <1>9, <3>1
    <3>3. PICK u \in Value : f[i + 1].fields = Append(f[i].fields, u)
      BY <3>2, Zenon DEF Was, Adds
    <3>4. f[i].fields \in Seq(Value) /\ Len(f[i].fields) = i
      BY <2>2, <3>2, Zenon DEF State
    <3>5. Len(f[i + 1].fields) = i + 1
      BY <3>3, <3>4, AppendProperties
    <3> QED BY <3>1, <3>5, Zenon
  <2> HIDE DEF T
  <2>3. \A i \in 0 .. n : i \in T
    BY <2>1, <2>2, UpTo, Zenon
  <2> QED BY <2>3, Zenon DEF T
<1>11. Len(v) = n
  BY <1>4, <1>10
\* The fields read so far are the first ones of the result.
<1>12. ASSUME NEW i \in 1 .. n, f[i].fields = SubSeq(v, 1, i)
       PROVE  /\ f[i - 1].fields = SubSeq(v, 1, i - 1)
              /\ IsValue(layout[i][2], v[i])
              /\ f[i - 1].rest = Write(layout[i][2], v[i]) \o f[i].rest
  <2>1. f[i - 1] \in State /\ Was(f[i - 1], layout[i][2], f[i])
    BY <1>9, Zenon
  <2>2. PICK u \in Value : /\ IsValue(layout[i][2], u)
                           /\ f[i - 1].rest = Write(layout[i][2], u) \o f[i].rest
                           /\ f[i].fields = Append(f[i - 1].fields, u)
    BY <2>1, Zenon DEF Was, Adds
  <2>3. f[i - 1].fields \in Seq(Value) /\ i \in 1 .. Len(v)
    BY <1>11, <2>1, Zenon DEF State
  <2>4. Append(f[i - 1].fields, u) = SubSeq(v, 1, i)
    BY <1>12, <2>2, Zenon
  <2>5. f[i - 1].fields = SubSeq(v, 1, i - 1) /\ u = v[i]
    BY <1>6, <2>3, <2>4, PrefixAppend, Zenon
  <2> QED BY <2>2, <2>5, Zenon
<1>13. \A k \in 0 .. n : f[n - k].fields = SubSeq(v, 1, n - k)
  <2> DEFINE T == {k \in 0 .. n : f[n - k].fields = SubSeq(v, 1, n - k)}
  <2>1. 0 \in T
    <3>1. n - 0 = n /\ 0 \in 0 .. n
      OBVIOUS
    <3>2. SubSeq(v, 1, n) = v
      BY <1>6, <1>11, SubSeqFull
    <3> QED BY <1>4, <3>1, <3>2, Zenon
  <2>2. ASSUME NEW k \in 0 .. n - 1, k \in T PROVE k + 1 \in T
    <3>1. PICK i \in 1 .. n : i = n - k /\ i - 1 = n - (k + 1)
      OBVIOUS
    <3>2. f[i].fields = SubSeq(v, 1, i)
      BY <2>2, <3>1, Zenon
    <3>3. f[i - 1].fields = SubSeq(v, 1, i - 1)
      BY <1>12, <3>2, Zenon
    <3>4. k + 1 \in 0 .. n
      OBVIOUS
    <3> QED BY <3>1, <3>3, <3>4, Zenon
  <2> HIDE DEF T
  <2>3. \A k \in 0 .. n : k \in T
    BY <2>1, <2>2, UpTo, Zenon
  <2> QED BY <2>3, Zenon DEF T
<1>14. ASSUME NEW i \in 1 .. n
       PROVE  /\ IsValue(layout[i][2], v[i])
              /\ f[i - 1].rest = Write(layout[i][2], v[i]) \o f[i].rest
  <2>1. n - i \in 0 .. n /\ n - (n - i) = i
    OBVIOUS
  <2>2. f[i].fields = SubSeq(v, 1, i)
    BY <1>13, <2>1, Zenon
  <2> QED BY <1>12, <2>2, Zenon
<1>15. Fits(layout, v)
  BY <1>0, <1>14, Zenon DEF Fits
\* What was read is what WriteFields writes, from the last field on.
<1>16. PICK g : Suffixes(layout, v, g) /\ WriteFields(layout, v) = g[1]
  BY <1>15, WriteForm, Zenon
<1>17. /\ g \in [1 .. n + 1 -> Seq(Byte)] /\ g[n + 1] = <<>>
       /\ \A i \in 1 .. n : g[i] = Write(layout[i][2], v[i]) \o g[i + 1]
  BY <1>0, <1>16, Zenon DEF Suffixes
<1>18. \A k \in 0 .. n : f[n - k].rest = g[n - k + 1] \o y
  <2> DEFINE T == {k \in 0 .. n : f[n - k].rest = g[n - k + 1] \o y}
  <2>1. 0 \in T
    <3>1. n - 0 = n /\ 0 \in 0 .. n
      OBVIOUS
    <3>2. <<>> \o y = y
      BY <1>6, ConcatEmptySeq
    <3> QED BY <1>5, <1>17, <3>1, <3>2, Zenon
  <2>2. ASSUME NEW k \in 0 .. n - 1, k \in T PROVE k + 1 \in T
    <3>1. PICK i \in 1 .. n : /\ i = n - k /\ i - 1 = n - (k + 1)
                              /\ i = n - (k + 1) + 1 /\ i + 1 \in 1 .. n + 1
      OBVIOUS
    <3>2. PICK x : x = Write(layout[i][2], v[i])
      OBVIOUS
    <3>3. x \in Seq(Byte) /\ g[i + 1] \in Seq(Byte)
      BY <1>3, <1>14, <1>17, <3>1, <3>2, WriteBytes, Zenon
    <3>4. f[i - 1].rest = x \o f[i].rest
      BY <1>14, <3>2, Zenon
    <3>5. f[i].rest = g[i + 1] \o y
      BY <2>2, <3>1, Zenon
    <3>6. g[i] = x \o g[i + 1]
      BY <1>17, <3>2, Zenon
    <3>7. (x \o g[i + 1]) \o y = x \o (g[i + 1] \o y)
      BY <1>6, <3>3, Regroup, Zenon
    <3>8. f[i - 1].rest = g[i] \o y
      BY <3>4, <3>5, <3>6, <3>7, Zenon
    <3>9. k + 1 \in 0 .. n
      OBVIOUS
    <3> QED BY <3>1, <3>8, <3>9, Zenon
  <2> HIDE DEF T
  <2>3. \A k \in 0 .. n : k \in T
    BY <2>1, <2>2, UpTo, Zenon
  <2> QED BY <2>3, Zenon DEF T
<1>19. r.rest = WriteFields(layout, v) \o y
  <2>1. n - n = 0 /\ 0 + 1 = 1 /\ n \in 0 .. n
    OBVIOUS
  <2> QED BY <1>2, <1>16, <1>18, <2>1, Zenon
<1> QED BY <1>0, <1>1, <1>4, <1>5, <1>6, <1>11, <1>15, <1>19, Zenon

-----------------------------------------------------------------------------
(* The layouts of the frame types.                                         *)
Names(layout) == {layout[i][1] : i \in DOMAIN layout}

Distinct(layout) ==
    \A i, j \in DOMAIN layout : layout[i][1] = layout[j][1] => i = j

Matches(layout, fields) ==
    /\ fields = [name \in Names(layout) |-> fields[name]]
    /\ \A i \in DOMAIN layout : fields[layout[i][1]] \in Sample[layout[i][2]]

\* The fields of type have distinct names, and they are what is written.
Described(type, layout) ==
    /\ IsLayout(layout) /\ Distinct(layout)
    /\ \A i \in DOMAIN layout : layout[i][2] \in DOMAIN Sample
    /\ \A fields \in FrameFields[type] : Matches(layout, fields)

LEMMA SampleKinds == DOMAIN Sample = Kind \ {"u32"}
BY CodecAssumption

Joined(a, b, t) == a \o b = t

LEMMA Join ==
    ASSUME NEW S, NEW a \in Seq(S), NEW b \in Seq(S), NEW t \in Seq(S),
           NEW m, NEW k, Len(a) = m, Len(b) = k, Len(t) = m + k,
           \A i \in 1 .. m : t[i] = a[i], \A i \in 1 .. k : t[m + i] = b[i]
    PROVE  Joined(a, b, t)
<1>1. m \in Nat /\ k \in Nat
  OBVIOUS
<1>2. PICK c : c = a \o b
  BY Zenon
<1>3. /\ c \in Seq(S) /\ Len(c) = m + k
      /\ \A i \in 1 .. m + k : c[i] = IF i <= m THEN a[i] ELSE b[i - m]
  BY <1>2, ConcatProperties, Zenon
<1>4. ASSUME NEW i \in 1 .. m + k PROVE c[i] = t[i]
  <2>1. CASE i <= m
    BY <1>1, <1>3, <2>1
  <2>2. CASE ~ (i <= m)
    <3>1. PICK j \in 1 .. k : i = m + j /\ i - m = j
      BY <1>1, <2>2
    <3>2. c[i] = b[j]
      BY <1>3, <2>2, <3>1, Zenon
    <3> QED BY <3>1, <3>2, Zenon
  <2> QED BY <2>1, <2>2
<1>5. c = t
  BY <1>3, <1>4, SeqEqual
<1> QED BY <1>2, <1>5 DEF Joined

LEMMA OneReader == Written = Expected
<1>1. KemPayload_write = KemPayload_read
  BY DEF KemPayload_write, KemPayload_read
<1> QED BY <1>1, Zenon DEF Written, Expected

LEMMA ClientHelloOneRtt_layout == Described("ClientHelloOneRtt", Written["ClientHelloOneRtt"])
<1>1. PICK layout :
        layout = <<<<"suite_id", "u16">>, <<"client_pk", "bytes16">>>>
  BY Zenon
<1>2. Written["ClientHelloOneRtt"] = layout
  BY <1>1 DEF Written, suite_id, client_pk
<1>3. IsLayout(layout)
  BY <1>1 DEF IsLayout, Kind, IntKind, ArrayKind, LengthPrefix
<1>4. Distinct(layout)
  BY <1>1 DEF Distinct
<1>5. \A i \in DOMAIN layout : layout[i][2] \in DOMAIN Sample
  BY <1>1, SampleKinds DEF Kind, IntKind, ArrayKind, LengthPrefix
<1>6. ASSUME NEW fields \in FrameFields["ClientHelloOneRtt"]
      PROVE  Matches(layout, fields)
  <2> DEFINE N == {"suite_id", "client_pk"}
  <2>1. fields \in [suite_id : Sample["u16"], client_pk : Sample["bytes16"]]
    BY DEF FrameFields
  <2>2. Names(layout) = N
    BY <1>1 DEF Names
  <2>3. fields = [name \in N |-> fields[name]]
    BY <2>1
  <2>4. \A i \in DOMAIN layout : fields[layout[i][1]] \in Sample[layout[i][2]]
    BY <1>1, <2>1
  <2> QED BY <2>2, <2>3, <2>4, Zenon DEF Matches
<1> QED BY <1>2, <1>3, <1>4, <1>5, <1>6, Zenon DEF Described

LEMMA ClientHelloZeroRtt_layout == Described("ClientHelloZeroRtt", Written["ClientHelloZeroRtt"])
<1>1. PICK layout :
        layout = <<<<"suite_id", "u16">>, <<"client_pk", "bytes16">>,
                   <<"ciphertext", "bytes16">>, <<"src_ip", "array16">>,
                   <<"ts_millis", "u64">>, <<"nonce", "array32">>,
                   <<"client_sig", "bytes16">>, <<"enc_data", "bytes32">>>>
  BY Zenon
<1>2. Written["ClientHelloZeroRtt"] = layout
  <2>1. PICK a : a = <<suite_id, client_pk>>
    BY Zenon
  <2>2. PICK b : b = KemPayload_write
    OBVIOUS
  <2>0. PICK S : \A i \in 1 .. 8 : layout[i] \in S
    <3> DEFINE S == {layout[i] : i \in 1 .. 8}
    <3>1. \A i \in 1 .. 8 : layout[i] \in S
      OBVIOUS
    <3> QED BY <3>1, Zenon
  <2>3. layout \in Seq(S) /\ Len(layout) = 2 + 6
    BY <1>1, <2>0
  <2>4. \A i \in 1 .. 2 : layout[i] = a[i]
    BY <1>1, <2>1 DEF suite_id, client_pk
  <2>5. \A i \in 1 .. 6 : layout[2 + i] = b[i]
    BY <1>1, <2>2 DEF KemPayload_write
  <2>6. a \in Seq(S) /\ Len(a) = 2
    <3>1. \A i \in 1 .. 2 : a[i] \in S
      BY <2>0, <2>4
    <3> QED BY <2>1, <3>1
  <2>7. b \in Seq(S) /\ Len(b) = 6
    <3>1. \A i \in 1 .. 6 : b[i] \in S
      BY <2>0, <2>5
    <3> QED BY <2>2, <3>1 DEF KemPayload_write
  <2>8. Joined(a, b, layout)
    BY <2>3, <2>4, <2>5, <2>6, <2>7, Join, Zenon
  <2> QED BY <2>1, <2>2, <2>8, Zenon DEF Written, Joined
<1>3. IsLayout(layout)
  BY <1>1 DEF IsLayout, Kind, IntKind, ArrayKind, LengthPrefix
<1>4. Distinct(layout)
  BY <1>1 DEF Distinct
<1>5. \A i \in DOMAIN layout : layout[i][2] \in DOMAIN Sample
  BY <1>1, SampleKinds DEF Kind, IntKind, ArrayKind, LengthPrefix
<1>6. ASSUME NEW fields \in FrameFields["ClientHelloZeroRtt"]
      PROVE  Matches(layout, fields)
  <2> DEFINE N == {"suite_id", "client_pk", "ciphertext", "src_ip",
                   "ts_millis", "nonce", "client_sig", "enc_data"}
  <2>1. fields \in [suite_id : Sample["u16"], client_pk : Sample["bytes16"],
                  ciphertext : Sample["bytes16"],
                  src_ip : Sample["array16"], ts_millis : Sample["u64"],
                  nonce : Sample["array32"], client_sig : Sample["bytes16"],
                  enc_data : Sample["bytes32"]]
    BY DEF FrameFields
  <2>2. Names(layout) = N
    BY <1>1 DEF Names
  <2>3. fields = [name \in N |-> fields[name]]
    BY <2>1
  <2>4. \A i \in DOMAIN layout : fields[layout[i][1]] \in Sample[layout[i][2]]
    BY <1>1, <2>1
  <2> QED BY <2>2, <2>3, <2>4, Zenon DEF Matches
<1> QED BY <1>2, <1>3, <1>4, <1>5, <1>6, Zenon DEF Described

LEMMA ClientData_layout == Described("ClientData", Written["ClientData"])
<1>1. PICK layout :
        layout = <<<<"client_pk", "bytes16">>, <<"ciphertext", "bytes16">>,
                   <<"src_ip", "array16">>, <<"ts_millis", "u64">>,
                   <<"nonce", "array32">>, <<"client_sig", "bytes16">>,
                   <<"enc_data", "bytes32">>>>
  BY Zenon
<1>2. Written["ClientData"] = layout
  <2>1. PICK a : a = <<client_pk>>
    BY Zenon
  <2>2. PICK b : b = KemPayload_write
    OBVIOUS
  <2>0. PICK S : \A i \in 1 .. 7 : layout[i] \in S
    <3> DEFINE S == {layout[i] : i \in 1 .. 7}
    <3>1. \A i \in 1 .. 7 : layout[i] \in S
      OBVIOUS
    <3> QED BY <3>1, Zenon
  <2>3. layout \in Seq(S) /\ Len(layout) = 1 + 6
    BY <1>1, <2>0
  <2>4. \A i \in 1 .. 1 : layout[i] = a[i]
    BY <1>1, <2>1 DEF suite_id, client_pk
  <2>5. \A i \in 1 .. 6 : layout[1 + i] = b[i]
    BY <1>1, <2>2 DEF KemPayload_write
  <2>6. a \in Seq(S) /\ Len(a) = 1
    <3>1. \A i \in 1 .. 1 : a[i] \in S
      BY <2>0, <2>4
    <3> QED BY <2>1, <3>1
  <2>7. b \in Seq(S) /\ Len(b) = 6
    <3>1. \A i \in 1 .. 6 : b[i] \in S
      BY <2>0, <2>5
    <3> QED BY <2>2, <3>1 DEF KemPayload_write
  <2>8. Joined(a, b, layout)
    BY <2>3, <2>4, <2>5, <2>6, <2>7, Join, Zenon
  <2> QED BY <2>1, <2>2, <2>8, Zenon DEF Written, Joined
<1>3. IsLayout(layout)
  BY <1>1 DEF IsLayout, Kind, IntKind, ArrayKind, LengthPrefix
<1>4. Distinct(layout)
  BY <1>1 DEF Distinct
<1>5. \A i \in DOMAIN layout : layout[i][2] \in DOMAIN Sample
  BY <1>1, SampleKinds DEF Kind, IntKind, ArrayKind, LengthPrefix
<1>6. ASSUME NEW fields \in FrameFields["ClientData"]
      PROVE  Matches(layout, fields)
  <2> DEFINE N == {"client_pk", "ciphertext", "src_ip", "ts_millis",
                   "nonce", "client_sig", "enc_data"}
  <2>1. fields \in [client_pk : Sample["bytes16"],
                  ciphertext : Sample["bytes16"],
                  src_ip : Sample["array16"], ts_millis : Sample["u64"],
                  nonce : Sample["array32"], client_sig : Sample["bytes16"],
                  enc_data : Sample["bytes32"]]
    BY DEF FrameFields
  <2>2. Names(layout) = N
    BY <1>1 DEF Names
  <2>3. fields = [name \in N |-> fields[name]]
    BY <2>1
  <2>4. \A i \in DOMAIN layout : fields[layout[i][1]] \in Sample[layout[i][2]]
    BY <1>1, <2>1
  <2> QED BY <2>2, <2>3, <2>4, Zenon DEF Matches
<1> QED BY <1>2, <1>3, <1>4, <1>5, <1>6, Zenon DEF Described

LEMMA ServerHello_layout == Described("ServerHello", Written["ServerHello"])
<1>1. PICK layout :
        layout = <<<<"suite_id", "u16">>, <<"server_pk", "bytes16">>,
                   <<"certificate", "bytes32">>, <<"server_ts", "u64">>>>
  BY Zenon
<1>2. Written["ServerHello"] = layout
  BY <1>1 DEF Written, suite_id, client_pk
<1>3. IsLayout(layout)
  BY <1>1 DEF IsLayout, Kind, IntKind, ArrayKind, LengthPrefix
<1>4. Distinct(layout)
  BY <1>1 DEF Distinct
<1>5. \A i \in DOMAIN layout : layout[i][2] \in DOMAIN Sample
  BY <1>1, SampleKinds DEF Kind, IntKind, ArrayKind, LengthPrefix
<1>6. ASSUME NEW fields \in FrameFields["ServerHello"]
      PROVE  Matches(layout, fields)
  <2> DEFINE N == {"suite_id", "server_pk", "certificate", "server_ts"}
  <2>1. fields \in [suite_id : Sample["u16"], server_pk : Sample["bytes16"],
                  certificate : Sample["bytes32"], server_ts : Sample["u64"]]
    BY DEF FrameFields
  <2>2. Names(layout) = N
    BY <1>1 DEF Names
  <2>3. fields = [name \in N |-> fields[name]]
    BY <2>1
  <2>4. \A i \in DOMAIN layout : fields[layout[i][1]] \in Sample[layout[i][2]]
    BY <1>1, <2>1
  <2> QED BY <2>2, <2>3, <2>4, Zenon DEF Matches
<1> QED BY <1>2, <1>3, <1>4, <1>5, <1>6, Zenon DEF Described

LEMMA ServerAck_layout == Described("ServerAck", Written["ServerAck"])
<1>1. PICK layout :
        layout = <<<<"ek_hash", "bytes16">>>>
  BY Zenon
<1>2. Written["ServerAck"] = layout
  BY <1>1 DEF Written, suite_id, client_pk
<1>3. IsLayout(layout)
  BY <1>1 DEF IsLayout, Kind, IntKind, ArrayKind, LengthPrefix
<1>4. Distinct(layout)
  BY <1>1 DEF Distinct
<1>5. \A i \in DOMAIN layout : layout[i][2] \in DOMAIN Sample
  BY <1>1, SampleKinds DEF Kind, IntKind, ArrayKind, LengthPrefix
<1>6. ASSUME NEW fields \in FrameFields["ServerAck"]
      PROVE  Matches(layout, fields)
  <2> DEFINE N == {"ek_hash"}
  <2>1. fields \in [ek_hash : Sample["bytes16"]]
    BY DEF FrameFields
  <2>2. Names(layout) = N
    BY <1>1 DEF Names
  <2>3. fields = [name \in N |-> fields[name]]
    BY <2>1
  <2>4. \A i \in DOMAIN layout : fields[layout[i][1]] \in Sample[layout[i][2]]
    BY <1>1, <2>1
  <2> QED BY <2>2, <2>3, <2>4, Zenon DEF Matches
<1> QED BY <1>2, <1>3, <1>4, <1>5, <1>6, Zenon DEF Described

LEMMA DataRecord_layout == Described("DataRecord", Written["DataRecord"])
<1>1. PICK layout :
        layout = <<<<"dir", "u8">>, <<"ciphertext", "bytes32">>>>
  BY Zenon
<1>2. Written["DataRecord"] = layout
  BY <1>1 DEF Written, suite_id, client_pk
<1>3. IsLayout(layout)
  BY <1>1 DEF IsLayout, Kind, IntKind, ArrayKind, LengthPrefix
<1>4. Distinct(layout)
  BY <1>1 DEF Distinct
<1>5. \A i \in DOMAIN layout : layout[i][2] \in DOMAIN Sample
  BY <1>1, SampleKinds DEF Kind, IntKind, ArrayKind, LengthPrefix
<1>6. ASSUME NEW fields \in FrameFields["DataRecord"]
      PROVE  Matches(layout, fields)
  <2> DEFINE N == {"dir", "ciphertext"}
  <2>1. fields \in [dir : Sample["u8"], ciphertext : Sample["bytes32"]]
    BY DEF FrameFields
  <2>2. Names(layout) = N
    BY <1>1 DEF Names
  <2>3. fields = [name \in N |-> fields[name]]
    BY <2>1
  <2>4. \A i \in DOMAIN layout : fields[layout[i][1]] \in Sample[layout[i][2]]
    BY <1>1, <2>1
  <2> QED BY <2>2, <2>3, <2>4, Zenon DEF Matches
<1> QED BY <1>2, <1>3, <1>4, <1>5, <1>6, Zenon DEF Described

LEMMA Close_layout == Described("Close", Written["Close"])
<1>1. PICK layout :
        layout = <<>>
  BY Zenon
<1>2. Written["Close"] = layout
  BY <1>1 DEF Written, suite_id, client_pk
<1>3. IsLayout(layout)
  BY <1>1 DEF IsLayout, Kind, IntKind, ArrayKind, LengthPrefix
<1>4. Distinct(layout)
  BY <1>1 DEF Distinct
<1>5. \A i \in DOMAIN layout : layout[i][2] \in DOMAIN Sample
  BY <1>1, SampleKinds DEF Kind, IntKind, ArrayKind, LengthPrefix
<1>6. ASSUME NEW fields \in FrameFields["Close"]
      PROVE  Matches(layout, fields)
  <2>1. fields = <<>> /\ Names(layout) = {}
    BY <1>1 DEF FrameFields, Names
  <2> QED BY <1>1, <2>1 DEF Matches
<1> QED BY <1>2, <1>3, <1>4, <1>5, <1>6, Zenon DEF Described

-----------------------------------------------------------------------------
(* The tag.                                                                *)
LEMMA Types ==
    /\ DOMAIN from_u8 = 1 .. 7
    /\ \A t \in 1 .. 7 : from_u8[t] \in DOMAIN FrameFields
    /\ \A t, u \in 1 .. 7 : from_u8[t] = from_u8[u] => t = u
    /\ \A type \in DOMAIN FrameFields : \E t \in 1 .. 7 : from_u8[t] = type
<1>1. DOMAIN from_u8 = 1 .. 7
  BY DEF from_u8
<1>2. \A t \in 1 .. 7 : from_u8[t] \in DOMAIN FrameFields
  BY DEF from_u8, FrameFields
<1>3. \A t, u \in 1 .. 7 : from_u8[t] = from_u8[u] => t = u
  BY DEF from_u8
<1>4. \A type \in DOMAIN FrameFields : \E t \in 1 .. 7 : from_u8[t] = type
  BY DEF from_u8, FrameFields
<1> QED BY <1>1, <1>2, <1>3, <1>4, Zenon

LEMMA TagOfType ==
    /\ \A t \in 1 .. 7 : tag(from_u8[t]) = t
    /\ \A type \in DOMAIN FrameFields :
           tag(type) \in 1 .. 7 /\ from_u8[tag(type)] = type
<1>1. ASSUME NEW t \in 1 .. 7 PROVE tag(from_u8[t]) = t
  BY DEF tag, FrameType, from_u8
<1>2. ASSUME NEW type \in DOMAIN FrameFields
      PROVE  tag(type) \in 1 .. 7 /\ from_u8[tag(type)] = type
  <2>1. PICK t \in 1 .. 7 : from_u8[t] = type
    BY Types, Zenon
  <2> QED BY <1>1, <2>1, Zenon
<1> QED BY <1>1, <1>2, Zenon

LEMMA Layouts ==
    \A type \in DOMAIN FrameFields : Described(type, Written[type])
<1>1. ASSUME NEW type \in DOMAIN FrameFields
      PROVE  type \in {"ClientHelloOneRtt", "ClientHelloZeroRtt", "ClientData",
                       "ServerHello", "ServerAck", "DataRecord", "Close"}
  BY DEF FrameFields
<1> QED BY <1>1, ClientHelloOneRtt_layout, ClientHelloZeroRtt_layout,
           ClientData_layout, ServerHello_layout, ServerAck_layout,
           DataRecord_layout, Close_layout, Zenon

LEMMA TagByte == \A t \in 1 .. 7 : t \in Byte
BY CodecAssumption DEF Byte

LEMMA OneDigit ==
    ASSUME NEW t \in Byte
    PROVE  /\ <<t>> \in Seq(Byte) /\ Len(<<t>>) = 1
           /\ from_be_bytes(<<t>>) = t
<1>1. PICK s : s = <<t>>
  BY Zenon
<1>2. s \in Seq(Byte) /\ Len(s) = 1 /\ s[1] = t
  BY <1>1
<1>3. PICK v : Values(s, v) /\ from_be_bytes(s) = v[Len(s)]
  BY <1>2, FromDigits, Zenon
<1>4. v[0] = 0 /\ v[1] = v[1 - 1] * Base + t
  BY <1>2, <1>3 DEF Values
<1>5. t \in Nat /\ Base \in Nat
  BY CodecAssumption DEF Byte
<1>6. v[1] = t
  BY <1>4, <1>5
<1> QED BY <1>1, <1>2, <1>3, <1>6, Zenon

\* A byte in front of y.
Cons(t, y) == <<t>> \o y

LEMMA ConsBytes ==
    ASSUME NEW t \in Byte, NEW y \in Seq(Byte)
    PROVE  /\ Cons(t, y) \in Seq(Byte) /\ Len(Cons(t, y)) = Len(y) + 1
           /\ \A x \in Seq(Byte) : Cons(t, y) \o x = Cons(t, y \o x)
<1>1. PICK s \in Seq(Byte) : s = <<t>> /\ Len(s) = 1
  BY OneDigit, Zenon
<1>2. s \o y \in Seq(Byte) /\ Len(s \o y) = Len(y) + 1
  BY <1>1
<1>3. \A x \in Seq(Byte) : (s \o y) \o x = s \o (y \o x)
  BY Regroup, Zenon
<1> QED BY <1>1, <1>2, <1>3, Zenon DEF Cons

LEMMA ConsJoin ==
    \A t \in Byte : \A y, x \in Seq(Byte) : Cons(t, y) \o x = Cons(t, y \o x)
BY ConsBytes, Zenon

LEMMA ConsSame ==
    ASSUME NEW t \in Byte, NEW y \in Seq(Byte), NEW u \in Byte,
           NEW z \in Seq(Byte), Cons(t, y) = Cons(u, z)
    PROVE  t = u /\ y = z
<1>1. PICK s \in Seq(Byte) : s = <<t>> /\ Len(s) = 1 /\ s[1] = t
  <2>1. <<t>>[1] = t
    OBVIOUS
  <2> QED BY <2>1, OneDigit, Zenon
<1>2. PICK p \in Seq(Byte) : p = <<u>> /\ Len(p) = 1 /\ p[1] = u
  <2>1. <<u>>[1] = u
    OBVIOUS
  <2> QED BY <2>1, OneDigit, Zenon
<1>3. s \o y = p \o z
  BY <1>1, <1>2, Zenon DEF Cons
<1>4. (s \o y)[1] = s[1]
  BY <1>1
<1>5. (p \o z)[1] = p[1]
  BY <1>2
<1>6. t = u
  BY <1>1, <1>2, <1>3, <1>4, <1>5, Zenon
<1>7. s \o y = s \o z
  BY <1>1, <1>2, <1>3, <1>6, Zenon
<1>8. y = z
  BY <1>7, ConcatSimplifications, Zenon
<1> QED BY <1>6, <1>8, Zenon

LEMMA Single ==
    ASSUME NEW s \in Seq(Byte), Len(s) = 1
    PROVE  \E t \in Byte : s = <<t>>
<1>1. PICK t \in Byte : t = s[1]
  OBVIOUS
<1>2. PICK u : u = <<t>>
  BY Zenon
<1>3. u \in Seq(Byte) /\ Len(u) = 1 /\ u[1] = t
  BY <1>2
<1>4. s = u
  BY <1>1, <1>3, SeqEqual
<1> QED BY <1>2, <1>4, Zenon

LEMMA ConsOf ==
    ASSUME NEW b \in Seq(Byte), Len(b) # 0
    PROVE  \E t \in Byte, y \in Seq(Byte) : b = Cons(t, y)
<1>1. 1 \in 0 .. Len(b)
  OBVIOUS
<1>2. PICK s, y \in Seq(Byte) : Len(s) = 1 /\ b = s \o y
  <2> DEFINE p == SubSeq(b, 1, 1)
             q == SubSeq(b, 1 + 1, Len(b))
  <2>1. p \in Seq(Byte) /\ Len(p) = 1 /\ q \in Seq(Byte) /\ b = p \o q
    BY <1>1, Split, Zenon
  <2> HIDE DEF p, q
  <2> QED BY <2>1, Zenon
<1>3. PICK t \in Byte : s = <<t>>
  BY <1>2, Single, Zenon
<1> QED BY <1>2, <1>3, Zenon DEF Cons

LEMMA ReaderState ==
    ASSUME NEW b \in Seq(Byte)
    PROVE  /\ Reader(b) \in State /\ Reader(b).err = "none"
           /\ Reader(b).rest = b /\ Reader(b).fields = <<>>
BY DEF Reader, State, Value

LEMMA TagKind == "u8" \in IntKind /\ Width["u8"] = 1
BY CodecAssumption DEF IntKind

LEMMA TagForward ==
    ASSUME NEW t \in Byte, NEW y \in Seq(Byte)
    PROVE  Returns(Reader(Cons(t, y)), t, y, ReadInt(Reader(Cons(t, y)), "u8"))
<1>1. PICK s : s = <<t>>
  BY Zenon
<1>2. s \in Seq(Byte) /\ Len(s) = 1 /\ from_be_bytes(s) = t
  BY <1>1, OneDigit, Zenon
<1>3. t \in Uint(1) /\ to_be_bytes(t, 1) = s
  BY <1>2, UintRead, Zenon
<1>4. PICK b \in Seq(Byte) : b = s \o y
  BY <1>2, Unsplit, Zenon
<1>5. Returns(Reader(b), t, y, ReadInt(Reader(b), "u8"))
  <2>1. t \in Uint(Width["u8"]) /\ Reader(b).rest = to_be_bytes(t, Width["u8"]) \o y
    BY <1>3, <1>4, TagKind, ReaderState, Zenon
  <2> QED BY <2>1, TagKind, ReaderState, IntForward, Zenon
<1>6. b = Cons(t, y)
  BY <1>1, <1>4, Zenon DEF Cons
<1> QED BY <1>5, <1>6, Zenon

LEMMA NoTag == ReadInt(Reader(<<>>), "u8").err = "Truncated"
<1>1. <<>> \in Seq(Byte) /\ Len(<<>>) < 1
  OBVIOUS
<1>2. PICK r \in State : r = Reader(<<>>) /\ r.rest = <<>>
  BY <1>1, ReaderState, Zenon
<1>3. take(r, 1) = [r EXCEPT !.err = "Truncated"]
  BY <1>1, <1>2, Zenon DEF take
<1>4. [r EXCEPT !.err = "Truncated"].err = "Truncated" /\ "Truncated" # "none"
  BY DEF State
<1>5. ReadInt(r, "u8") = take(r, 1)
  BY <1>3, <1>4, TagKind, Zenon DEF ReadInt
<1> QED BY <1>2, <1>3, <1>4, <1>5, Zenon

-----------------------------------------------------------------------------
(* Frame::decode.                                                          *)
\* What decode makes of the state ReadFields ends in.
Outcome(type, s) ==
    IF s.err # "none" THEN Err(s.err)
    ELSE IF s.rest # <<>> THEN Err("TrailingBytes")
    ELSE Ok([type |-> type, fields |-> Named(Written[type], s.fields)])

LEMMA EndChecked ==
    ASSUME NEW type, NEW s \in State
    PROVE  Outcome(type, s) =
             IF expect_end(s).err # "none" THEN Err(expect_end(s).err)
             ELSE Ok([type |-> type,
                      fields |-> Named(Written[type], expect_end(s).fields)])
<1>1. CASE s.err # "none"
  BY <1>1, Zenon DEF Outcome, expect_end
<1>2. CASE s.err = "none" /\ s.rest # <<>>
  <2>1. expect_end(s) = [s EXCEPT !.err = "TrailingBytes"]
    BY <1>2, Zenon DEF expect_end
  <2>2. [s EXCEPT !.err = "TrailingBytes"].err = "TrailingBytes"
    BY DEF State
  <2>3. expect_end(s).err = "TrailingBytes" /\ "TrailingBytes" # "none"
    BY <2>1, <2>2
  <2> QED BY <1>2, <2>3, Zenon DEF Outcome
<1>3. CASE s.err = "none" /\ s.rest = <<>>
  BY <1>3, Zenon DEF Outcome, expect_end
<1> QED BY <1>1, <1>2, <1>3, Zenon

LEMMA DecodeForward ==
    ASSUME NEW t \in 1 .. 7, NEW y \in Seq(Byte)
    PROVE  \E r \in State :
             /\ r.err = "none" /\ r.fields = <<>> /\ r.rest = y
             /\ decode(Cons(t, y)) =
                  Outcome(from_u8[t], ReadFields(r, Written[from_u8[t]]))
<1>1. PICK b : b = Cons(t, y)
  BY Zenon
<1>2. PICK r : r = ReadInt(Reader(b), "u8")
  BY Zenon
<1>3. Returns(Reader(b), t, y, r)
  BY <1>1, <1>2, TagByte, TagForward, Zenon
<1>4. b \in Seq(Byte)
  BY <1>1, TagByte, ConsBytes, Zenon
<1>5. /\ r \in State /\ r.err = "none" /\ r.value = t /\ r.rest = y
      /\ r.fields = <<>>
  BY <1>3, <1>4, ReaderState, Zenon DEF Returns
<1>6. PICK type : type = from_u8[t] /\ type \in DOMAIN FrameFields
  BY Types, Zenon
<1>7. PICK s : s = ReadFields(r, Written[type])
  BY Zenon
<1>8. s \in State
  BY <1>5, <1>6, <1>7, Layouts, FieldsState, Zenon DEF Described
<1>9. decode(b) = IF expect_end(s).err # "none" THEN Err(expect_end(s).err)
                  ELSE Ok([type |-> type,
                           fields |-> Named(Written[type], expect_end(s).fields)])
  <2>1. t \in DOMAIN from_u8
    BY Types, Zenon
  <2> QED BY <1>2, <1>5, <1>6, <1>7, <2>1, OneReader, Zenon DEF decode
<1>10. decode(b) = Outcome(type, s)
  BY <1>8, <1>9, EndChecked, Zenon
<1> QED BY <1>1, <1>5, <1>6, <1>7, <1>10, Zenon

LEMMA DecodeBack ==
    ASSUME NEW b \in Seq(Byte), decode(b).err = "none"
    PROVE  \E t \in 1 .. 7, y \in Seq(Byte) : b = Cons(t, y)
<1>1. PICK r : r = ReadInt(Reader(b), "u8")
  BY Zenon
<1>2. ASSUME NEW e PROVE Err(e).err = e
  BY DEF Err
<1>3. r.err = "none"
  <2>1. SUFFICES ASSUME r.err # "none" PROVE FALSE
    BY Zenon
  <2>2. decode(b) = Err(r.err)
    BY <1>1, <2>1, Zenon DEF decode
  <2> QED BY <1>2, <2>1, <2>2, Zenon
<1>4. PICK t \in Byte, y \in Seq(Byte) : b = Cons(t, y)
  <2>1. "none" # "Truncated"
    OBVIOUS
  <2>2. b # <<>>
    BY <1>1, <1>3, <2>1, NoTag, Zenon
  <2>3. Len(b) # 0
    BY <2>2, EmptySeq
  <2> QED BY <2>3, ConsOf, Zenon
<1>5. r.value = t
  BY <1>1, <1>4, TagForward, Zenon DEF Returns
<1>6. t \in 1 .. 7
  <2>1. SUFFICES ASSUME t \notin 1 .. 7 PROVE FALSE
    BY Zenon
  <2>2. decode(b) = Err("UnknownFrameType")
    BY <1>1, <1>3, <1>5, <2>1, Types, Zenon DEF decode
  <2>3. decode(b).err = "UnknownFrameType" /\ "UnknownFrameType" # "none"
    BY <1>2, <2>2
  <2> QED BY <2>3, Zenon
<1> QED BY <1>4, <1>6, Zenon

-----------------------------------------------------------------------------
(* Frame::encode.                                                          *)
\* The values of the fields of f, in the order they are written.
Fields(f) ==
    [i \in DOMAIN Written[f.type] |-> f.fields[Written[f.type][i][1]]]

LEMMA FrameWritten ==
    ASSUME NEW f \in Frames
    PROVE  /\ f.type \in DOMAIN FrameFields /\ IsLayout(Written[f.type])
           /\ Fields(f) \in Seq(Value) /\ Len(Fields(f)) = Len(Written[f.type])
           /\ Fits(Written[f.type], Fields(f))
           /\ f = [type |-> f.type, fields |-> Named(Written[f.type], Fields(f))]
           /\ encode(f) = Cons(tag(f.type), WriteFields(Written[f.type], Fields(f)))
<1>1. PICK type \in DOMAIN FrameFields : f \in [type : {type}, fields : FrameFields[type]]
  BY Zenon DEF Frames
<1>2. PICK fields \in FrameFields[type] : f = [type |-> type, fields |-> fields]
  BY <1>1
<1>3. f.type = type /\ f.fields = fields
  BY <1>2
<1>4. PICK layout : layout = Written[type]
  BY Zenon
<1>5. Described(type, layout)
  BY <1>4, Layouts, Zenon
<1>6. PICK n \in Nat : n = Len(layout) /\ DOMAIN layout = 1 .. n
  BY <1>5, Zenon DEF Described, IsLayout
<1>7. PICK v : v = Fields(f)
  BY Zenon
<1>8. v = [i \in 1 .. n |-> fields[layout[i][1]]]
  BY <1>3, <1>4, <1>6, <1>7, Zenon DEF Fields
<1>9. ASSUME NEW i \in 1 .. n
      PROVE  layout[i][2] \in Kind /\ IsValue(layout[i][2], v[i]) /\ v[i] \in Value
  <2>1. v[i] = fields[layout[i][1]]
    BY <1>8, Zenon
  <2>2. v[i] \in Sample[layout[i][2]] /\ layout[i][2] \in DOMAIN Sample
    BY <1>5, <1>6, <2>1, Zenon DEF Described, Matches
  <2>3. layout[i][2] \in Kind
    BY <1>5, <1>6, Zenon DEF Described, IsLayout
  <2>4. IsValue(layout[i][2], v[i])
    BY <2>2, CodecAssumption, Zenon
  <2> QED BY <2>3, <2>4, WriteBytes, Zenon
<1>10. v \in [1 .. n -> Value]
  BY <1>8, <1>9, Zenon
<1>11. v \in Seq(Value) /\ Len(v) = n
  BY <1>10
<1>12. Fits(layout, v)
  BY <1>6, <1>9, Zenon DEF Fits
<1>13. Named(layout, v) = fields
  <2>1. fields = [name \in Names(layout) |-> fields[name]]
    BY <1>5, Zenon DEF Described, Matches
  <2>2. ASSUME NEW name \in Names(layout)
        PROVE  v[CHOOSE i \in DOMAIN layout : layout[i][1] = name] = fields[name]
    <3>1. PICK j \in DOMAIN layout : layout[j][1] = name
      BY Zenon DEF Names
    <3>2. PICK k : k = CHOOSE i \in DOMAIN layout : layout[i][1] = name
      BY Zenon
    <3>3. k \in DOMAIN layout /\ layout[k][1] = name
      BY <3>1, <3>2, Zenon
    <3>4. v[k] = fields[layout[k][1]]
      BY <1>6, <1>8, <3>3, Zenon
    <3> QED BY <3>2, <3>3, <3>4, Zenon
  <2>3. Named(layout, v) = [name \in Names(layout) |->
                              v[CHOOSE i \in DOMAIN layout : layout[i][1] = name]]
    BY Zenon DEF Named, Names
  <2> QED BY <2>1, <2>2, <2>3, Zenon
<1>14. encode(f) = Cons(tag(type), WriteFields(layout, v))
  BY <1>3, <1>4, <1>7, Zenon DEF encode, Fields, Cons
<1>15. IsLayout(layout)
  BY <1>5, Zenon DEF Described
<1>16. f = [type |-> type, fields |-> Named(layout, v)]
  BY <1>2, <1>13, Zenon
<1> QED BY <1>3, <1>4, <1>6, <1>7, <1>11, <1>12, <1>14, <1>15, <1>16, Zenon

\* The body of f, with x behind it.
Behind(f, x) == IF x = <<>> THEN Ok(f) ELSE Err("TrailingBytes")

LEMMA WrittenBytes ==
    ASSUME NEW layout, IsLayout(layout), NEW v, Fits(layout, v)
    PROVE  WriteFields(layout, v) \in Seq(Byte)
<1>1. PICK g : Suffixes(layout, v, g) /\ WriteFields(layout, v) = g[1]
  BY WriteForm, Zenon
<1>2. PICK n \in Nat : n = Len(layout)
  BY Zenon DEF IsLayout
<1>3. 1 \in 1 .. n + 1
  OBVIOUS
<1> QED BY <1>1, <1>2, <1>3, Zenon DEF Suffixes

LEMMA EncodedBytes ==
    ASSUME NEW f \in Frames
    PROVE  \E t \in 1 .. 7, w \in Seq(Byte) :
             /\ from_u8[t] = f.type /\ t \in Byte
             /\ w = WriteFields(Written[f.type], Fields(f))
             /\ encode(f) = Cons(t, w) /\ encode(f) \in Seq(Byte)
<1>1. PICK t \in 1 .. 7 : t = tag(f.type) /\ from_u8[t] = f.type /\ t \in Byte
  BY FrameWritten, TagOfType, TagByte, Zenon
<1>2. PICK w \in Seq(Byte) : w = WriteFields(Written[f.type], Fields(f))
  BY FrameWritten, WrittenBytes, Zenon
<1>3. Cons(t, w) \in Seq(Byte)
  BY <1>1, ConsBytes, Zenon
<1>4. encode(f) = Cons(t, w)
  BY <1>1, <1>2, FrameWritten, Zenon
<1> QED BY <1>1, <1>2, <1>3, <1>4, Zenon

LEMMA DecodeBody ==
    ASSUME NEW f \in Frames, NEW x \in Seq(Byte)
    PROVE  decode(encode(f) \o x) = Behind(f, x)
<1>1. PICK t \in 1 .. 7, w \in Seq(Byte) :
        /\ from_u8[t] = f.type /\ t \in Byte
        /\ w = WriteFields(Written[f.type], Fields(f)) /\ encode(f) = Cons(t, w)
  BY EncodedBytes, Zenon
<1>2. PICK type, layout, v :
        type = f.type /\ layout = Written[type] /\ v = Fields(f)
  BY Zenon
<1>3. /\ IsLayout(layout) /\ v \in Seq(Value) /\ Len(v) = Len(layout)
      /\ Fits(layout, v) /\ f = [type |-> type, fields |-> Named(layout, v)]
  BY <1>2, FrameWritten, Zenon
<1>4. PICK y \in Seq(Byte) : y = w \o x
  BY Unsplit, Zenon
<1>5. encode(f) \o x = Cons(t, y)
  <2>1. Cons(t, w) \o x = Cons(t, w \o x)
    BY <1>1, ConsJoin, Zenon
  <2> QED BY <1>1, <1>4, <2>1, Zenon
<1>6. PICK r \in State :
        /\ r.err = "none" /\ r.fields = <<>> /\ r.rest = y
        /\ decode(Cons(t, y)) =
             Outcome(from_u8[t], ReadFields(r, Written[from_u8[t]]))
  BY DecodeForward, Zenon
<1>7. PICK s : s = ReadFields(r, layout)
  BY Zenon
<1>8. decode(encode(f) \o x) = Outcome(type, s)
  BY <1>1, <1>2, <1>5, <1>6, <1>7, Zenon
<1>9. r.rest = WriteFields(layout, v) \o x
  BY <1>1, <1>2, <1>4, <1>6, Zenon
<1>10. Ends(r, layout, v, x)
  BY <1>3, <1>6, <1>9, FieldsForward, Zenon
<1>11. s.err = "none" /\ s.rest = x /\ s.fields = v
  BY <1>7, <1>10, Zenon DEF Ends
<1>12. Outcome(type, s) = Behind(f, x)
  BY <1>2, <1>3, <1>11, Zenon DEF Outcome, Behind
<1> QED BY <1>8, <1>12, Zenon

\* The bytes of a layout do not go on: what a layout was read from in front
\* of more bytes is not the layout itself.
LEMMA NoPrefix ==
    ASSUME NEW layout, IsLayout(layout),
           NEW v \in Seq(Value), Len(v) = Len(layout), Fits(layout, v),
           NEW r \in State, r.err = "none", r.fields = <<>>,
           NEW q \in Seq(Byte), WriteFields(layout, v) = r.rest \o q,
           ReadFields(r, layout).err = "none"
    PROVE  q = <<>>
<1>1. PICK u, y, z : /\ u = ReadFields(r, layout).fields
                     /\ y = ReadFields(r, layout).rest /\ z = r.rest
  BY Zenon
<1>2. /\ u \in Seq(Value) /\ Len(u) = Len(layout) /\ Fits(layout, u)
      /\ z = WriteFields(layout, u) \o y
  BY <1>1, FieldsBack, Zenon
<1>3. y \in Seq(Byte)
  BY <1>1, FieldsState, Zenon DEF State
<1>4. PICK m \in Seq(Byte) : m = WriteFields(layout, u)
  BY <1>2, WrittenBytes, Zenon
<1>5. PICK w \in Seq(Byte) : w = WriteFields(layout, v)
  BY WrittenBytes, Zenon
<1>6. PICK x \in Seq(Byte) : x = y \o q
  BY <1>3, Unsplit, Zenon
<1>7. w = WriteFields(layout, u) \o x
  <2>1. (m \o y) \o q = m \o (y \o q)
    BY <1>3, Regroup, ZenonT(40)
  <2> QED BY <1>1, <1>2, <1>4, <1>5, <1>6, <2>1, Zenon
<1>8. w = WriteFields(layout, v) \o <<>> /\ <<>> \in Seq(Byte)
  <2>1. w \o <<>> = w /\ <<>> \in Seq(Byte)
    BY ConcatEmptySeq
  <2> QED BY <1>5, <2>1, Zenon
<1>9. PICK p \in State : p.err = "none" /\ p.fields = <<>> /\ p.rest = w
  BY ReaderState, Zenon
<1>10. Ends(p, layout, u, x)
  BY <1>2, <1>7, <1>9, FieldsForward, Zenon
<1>11. Ends(p, layout, v, <<>>)
  BY <1>8, <1>9, FieldsForward, Zenon
<1>12. y \o q = <<>>
  BY <1>6, <1>10, <1>11, Zenon DEF Ends
<1> QED BY <1>3, <1>12, ConcatSimplifications, ZenonT(40)

LEMMA CutBody ==
    ASSUME NEW f \in Frames, NEW n \in 0 .. Len(encode(f)) - 1
    PROVE  decode(SubSeq(encode(f), 1, n)) = Err("Truncated")
<1>1. PICK t \in 1 .. 7, w \in Seq(Byte) :
        /\ from_u8[t] = f.type /\ t \in Byte
        /\ w = WriteFields(Written[f.type], Fields(f)) /\ encode(f) = Cons(t, w)
        /\ encode(f) \in Seq(Byte)
  BY EncodedBytes, Zenon
<1>2. PICK type, layout, v :
        type = f.type /\ layout = Written[type] /\ v = Fields(f)
  BY Zenon
<1>3. /\ IsLayout(layout) /\ v \in Seq(Value) /\ Len(v) = Len(layout)
      /\ Fits(layout, v)
  BY <1>2, FrameWritten, Zenon
<1>4. PICK b, q \in Seq(Byte) :
        b = SubSeq(encode(f), 1, n) /\ Len(b) = n /\ encode(f) = b \o q
  <2>1. PICK e \in Seq(Byte) : e = encode(f)
    BY <1>1, Zenon
  <2>2. n \in 0 .. Len(e)
    BY <2>1
  <2>3. /\ SubSeq(e, 1, n) \in Seq(Byte) /\ Len(SubSeq(e, 1, n)) = n
        /\ SubSeq(e, n + 1, Len(e)) \in Seq(Byte)
        /\ e = SubSeq(e, 1, n) \o SubSeq(e, n + 1, Len(e))
    BY <2>2, Split, Zenon
  <2> QED BY <2>1, <2>3, Zenon
<1>5. q # <<>>
  <2>1. b \o <<>> = b
    BY ConcatEmptySeq
  <2>2. Len(encode(f)) # n
    BY <1>1
  <2> QED BY <1>4, <2>1, <2>2, Zenon
<1>6. CASE n = 0
  <2>1. b = <<>>
    BY <1>4, <1>6, EmptySeq
  <2>2. ReadInt(Reader(b), "u8").err = "Truncated" /\ "Truncated" # "none"
    BY <2>1, NoTag
  <2>3. decode(b) = Err("Truncated")
    BY <2>2, Zenon DEF decode
  <2> QED BY <1>4, <2>3, Zenon
<1>7. CASE n # 0
  <2>1. PICK u \in Byte, z \in Seq(Byte) : b = Cons(u, z)
    BY <1>4, <1>7, ConsOf, Zenon
  <2>2. PICK y \in Seq(Byte) : y = z \o q
    BY Unsplit, Zenon
  <2>3. Cons(t, w) = Cons(u, y)
    <3>1. Cons(u, z) \o q = Cons(u, z \o q)
      BY ConsJoin, ZenonT(40)
    <3> QED BY <1>1, <1>4, <2>1, <2>2, <3>1, Zenon
  <2>4. t = u /\ w = y
    BY <1>1, <2>3, ConsSame
  <2>5. PICK r \in State :
          /\ r.err = "none" /\ r.fields = <<>> /\ r.rest = z
          /\ decode(Cons(t, z)) =
               Outcome(from_u8[t], ReadFields(r, Written[from_u8[t]]))
    BY DecodeForward, Zenon
  <2>6. PICK s : s = ReadFields(r, layout)
    BY Zenon
  <2>7. decode(b) = Outcome(type, s)
    BY <1>1, <1>2, <2>1, <2>4, <2>5, <2>6, Zenon
  <2>8. s \in State
    BY <1>3, <2>6, FieldsState, Zenon
  <2>9. WriteFields(layout, v) = r.rest \o q
    BY <1>1, <1>2, <2>2, <2>4, <2>5, Zenon
  <2>10. s.err # "none"
    BY <1>3, <1>5, <2>5, <2>6, <2>9, NoPrefix, Zenon
  <2>11. s.err = "Truncated"
    BY <2>8, <2>10, Zenon DEF State
  <2>12. Outcome(type, s) = Err("Truncated")
    BY <2>10, <2>11, Zenon DEF Outcome
  <2> QED BY <1>4, <2>7, <2>12, Zenon
<1> QED BY <1>6, <1>7, Zenon

LEMMA OneBody ==
    ASSUME NEW b \in Seq(Byte), decode(b).err = "none"
    PROVE  encode(decode(b).frame) = b
<1>1. PICK t \in 1 .. 7, y \in Seq(Byte) : b = Cons(t, y)
  BY DecodeBack, Zenon
<1>2. PICK type, layout : type = from_u8[t] /\ layout = Written[type]
  BY Zenon
<1>3. type \in DOMAIN FrameFields /\ tag(type) = t
  BY <1>2, Types, TagOfType, Zenon
<1>4. IsLayout(layout) /\ Distinct(layout)
  BY <1>2, <1>3, Layouts, Zenon DEF Described
<1>5. PICK r \in State :
        /\ r.err = "none" /\ r.fields = <<>> /\ r.rest = y
        /\ decode(Cons(t, y)) =
             Outcome(from_u8[t], ReadFields(r, Written[from_u8[t]]))
  BY DecodeForward, Zenon
<1>6. PICK s : s = ReadFields(r, layout)
  BY Zenon
<1>7. decode(b) = Outcome(type, s)
  BY <1>1, <1>2, <1>5, <1>6, Zenon
<1>8. ASSUME NEW e PROVE Err(e).err = e
  BY DEF Err
<1>9. s.err = "none"
  <2>1. SUFFICES ASSUME s.err # "none" PROVE FALSE
    BY Zenon
  <2>2. Outcome(type, s) = Err(s.err)
    BY <2>1, Zenon DEF Outcome
  <2> QED BY <1>7, <1>8, <2>1, <2>2, Zenon
<1>10. s.rest = <<>>
  <2>1. SUFFICES ASSUME s.rest # <<>> PROVE FALSE
    BY Zenon
  <2>2. Outcome(type, s) = Err("TrailingBytes")
    BY <1>9, <2>1, Zenon DEF Outcome
  <2>3. "TrailingBytes" # "none"
    OBVIOUS
  <2> QED BY <1>7, <1>8, <2>2, <2>3, Zenon
<1>11. PICK v : v = s.fields
  BY Zenon
<1>12. PICK f : f = [type |-> type, fields |-> Named(layout, v)]
  BY Zenon
<1>13. decode(b) = Ok(f)
  BY <1>2, <1>7, <1>9, <1>10, <1>11, <1>12, Zenon DEF Outcome
<1>14. decode(b).frame = f
  <2>1. Ok(f).frame = f
    BY DEF Ok
  <2> QED BY <1>13, <2>1, Zenon
<1>15. /\ v \in Seq(Value) /\ Len(v) = Len(layout)
       /\ r.rest = WriteFields(layout, v) \o s.rest
  BY <1>4, <1>5, <1>6, <1>9, <1>11, FieldsBack, Zenon
<1>16. y = WriteFields(layout, v)
  <2>1. Fits(layout, v)
    BY <1>4, <1>5, <1>6, <1>9, <1>11, FieldsBack, Zenon
  <2>2. PICK w \in Seq(Byte) : w = WriteFields(layout, v)
    BY <1>4, <2>1, WrittenBytes, Zenon
  <2>3. w \o <<>> = w
    BY ConcatEmptySeq
  <2> QED BY <1>5, <1>10, <1>15, <2>2, <2>3, Zenon
<1>17. DOMAIN layout = 1 .. Len(v)
  BY <1>4, <1>15, Zenon DEF IsLayout
<1>18. ASSUME NEW i \in DOMAIN layout
       PROVE  Named(layout, v)[layout[i][1]] = v[i]
  <2>1. PICK name : name = layout[i][1]
    BY Zenon
  <2>2. PICK k : k = CHOOSE j \in DOMAIN layout : layout[j][1] = name
    BY Zenon
  <2>3. k \in DOMAIN layout /\ layout[k][1] = name
    BY <2>1, <2>2, Zenon
  <2>4. k = i
    BY <1>4, <2>1, <2>3, Zenon DEF Distinct
  <2>5. Named(layout, v)[name] = v[k]
    BY <2>1, <2>2, Zenon DEF Named
  <2> QED BY <2>1, <2>4, <2>5, Zenon
<1>19. v = [i \in DOMAIN layout |-> Named(layout, v)[layout[i][1]]]
  <2>1. v = [i \in 1 .. Len(v) |-> v[i]]
    BY <1>15, LenProperties
  <2> QED BY <1>17, <1>18, <2>1, Zenon
<1>20. f.type = type /\ f.fields = Named(layout, v)
  BY <1>12
<1>21. encode(f) = Cons(t, WriteFields(layout, v))
  BY <1>2, <1>3, <1>19, <1>20, Zenon DEF encode, Cons
<1> QED BY <1>1, <1>14, <1>16, <1>21, Zenon

-----------------------------------------------------------------------------
(* The body on its way: what the first edit made of it.                    *)
Inv ==
    /\ frame \in Frames /\ buf \in Seq(Byte)
    /\ edits \in Seq({"cut", "run on", "alter"})
    /\ edits = <<>> => buf = encode(frame)
    /\ edits = <<"cut">> =>
          \E n \in 0 .. Len(encode(frame)) - 1 : buf = SubSeq(encode(frame), 1, n)
    /\ edits = <<"run on">> => \E b \in Byte : buf = encode(frame) \o <<b>>

Only(s, e, d) == s = <<>> /\ e = d

LEMMA AppendOne ==
    ASSUME NEW S, NEW s \in Seq(S), NEW e \in S, NEW d, Append(s, e) = <<d>>
    PROVE  Only(s, e, d)
<1>1. PICK a, b : a = Append(s, e) /\ b = <<d>>
  BY Zenon
<1>2. Len(a) = Len(s) + 1 /\ a[Len(s) + 1] = e
  BY <1>1, AppendProperties, ZenonT(40)
<1>3. Len(b) = 1 /\ b[1] = d
  BY <1>1
<1>4. a = b /\ Len(s) \in Nat
  BY <1>1
<1>5. Len(s) = 0
  BY <1>2, <1>3, <1>4
<1>6. e = d
  BY <1>2, <1>3, <1>4, <1>5
<1>7. s = <<>>
  BY <1>5, EmptySeq
<1> QED BY <1>6, <1>7, Zenon DEF Only

\* An edit keeps Inv if it is what edits says it is.
LEMMA EditKeeps ==
    ASSUME Inv, NEW kind \in {"cut", "run on", "alter"}, NEW b \in Seq(Byte),
           Edit(kind, b),
           buf = encode(frame) /\ kind = "cut" =>
             \E n \in 0 .. Len(encode(frame)) - 1 : b = SubSeq(encode(frame), 1, n),
           buf = encode(frame) /\ kind = "run on" =>
             \E c \in Byte : b = encode(frame) \o <<c>>
    PROVE  Inv'
<1>1. frame' = frame /\ buf' = b /\ edits' = Append(edits, kind)
  BY Zenon DEF Edit
<1>2. edits \in Seq({"cut", "run on", "alter"})
  BY Zenon DEF Inv
<1>3. edits' \in Seq({"cut", "run on", "alter"}) /\ edits' # <<>>
  BY <1>1, <1>2, AppendProperties
<1>4. ASSUME NEW d, edits' = <<d>> PROVE buf = encode(frame) /\ kind = d
  <2>1. edits = <<>> /\ kind = d
    <3>1. Append(edits, kind) = <<d>>
      BY <1>1, <1>4, Zenon
    <3>2. Only(edits, kind, d)
      BY <1>2, <3>1, AppendOne, Zenon
    <3> QED BY <3>2, Zenon DEF Only
  <2> QED BY <2>1, Zenon DEF Inv
<1>5. edits' = <<"cut">> =>
        \E n \in 0 .. Len(encode(frame)) - 1 : b = SubSeq(encode(frame), 1, n)
  BY <1>4, Zenon
<1>6. edits' = <<"run on">> => \E c \in Byte : b = encode(frame) \o <<c>>
  BY <1>4, Zenon
<1>7. frame \in Frames
  BY Zenon DEF Inv
<1> QED BY <1>1, <1>3, <1>5, <1>6, <1>7, Zenon DEF Inv

LEMMA InitInv == Init => Inv
<1> SUFFICES ASSUME Init PROVE Inv
  BY Zenon
<1>1. frame \in Frames /\ buf = encode(frame) /\ edits = <<>>
  BY Zenon DEF Init
<1>2. buf \in Seq(Byte)
  BY <1>1, EncodedBytes, Zenon
<1>3. edits \in Seq({"cut", "run on", "alter"})
  BY <1>1
<1>4. edits # <<"cut">> /\ edits # <<"run on">>
  BY <1>1
<1> QED BY <1>1, <1>2, <1>3, <1>4, Zenon DEF Inv

LEMMA NextInv == Inv /\ [Next]_vars => Inv'
<1> SUFFICES ASSUME Inv, [Next]_vars PROVE Inv'
  BY Zenon
<1>0. buf \in Seq(Byte) /\ frame \in Frames
  BY Zenon DEF Inv
<1>1. CASE Cut
  <2>1. PICK n \in 0 .. Len(buf) - 1 : Edit("cut", SubSeq(buf, 1, n))
    BY <1>1, Zenon DEF Cut
  <2>2. PICK b \in Seq(Byte) : b = SubSeq(buf, 1, n)
    <3>1. n \in 0 .. Len(buf)
      BY <1>0
    <3> QED BY <1>0, <3>1, Split, Zenon
  <2>3. "cut" # "run on"
    OBVIOUS
  <2> QED BY <2>1, <2>2, <2>3, EditKeeps, Zenon
<1>2. CASE RunOn
  <2>1. PICK c \in Byte : Edit("run on", Append(buf, c))
    BY <1>2, Zenon DEF RunOn
  <2>2. PICK b \in Seq(Byte) : b = Append(buf, c) /\ b = buf \o <<c>>
    <3>1. Append(buf, c) = buf \o <<c>>
      BY <1>0, AppendIsConcat
    <3>2. Append(buf, c) \in Seq(Byte)
      BY <1>0
    <3> QED BY <3>1, <3>2, Zenon
  <2>3. "cut" # "run on"
    OBVIOUS
  <2> QED BY <2>1, <2>2, <2>3, EditKeeps, Zenon
<1>3. CASE Alter
  <2>1. PICK i \in DOMAIN buf, c \in Byte : Edit("alter", [buf EXCEPT ![i] = c])
    BY <1>3, Zenon DEF Alter
  <2>2. PICK b \in Seq(Byte) : b = [buf EXCEPT ![i] = c]
    <3>1. i \in 1 .. Len(buf)
      BY <1>0, LenProperties, Zenon
    <3> QED BY <1>0, <3>1, ExceptSeq, Zenon
  <2>3. "alter" # "run on" /\ "alter" # "cut"
    OBVIOUS
  <2> QED BY <2>1, <2>2, <2>3, EditKeeps, Zenon
<1>4. CASE UNCHANGED vars
  BY <1>4, Zenon DEF Inv, vars
<1> QED BY <1>1, <1>2, <1>3, <1>4, Zenon DEF Next

LEMMA InvHolds == Spec => []Inv
BY InitInv, NextInv, PTL DEF Spec

-----------------------------------------------------------------------------
\* Frame::decode gives back every frame Frame::encode was given, whatever the
\* width of the integers and the length of the fields, as long as the prefix
\* of a field can say its length.
THEOREM RoundTripHolds == Spec => []RoundTrip
<1>1. ASSUME Inv PROVE RoundTrip
  <2>1. SUFFICES ASSUME edits = <<>> PROVE decode(buf) = Ok(frame)
    BY Zenon DEF RoundTrip
  <2>2. buf = encode(frame) /\ frame \in Frames /\ buf \in Seq(Byte)
    BY <1>1, <2>1, Zenon DEF Inv
  <2>3. buf \o <<>> = buf /\ <<>> \in Seq(Byte)
    BY <2>2, ConcatEmptySeq
  <2>4. decode(buf) = Behind(frame, <<>>)
    BY <2>2, <2>3, DecodeBody, Zenon
  <2> QED BY <2>4, Zenon DEF Behind
<1> QED BY <1>1, InvHolds, PTL

\* Reader and expect_end find the end of a body: one cut at any byte is
\* Truncated, one with a byte more has TrailingBytes; no encoding is the
\* beginning of another.
THEOREM EndIsKnownHolds == Spec => []EndIsKnown
<1>1. ASSUME Inv PROVE EndIsKnown
  <2>0. frame \in Frames
    BY <1>1, Zenon DEF Inv
  <2>1. ASSUME edits = <<"cut">> PROVE decode(buf) = Err("Truncated")
    <3>1. PICK n \in 0 .. Len(encode(frame)) - 1 : buf = SubSeq(encode(frame), 1, n)
      BY <1>1, <2>1, Zenon DEF Inv
    <3>2. decode(SubSeq(encode(frame), 1, n)) = Err("Truncated")
      BY <2>0, CutBody, Zenon
    <3> QED BY <3>1, <3>2, Zenon
  <2>2. ASSUME edits = <<"run on">> PROVE decode(buf) = Err("TrailingBytes")
    <3>1. PICK b \in Byte : buf = encode(frame) \o <<b>>
      BY <1>1, <2>2, Zenon DEF Inv
    <3>2. PICK x \in Seq(Byte) : x = <<b>> /\ x # <<>>
      <4>1. <<b>> # <<>>
        OBVIOUS
      <4> QED BY <4>1, OneDigit, Zenon
    <3>3. decode(encode(frame) \o x) = Behind(frame, x)
      BY <2>0, DecodeBody, Zenon
    <3> QED BY <3>1, <3>2, <3>3, Zenon DEF Behind
  <2> QED BY <2>1, <2>2, Zenon DEF EndIsKnown
<1> QED BY <1>1, InvHolds, PTL

\* Whatever body Frame::decode accepts, it is the one Frame::encode writes
\* for the frame decode returns.
THEOREM OneEncodingHolds == Spec => []OneEncoding
<1>1. ASSUME Inv PROVE OneEncoding
  <2>1. buf \in Seq(Byte)
    BY <1>1, Zenon DEF Inv
  <2>2. decode(buf).err = "none" => encode(decode(buf).frame) = buf
    BY <2>1, OneBody, Zenon
  <2> QED BY <2>2, Zenon DEF OneEncoding
<1> QED BY <1>1, InvHolds, PTL
=============================================================================
