--------------------------- MODULE TransportProofs --------------------------
(***************************************************************************)
(* Proofs about the framed transport: for every set of body sizes, every   *)
(* limit, prefix length and number of frames, whatever the fragmentation   *)
(* and wherever the stream is cut.  The frames lie in the stream one after *)
(* the other; the inductive invariant names the offset at which each       *)
(* starts, and says at which of these offsets the reader is.               *)
(***************************************************************************)
EXTENDS Transport, SequenceTheorems, FiniteSetTheorems, TLAPS

\* Frame k takes the bytes start[k] + 1 .. start[k + 1] of the stream.
Offsets(start) ==
    /\ start \in [1 .. Len(size) + 1 -> Nat]
    /\ start[1] = 0
    /\ \A k \in 1 .. Len(size) : start[k + 1] = start[k] + PrefixLen + size[k]
    /\ \A j, k \in 1 .. Len(size) + 1 : j <= k => start[j] <= start[k]

\* The stream holds the frames written, up to where it was cut.
Laid(start) ==
    /\ Len(wire) <= start[Len(size) + 1]
    /\ ~closed => Len(wire) = start[Len(size) + 1]
    /\ \A i \in 1 .. Len(wire) :
          /\ wire[i] \in 1 .. Len(size)
          /\ start[wire[i]] < i
          /\ i <= start[wire[i] + 1]

\* The reader is at the start of the frame after those returned, or behind
\* its prefix.
Placed(start) ==
    /\ Len(bodies) <= Len(size)
    /\ pc \in {"prefix", "none"} => consumed = start[Len(bodies) + 1]
    /\ pc = "none" => AtEof /\ Available < PrefixLen
    /\ pc = "body" => /\ Len(bodies) < Len(size)
                      /\ consumed = start[Len(bodies) + 1] + PrefixLen
                      /\ need = size[Len(bodies) + 1]

StreamInv ==
    /\ TypeOK
    /\ Len(size) <= MaxFrames
    /\ BodiesIntact
    /\ \E start \in [1 .. Len(size) + 1 -> Nat] :
          Offsets(start) /\ Laid(start) /\ Placed(start)

-----------------------------------------------------------------------------
\* The byte at an offset of frame k belongs to frame k.
LEMMA ByteOfFrame ==
    ASSUME TypeOK, NEW start, Offsets(start), Laid(start),
           NEW k \in 1 .. Len(size), NEW i \in 1 .. Len(wire),
           start[k] < i, i <= start[k + 1]
    PROVE  wire[i] = k
<1> DEFINE w == wire[i]
<1>1. w \in 1 .. Len(size) /\ start[w] < i /\ i <= start[w + 1]
  BY DEF Laid
<1>2. Len(size) \in Nat /\ i \in Nat
  BY DEF TypeOK
<1> HIDE DEF w
<1>3. /\ start[k] \in Nat /\ start[k + 1] \in Nat
      /\ start[w] \in Nat /\ start[w + 1] \in Nat
      /\ k \in Nat /\ w \in Nat
  <2>1. start \in [1 .. Len(size) + 1 -> Nat]
    BY DEF Offsets
  <2>2. /\ k \in 1 .. Len(size) + 1 /\ k + 1 \in 1 .. Len(size) + 1
        /\ w \in 1 .. Len(size) + 1 /\ w + 1 \in 1 .. Len(size) + 1
    BY <1>1, <1>2
  <2>3. k \in Nat /\ w \in Nat
    BY <1>1, <1>2
  <2> QED BY <2>1, <2>2, <2>3, Zenon
<1>4. ~(w < k)
  <2>1. w < k => start[w + 1] <= start[k]
    BY <1>1, <1>2 DEF Offsets
  <2> QED BY <1>1, <1>2, <1>3, <2>1
<1>5. ~(k < w)
  <2>1. k < w => start[k + 1] <= start[w]
    BY <1>1, <1>2 DEF Offsets
  <2> QED BY <1>1, <1>2, <1>3, <2>1
<1> QED BY <1>3, <1>4, <1>5 DEF w

\* Len(wire) and the counters are numbers.
LEMMA Numbers ==
    ASSUME TypeOK
    PROVE  /\ Len(size) \in Nat /\ Len(wire) \in Nat /\ Len(bodies) \in Nat
           /\ arrived \in Nat /\ consumed \in Nat /\ need \in Nat
           /\ consumed <= arrived /\ arrived <= Len(wire)
           /\ PrefixLen \in Nat /\ PrefixLen > 0
           /\ DOMAIN size = 1 .. Len(size)
           /\ \A k \in 1 .. Len(size) : size[k] \in Size /\ size[k] \in Nat
<1>1. size \in Seq(Size) /\ wire \in Seq(1 .. MaxFrames)
      /\ bodies \in Seq(Seq(1 .. MaxFrames))
  BY DEF TypeOK
<1>2. Len(size) \in Nat /\ Len(wire) \in Nat /\ Len(bodies) \in Nat
      /\ DOMAIN size = 1 .. Len(size)
  BY <1>1
<1>3. \A k \in 1 .. Len(size) : size[k] \in Size
  BY <1>1, ElementOfSeq
<1>4. arrived \in Nat /\ consumed \in Nat /\ need \in Nat
      /\ consumed <= arrived /\ arrived <= Len(wire)
  BY <1>2, SizeAssumption DEF TypeOK
<1>5. \A k \in 1 .. Len(size) : size[k] \in Nat
  BY <1>3, SizeAssumption, Zenon
<1> QED BY <1>2, <1>3, <1>4, <1>5, SizeAssumption

\* The n elements of a sequence after the first m.
LEMMA Slice ==
    ASSUME NEW S, NEW s \in Seq(S), NEW m \in Nat, NEW n \in Nat,
           m + n <= Len(s)
    PROVE  /\ SubSeq(s, m + 1, m + n) \in Seq(S)
           /\ Len(SubSeq(s, m + 1, m + n)) = n
           /\ \A i \in 1 .. n : SubSeq(s, m + 1, m + n)[i] = s[m + i]
<1>1. Len(s) \in Nat
  OBVIOUS
<1>2. \A i \in m + 1 .. m + n : s[i] \in S
  <2>1. \A i \in m + 1 .. m + n : i \in 1 .. Len(s)
    BY <1>1
  <2> QED BY <2>1, ElementOfSeq
<1>3. m + 1 \in Int /\ m + n \in Int
  OBVIOUS
<1>4. /\ SubSeq(s, m + 1, m + n) \in Seq(S)
      /\ Len(SubSeq(s, m + 1, m + n))
            = IF m + 1 <= m + n THEN m + n - (m + 1) + 1 ELSE 0
      /\ \A i \in 1 .. m + n - (m + 1) + 1 :
             SubSeq(s, m + 1, m + n)[i] = s[m + 1 + i - 1]
  BY <1>2, <1>3, SubSeqProperties
<1>5. m + n - (m + 1) + 1 = n /\ (m + 1 <= m + n <=> n > 0)
  OBVIOUS
<1>6. \A i \in 1 .. n : m + 1 + i - 1 = m + i
  OBVIOUS
<1> QED BY <1>4, <1>5, <1>6

LEMMA StreamInit == Init => StreamInv
<1> SUFFICES ASSUME Init PROVE StreamInv
  OBVIOUS
<1> DEFINE start == [k \in 1 .. 1 |-> 0]
<1>1. Len(size) = 0 /\ Len(wire) = 0 /\ Len(bodies) = 0
  BY DEF Init
<1>2. TypeOK /\ Len(size) <= MaxFrames /\ BodiesIntact
  <2>1. size \in Seq(Size) /\ wire \in Seq(1 .. MaxFrames)
        /\ bodies \in Seq(Seq(1 .. MaxFrames)) /\ DOMAIN bodies = {}
    BY DEF Init
  <2>2. BodiesIntact
    BY <2>1 DEF BodiesIntact
  <2>3. arrived \in 0 .. Len(wire) /\ consumed \in 0 .. arrived
    BY <1>1 DEF Init
  <2>4. Len(size) <= MaxFrames
    BY <1>1, SizeAssumption
  <2> QED BY <2>1, <2>2, <2>3, <2>4, Zenon DEF Init, TypeOK
<1>3. start \in [1 .. Len(size) + 1 -> Nat] /\ start[1] = 0
  BY <1>1
<1> HIDE DEF start
<1>4. Offsets(start) /\ Laid(start) /\ Placed(start)
  BY <1>1, <1>3 DEF Init, Offsets, Laid, Placed
<1> QED BY <1>2, <1>3, <1>4 DEF StreamInv

-----------------------------------------------------------------------------
\* write_frame appends a frame behind the last one.
LEMMA WriteStep ==
    ASSUME StreamInv, NEW n \in Size, write_frame(n)
    PROVE  StreamInv'
<1> DEFINE m == Len(size)
<1>0. TypeOK /\ m <= MaxFrames /\ BodiesIntact
  BY DEF StreamInv
<1>1. PICK start \in [1 .. Len(size) + 1 -> Nat] :
          Offsets(start) /\ Laid(start) /\ Placed(start)
  BY DEF StreamInv
<1>2. /\ m \in Nat /\ Len(wire) \in Nat /\ PrefixLen \in Nat /\ n \in Nat
      /\ m < MaxFrames /\ MaxFrames \in Nat
  BY <1>0, Numbers, SizeAssumption DEF write_frame
<1>3. /\ size' = Append(size, n) /\ size' \in Seq(Size)
      /\ Len(size') = m + 1
      /\ size'[m + 1] = n
      /\ \A k \in 1 .. m : size'[k] = size[k]
  BY <1>0, <1>2 DEF write_frame, TypeOK
<1> DEFINE frame == encode_framed(m + 1, n)
<1>4. /\ frame \in Seq(1 .. MaxFrames)
      /\ Len(frame) = PrefixLen + n
      /\ \A i \in 1 .. PrefixLen + n : frame[i] = m + 1
  BY <1>2 DEF encode_framed
<1>5. wire \in Seq(1 .. MaxFrames)
  BY <1>0 DEF TypeOK
<1>6. /\ wire' = wire \o frame
      /\ wire' \in Seq(1 .. MaxFrames)
      /\ Len(wire') = Len(wire) + PrefixLen + n
      /\ \A i \in 1 .. Len(wire) : wire'[i] = wire[i]
      /\ \A i \in Len(wire) + 1 .. Len(wire) + PrefixLen + n : wire'[i] = m + 1
  <2> HIDE DEF frame
  <2>1. wire' = wire \o frame
    BY DEF write_frame, frame
  <2>2. wire' \in Seq(1 .. MaxFrames) /\ Len(wire') = Len(wire) + Len(frame)
    BY <1>4, <1>5, <2>1, ConcatProperties, Zenon
  <2>3. \A i \in 1 .. Len(wire) + Len(frame) :
            wire'[i] = IF i <= Len(wire) THEN wire[i] ELSE frame[i - Len(wire)]
    BY <1>4, <1>5, <2>1, ConcatProperties
  <2> QED BY <1>2, <1>4, <2>1, <2>2, <2>3
<1> HIDE DEF frame
<1>7. TypeOK' /\ Len(size') <= MaxFrames
  BY <1>0, <1>2, <1>3, <1>6 DEF TypeOK, write_frame
<1>8. BodiesIntact'
  <2>1. Len(bodies) <= m /\ DOMAIN bodies = 1 .. Len(bodies) /\ Len(bodies) \in Nat
    BY <1>0, <1>1 DEF Placed, TypeOK
  <2> QED BY <1>0, <1>2, <1>3, <2>1 DEF BodiesIntact, write_frame
<1>9. start[m + 1] \in Nat /\ start[m + 1] = Len(wire)
  BY <1>1, <1>2 DEF Laid, write_frame
<1>10. PICK more \in [1 .. Len(size') + 1 -> Nat] :
           /\ \A k \in 1 .. m + 1 : more[k] = start[k]
           /\ more[m + 2] = start[m + 1] + PrefixLen + n
  <2> DEFINE longer == [k \in 1 .. m + 2 |->
                           IF k <= m + 1 THEN start[k]
                           ELSE start[m + 1] + PrefixLen + n]
  <2>1. /\ longer \in [1 .. Len(size') + 1 -> Nat]
        /\ \A k \in 1 .. m + 1 : longer[k] = start[k]
        /\ longer[m + 2] = start[m + 1] + PrefixLen + n
    BY <1>1, <1>2, <1>3, <1>9
  <2> QED BY <2>1
<1>11. Offsets(more)'
  <2>1. start[1] = 0
    BY <1>1 DEF Offsets
  <2>2. more[1] = 0
    BY <1>2, <1>10, <2>1
  <2>3. ASSUME NEW k \in 1 .. m + 1
        PROVE  more[k + 1] = more[k] + PrefixLen + size'[k]
    <3>1. CASE k = m + 1
      BY <1>2, <1>3, <1>10, <3>1
    <3>2. CASE k \in 1 .. m
      <4>1. start[k + 1] = start[k] + PrefixLen + size[k]
        BY <1>1, <3>2 DEF Offsets
      <4> QED BY <1>2, <1>3, <1>10, <3>2, <4>1
    <3> QED BY <1>2, <3>1, <3>2
  <2>4. ASSUME NEW j \in 1 .. m + 2, NEW k \in 1 .. m + 2, j <= k
        PROVE  more[j] <= more[k]
    <3>1. CASE k \in 1 .. m + 1
      <4>1. j \in 1 .. m + 1
        BY <1>2, <2>4, <3>1
      <4>2. start[j] <= start[k]
        BY <1>1, <2>4, <3>1, <4>1 DEF Offsets
      <4> QED BY <1>10, <3>1, <4>1, <4>2
    <3>2. CASE k = m + 2 /\ j \in 1 .. m + 1
      <4>1. start[j] <= start[m + 1] /\ start[j] \in Nat
        BY <1>1, <1>2, <3>2, SMTT(20) DEF Offsets
      <4> QED BY <1>2, <1>9, <1>10, <3>2, <4>1
    <3>3. CASE k = m + 2 /\ j = m + 2
      BY <1>2, <1>9, <1>10, <3>3
    <3> QED BY <1>2, <3>1, <3>2, <3>3
  <2> QED BY <1>2, <1>3, <1>10, <2>2, <2>3, <2>4 DEF Offsets
<1>12. Laid(more)'
  <2>1. Len(wire') = more[Len(size') + 1]
    BY <1>2, <1>3, <1>6, <1>9, <1>10
  <2>2. ASSUME NEW i \in 1 .. Len(wire')
        PROVE  /\ wire'[i] \in 1 .. Len(size')
               /\ more[wire'[i]] < i
               /\ i <= more[wire'[i] + 1]
    <3>1. CASE i \in 1 .. Len(wire)
      <4>1. /\ wire[i] \in 1 .. m
            /\ start[wire[i]] < i
            /\ i <= start[wire[i] + 1]
        BY <1>1, <3>1 DEF Laid
      <4>2. wire'[i] = wire[i]
        BY <1>6, <3>1
      <4>3. wire[i] \in 1 .. m + 1 /\ wire[i] + 1 \in 1 .. m + 1
        BY <1>2, <4>1, SMTT(20)
      <4>4. more[wire[i]] = start[wire[i]] /\ more[wire[i] + 1] = start[wire[i] + 1]
        BY <1>10, <4>3
      <4> QED BY <1>2, <1>3, <4>1, <4>2, <4>3, <4>4
    <3>2. CASE i \in Len(wire) + 1 .. Len(wire) + PrefixLen + n
      <4>1. wire'[i] = m + 1
        BY <1>6, <3>2
      <4>2. more[m + 1] < i /\ i <= more[m + 2]
        BY <1>2, <1>9, <1>10, <3>2, SMTT(20)
      <4>3. wire'[i] + 1 = m + 2 /\ wire'[i] \in 1 .. Len(size')
        BY <1>2, <1>3, <4>1
      <4> QED BY <4>1, <4>2, <4>3
    <3>3. \/ i \in 1 .. Len(wire)
          \/ i \in Len(wire) + 1 .. Len(wire) + PrefixLen + n
      BY <1>2, <1>6
    <3> QED BY <3>1, <3>2, <3>3
  <2>3. Len(wire') <= more[Len(size') + 1]
    BY <1>2, <1>6, <2>1
  <2> QED BY <2>1, <2>2, <2>3 DEF Laid
<1>13. Placed(more)'
  <2>1. /\ Len(bodies) \in Nat /\ Len(bodies) <= m
    BY <1>0, <1>1, Numbers DEF Placed
  <2>2. more[Len(bodies) + 1] = start[Len(bodies) + 1]
    BY <1>2, <1>10, <2>1
  <2>3. pc # "none"
    BY <1>1 DEF Placed, AtEof, write_frame
  <2> QED
    BY <1>1, <1>2, <1>3, <2>1, <2>2, <2>3 DEF Placed, write_frame
<1> QED BY <1>7, <1>8, <1>10, <1>11, <1>12, <1>13 DEF StreamInv

-----------------------------------------------------------------------------
\* A step that writes nothing keeps the offsets.
LEMMA OffsetsKept ==
    ASSUME NEW start, Offsets(start), size' = size
    PROVE  Offsets(start)'
BY DEF Offsets

\* shutdown closes the stream where it is, Cut inside the last frame.
LEMMA CloseStep ==
    ASSUME StreamInv, shutdown \/ Cut
    PROVE  StreamInv'
<1>0. TypeOK /\ Len(size) <= MaxFrames /\ BodiesIntact
  BY DEF StreamInv
<1>1. PICK start \in [1 .. Len(size) + 1 -> Nat] :
          Offsets(start) /\ Laid(start) /\ Placed(start)
  BY DEF StreamInv
<1>2. /\ ~closed /\ closed'
      /\ UNCHANGED <<size, arrived, consumed, pc, need, bodies>>
  BY DEF shutdown, Cut
<1>3. /\ Len(size) \in Nat /\ Len(wire) \in Nat /\ arrived \in Nat
      /\ arrived <= Len(wire) /\ start[Len(size) + 1] \in Nat
      /\ wire \in Seq(1 .. MaxFrames)
  BY <1>0, <1>1, Numbers DEF TypeOK
<1>4. /\ wire' \in Seq(1 .. MaxFrames)
      /\ Len(wire') \in Nat
      /\ arrived <= Len(wire') /\ Len(wire') <= Len(wire)
      /\ \A i \in 1 .. Len(wire') : wire'[i] = wire[i]
  <2>1. CASE shutdown
    BY <1>3, <2>1 DEF shutdown
  <2>2. CASE Cut
    <3>1. PICK n \in arrived .. Len(wire) - 1 : wire' = SubSeq(wire, 1, n)
      BY <2>2 DEF Cut
    <3>2. n \in Nat /\ n < Len(wire) /\ arrived <= n
      BY <1>3, <3>1
    <3>3. /\ wire' \in Seq(1 .. MaxFrames)
          /\ Len(wire') = n
          /\ \A i \in 1 .. n : wire'[i] = wire[i]
      <4>1. 0 + n <= Len(wire) /\ n \in Nat /\ 0 \in Nat
        BY <1>3, <3>2
      <4>2. wire \in Seq(1 .. MaxFrames)
        BY <1>3
      <4>3. /\ SubSeq(wire, 0 + 1, 0 + n) \in Seq(1 .. MaxFrames)
            /\ Len(SubSeq(wire, 0 + 1, 0 + n)) = n
            /\ \A i \in 1 .. n : SubSeq(wire, 0 + 1, 0 + n)[i] = wire[0 + i]
        BY <4>1, <4>2, Slice, ZenonT(40)
      <4>4. 0 + 1 = 1 /\ 0 + n = n /\ \A i \in 1 .. n : 0 + i = i
        BY <4>1
      <4> QED BY <3>1, <4>3, <4>4
    <3> QED BY <1>3, <3>2, <3>3
  <2> QED BY <2>1, <2>2
<1>5. TypeOK'
  <2>1. arrived' \in 0 .. Len(wire')
    BY <1>2, <1>3, <1>4
  <2> QED BY <1>0, <1>2, <1>4, <2>1 DEF TypeOK
<1>6. BodiesIntact'
  BY <1>0, <1>2 DEF BodiesIntact
<1>7. Laid(start)'
  <2>1. Len(wire') <= start[Len(size) + 1]
    BY <1>1, <1>3, <1>4 DEF Laid
  <2>2. ASSUME NEW i \in 1 .. Len(wire')
        PROVE  /\ wire'[i] \in 1 .. Len(size)
               /\ start[wire'[i]] < i
               /\ i <= start[wire'[i] + 1]
    <3>1. i \in 1 .. Len(wire) /\ wire'[i] = wire[i]
      BY <1>3, <1>4
    <3> QED BY <1>1, <3>1 DEF Laid
  <2> QED BY <1>2, <2>1, <2>2 DEF Laid
<1>8. Placed(start)'
  <2>1. pc # "none"
    BY <1>1, <1>2 DEF Placed, AtEof
  <2> QED BY <1>1, <1>2, <2>1 DEF Placed
<1>9. Offsets(start)'
  BY <1>1, <1>2, OffsetsKept
<1>10. start \in [1 .. Len(size') + 1 -> Nat] /\ Len(size') <= MaxFrames
  BY <1>0, <1>2
<1> QED BY <1>5, <1>6, <1>7, <1>8, <1>9, <1>10 DEF StreamInv

\* What the reader and the connection share: a step that leaves the frames and
\* the stream alone only has to say where the reader is.
LEMMA ReaderKeeps ==
    ASSUME StreamInv, UNCHANGED <<size, wire, closed>>,
           NEW start \in [1 .. Len(size) + 1 -> Nat],
           Offsets(start), Laid(start),
           TypeOK', BodiesIntact', Placed(start)'
    PROVE  StreamInv'
<1>1. Offsets(start)'
  BY OffsetsKept
<1>2. Laid(start)'
  BY DEF Laid
<1>3. start \in [1 .. Len(size') + 1 -> Nat] /\ Len(size') <= MaxFrames
  BY DEF StreamInv
<1> QED BY <1>1, <1>2, <1>3 DEF StreamInv

\* More bytes arrive.
LEMMA ArriveStep ==
    ASSUME StreamInv, Arrive
    PROVE  StreamInv'
<1>0. TypeOK /\ BodiesIntact
  BY DEF StreamInv
<1>1. PICK start \in [1 .. Len(size) + 1 -> Nat] :
          Offsets(start) /\ Laid(start) /\ Placed(start)
  BY DEF StreamInv
<1>2. PICK n \in arrived + 1 .. Len(wire) : arrived' = n
  BY DEF Arrive
<1>3. UNCHANGED <<size, wire, closed, consumed, pc, need, bodies>>
  BY DEF Arrive
<1>4. /\ arrived \in Nat /\ Len(wire) \in Nat /\ consumed \in Nat
      /\ consumed <= arrived
  BY <1>0, Numbers
<1>5. arrived' \in 0 .. Len(wire) /\ consumed \in 0 .. arrived'
      /\ arrived < Len(wire)
  BY <1>2, <1>4
<1>6. TypeOK'
  BY <1>0, <1>3, <1>5 DEF TypeOK
<1>7. BodiesIntact'
  BY <1>0, <1>3 DEF BodiesIntact
<1>8. pc # "none"
  BY <1>1, <1>4, <1>5 DEF Placed, AtEof
<1>9. Placed(start)'
  BY <1>1, <1>3, <1>8 DEF Placed
<1> QED BY <1>1, <1>3, <1>6, <1>7, <1>9, ReaderKeeps

-----------------------------------------------------------------------------
\* The prefix read is that of the frame after those returned.
LEMMA PrefixStep ==
    ASSUME StreamInv, ReadPrefix
    PROVE  StreamInv'
<1> DEFINE k == Len(bodies) + 1
<1>0. TypeOK /\ BodiesIntact
  BY DEF StreamInv
<1>1. PICK start \in [1 .. Len(size) + 1 -> Nat] :
          Offsets(start) /\ Laid(start) /\ Placed(start)
  BY DEF StreamInv
<1>2. /\ Len(size) \in Nat /\ Len(wire) \in Nat /\ Len(bodies) \in Nat
      /\ arrived \in Nat /\ consumed \in Nat /\ PrefixLen \in Nat
      /\ PrefixLen > 0 /\ arrived <= Len(wire)
  BY <1>0, Numbers
<1>3. /\ consumed = start[k] /\ Len(bodies) <= Len(size)
      /\ arrived - consumed >= PrefixLen
  BY <1>1 DEF Placed, ReadPrefix, Available
<1>4. Len(bodies) < Len(size)
  <2>1. Len(wire) <= start[Len(size) + 1]
    BY <1>1 DEF Laid
  <2>2. Len(bodies) = Len(size) => consumed = start[Len(size) + 1]
    BY <1>3
  <2> QED BY <1>2, <1>3, <2>1, <2>2
<1>5. k \in 1 .. Len(size)
  BY <1>2, <1>4
<1>6. start[k + 1] = start[k] + PrefixLen + size[k] /\ size[k] \in Nat
      /\ size[k] \in Size
  BY <1>0, <1>1, <1>5, Numbers DEF Offsets
<1>7. wire[consumed + 1] = k
  <2>1. consumed + 1 \in 1 .. Len(wire)
    BY <1>2, <1>3
  <2>2. start[k] < consumed + 1 /\ consumed + 1 <= start[k + 1]
    BY <1>2, <1>3, <1>6, SMTT(20)
  <2> QED BY <1>0, <1>1, <1>5, <2>1, <2>2, ByteOfFrame
<1>8. /\ UNCHANGED <<size, wire, arrived, closed, bodies>>
      /\ consumed' = start[k] + PrefixLen
      /\ \/ pc' = "body" /\ need' = size[k] /\ size[k] <= MAX_FRAME
         \/ pc' = "invalid" /\ need' = 0
  BY <1>3, <1>7 DEF ReadPrefix, parse_len
<1>9. TypeOK'
  <2>1. consumed' \in 0 .. arrived
    BY <1>2, <1>3, <1>8
  <2> QED BY <1>0, <1>6, <1>8, <2>1 DEF TypeOK
<1>10. BodiesIntact'
  BY <1>0, <1>8 DEF BodiesIntact
<1>11. Placed(start)'
  BY <1>3, <1>4, <1>8 DEF Placed
<1> QED BY <1>1, <1>8, <1>9, <1>10, <1>11, ReaderKeeps

\* The body read is all of that frame behind its prefix.
LEMMA BodyStep ==
    ASSUME StreamInv, ReadBody
    PROVE  StreamInv'
<1> DEFINE k == Len(bodies) + 1
           body == SubSeq(wire, consumed + 1, consumed + need)
<1>0. TypeOK /\ BodiesIntact
  BY DEF StreamInv
<1>1. PICK start \in [1 .. Len(size) + 1 -> Nat] :
          Offsets(start) /\ Laid(start) /\ Placed(start)
  BY DEF StreamInv
<1>2. /\ Len(size) \in Nat /\ Len(wire) \in Nat /\ Len(bodies) \in Nat
      /\ arrived \in Nat /\ consumed \in Nat /\ PrefixLen \in Nat
      /\ need \in Nat /\ PrefixLen > 0 /\ arrived <= Len(wire)
  BY <1>0, Numbers
<1>3. /\ consumed = start[k] + PrefixLen /\ Len(bodies) < Len(size)
      /\ need = size[k]
      /\ arrived - consumed >= need
  BY <1>1 DEF Placed, ReadBody, Available
<1>4. /\ k \in 1 .. Len(size) /\ k \in 1 .. Len(size) + 1
      /\ k + 1 \in 1 .. Len(size) + 1
      /\ k \in Nat /\ k = Len(bodies) + 1
  BY <1>2, <1>3
<1> HIDE DEF k
<1>5. /\ start[k + 1] = start[k] + PrefixLen + need
      /\ start[k] \in Nat /\ start[k + 1] \in Nat
  <2>1. start[k + 1] = start[k] + PrefixLen + size[k]
    BY <1>1, <1>4 DEF Offsets
  <2> QED BY <1>1, <1>3, <1>4, <2>1
<1>5a. /\ consumed + need = start[k + 1] /\ consumed + need <= arrived
       /\ start[k] < consumed + 1
  <2> DEFINE lo == start[k]
             hi == start[k + 1]
  <2>1. consumed = lo + PrefixLen /\ hi = lo + PrefixLen + need /\ lo \in Nat
    BY <1>3, <1>5
  <2>2. arrived - consumed >= need
    BY <1>3
  <2> HIDE DEF lo, hi
  <2>3. consumed + need = hi /\ consumed + need <= arrived /\ lo < consumed + 1
    BY <1>2, <2>1, <2>2
  <2> QED BY <2>3 DEF lo, hi
<1>6. /\ UNCHANGED <<size, wire, arrived, closed>>
      /\ bodies' = Append(bodies, body)
      /\ consumed' = start[k + 1]
      /\ pc' = "prefix" /\ need' = 0
  BY <1>2, <1>3, <1>5 DEF ReadBody
<1>7. /\ body \in Seq(1 .. MaxFrames)
      /\ Len(body) = need
      /\ \A i \in 1 .. need : body[i] = wire[consumed + i]
  <2>1. consumed + need <= Len(wire)
    BY <1>2, <1>3
  <2>2. wire \in Seq(1 .. MaxFrames)
    BY <1>0 DEF TypeOK
  <2>3. consumed \in Nat /\ need \in Nat
    BY <1>2
  <2> QED BY <2>1, <2>2, <2>3, Slice, ZenonT(40)
<1> HIDE DEF body
<1>8. ASSUME NEW i \in 1 .. need PROVE body[i] = k
  <2>1. consumed + i \in 1 .. Len(wire)
    BY <1>2, <1>5a
  <2>2. start[k] < consumed + i /\ consumed + i <= start[k + 1]
    BY <1>2, <1>5, <1>5a
  <2>3. wire[consumed + i] = k
    BY <1>0, <1>1, <1>4, <2>1, <2>2, ByteOfFrame
  <2> QED BY <1>7, <2>3
<1>9. body = [i \in 1 .. size[k] |-> k]
  BY <1>3, <1>7, <1>8
<1>10. /\ bodies \in Seq(Seq(1 .. MaxFrames))
       /\ bodies' \in Seq(Seq(1 .. MaxFrames))
       /\ Len(bodies') = k
       /\ DOMAIN bodies = 1 .. Len(bodies)
       /\ DOMAIN bodies' = 1 .. k
       /\ bodies'[k] = body
       /\ \A j \in 1 .. Len(bodies) : bodies'[j] = bodies[j]
  BY <1>0, <1>4, <1>6, <1>7 DEF TypeOK
<1>11. TypeOK'
  <2>1. consumed' \in 0 .. arrived
    BY <1>2, <1>6, <1>5a
  <2> QED BY <1>0, <1>6, <1>10, <2>1 DEF TypeOK
<1>12. BodiesIntact'
  <2>1. ASSUME NEW j \in 1 .. k PROVE bodies'[j] = [i \in 1 .. size[j] |-> j]
    <3>1. CASE j = k
      BY <1>9, <1>10, <3>1
    <3>2. CASE j \in 1 .. Len(bodies)
      BY <1>0, <1>10, <3>2, Zenon DEF BodiesIntact
    <3> QED BY <1>2, <1>4, <3>1, <3>2
  <2> QED BY <1>6, <1>10, <2>1 DEF BodiesIntact
<1>13. Placed(start)'
  <2>1. Len(bodies') <= Len(size') /\ consumed' = start[Len(bodies') + 1]
    BY <1>4, <1>2, <1>6, <1>10
  <2> QED BY <1>6, <2>1 DEF Placed
<1> QED BY <1>1, <1>6, <1>11, <1>12, <1>13, ReaderKeeps

\* The reader ends where it is.
LEMMA EndStep ==
    ASSUME StreamInv, ReadPrefixEof \/ ReadBodyEof \/ ReadError
    PROVE  StreamInv'
<1>0. TypeOK /\ BodiesIntact
  BY DEF StreamInv
<1>1. PICK start \in [1 .. Len(size) + 1 -> Nat] :
          Offsets(start) /\ Laid(start) /\ Placed(start)
  BY DEF StreamInv
<1>2. /\ UNCHANGED <<size, wire, arrived, closed, consumed, need, bodies>>
      /\ \/ pc = "prefix" /\ pc' = "none" /\ AtEof /\ Available < PrefixLen
         \/ pc' \in {"eof", "error"}
  BY DEF ReadPrefixEof, ReadBodyEof, ReadError
<1>3. TypeOK' /\ BodiesIntact'
  BY <1>0, <1>2 DEF TypeOK, BodiesIntact
<1>4. Placed(start)'
  BY <1>1, <1>2 DEF Placed, AtEof, Available
<1> QED BY <1>1, <1>2, <1>3, <1>4, ReaderKeeps

LEMMA StreamStep == StreamInv /\ [Next]_vars => StreamInv'
<1> SUFFICES ASSUME StreamInv, [Next]_vars PROVE StreamInv'
  OBVIOUS
<1>1. CASE UNCHANGED vars
  BY <1>1, Zenon
     DEF vars, StreamInv, TypeOK, BodiesIntact, Offsets, Laid, Placed,
              AtEof, Available
<1>2. CASE \E n \in Size : write_frame(n)
  BY <1>2, WriteStep
<1>3. CASE shutdown \/ Cut
  BY <1>3, CloseStep
<1>4. CASE Arrive
  BY <1>4, ArriveStep
<1>5. CASE read_frame \/ ReadError
  BY <1>5, PrefixStep, BodyStep, EndStep DEF read_frame
<1> QED BY <1>1, <1>2, <1>3, <1>4, <1>5 DEF Next

-----------------------------------------------------------------------------
\* The bytes behind the frames returned are all that is left of the stream.
LEMMA NothingHidden == StreamInv => NoneHidesNoPrefix
<1> SUFFICES ASSUME StreamInv, pc = "none",
                    NEW k \in DOMAIN size, k > Len(bodies)
             PROVE  BytesOf(k, Len(wire)) < PrefixLen
  BY DEF NoneHidesNoPrefix
<1>0. TypeOK
  BY DEF StreamInv
<1>1. PICK start \in [1 .. Len(size) + 1 -> Nat] :
          Offsets(start) /\ Laid(start) /\ Placed(start)
  BY DEF StreamInv
<1>2. /\ Len(size) \in Nat /\ Len(wire) \in Nat /\ Len(bodies) \in Nat
      /\ consumed \in Nat /\ PrefixLen \in Nat /\ PrefixLen > 0
      /\ k \in 1 .. Len(size)
  BY <1>0, Numbers
<1>3. /\ consumed = start[Len(bodies) + 1]
      /\ Len(wire) - consumed < PrefixLen
  BY <1>1 DEF Placed, AtEof, Available
<1>4. consumed <= start[k] /\ start[k] \in Nat
  <2>1. /\ Len(bodies) + 1 \in 1 .. Len(size) + 1 /\ Len(bodies) + 1 <= k
        /\ k \in 1 .. Len(size) + 1
    BY <1>2
  <2> QED BY <1>1, <1>3, <2>1 DEF Offsets
<1> DEFINE held == {i \in 1 .. Len(wire) : wire[i] = k}
           left == consumed + 1 .. Len(wire)
<1>5. held \in SUBSET left
  BY <1>1, <1>2, <1>4 DEF Laid
<1>6. IsFiniteSet(left)
      /\ Cardinality(left) = IF consumed + 1 > Len(wire) THEN 0
                             ELSE Len(wire) - (consumed + 1) + 1
  <2>1. consumed + 1 \in Int /\ Len(wire) \in Int
    BY <1>2
  <2> QED BY <2>1, FS_Interval
<1>7. Cardinality(left) < PrefixLen /\ Cardinality(left) \in Nat
  BY <1>2, <1>3, <1>6, SMTT(20)
<1> HIDE DEF left
<1>8. Cardinality(held) <= Cardinality(left) /\ IsFiniteSet(held)
  BY <1>5, <1>6, FS_Subset
<1>9. Cardinality(held) \in Nat
  BY <1>8, FS_CardinalityType
<1>10. Cardinality(held) < PrefixLen
  <2> HIDE DEF held
  <2> QED BY <1>2, <1>7, <1>8, <1>9
<1> QED BY <1>10 DEF BytesOf

LEMMA StreamHolds == Spec => []StreamInv
BY StreamInit, StreamStep, PTL DEF Spec

\* Type correctness of the transport, for every choice of the constants.
THEOREM TypeCorrect == Spec => []TypeOK
<1>1. StreamInv => TypeOK
  BY DEF StreamInv
<1> QED BY <1>1, StreamHolds, PTL

\* Whatever the sizes written, the fragmentation and the place of a cut, the
\* bodies read_frame returns are the bodies write_frame was given, in order
\* and complete.
THEOREM FramesIntact == Spec => []BodiesIntact
<1>1. StreamInv => BodiesIntact
  BY DEF StreamInv
<1> QED BY <1>1, StreamHolds, PTL

\* When read_frame returns None, no frame is missing of which the prefix, or
\* more, came through.
THEOREM NoneIsAnEnd == Spec => []NoneHidesNoPrefix
BY NothingHidden, StreamHolds, PTL
=============================================================================
