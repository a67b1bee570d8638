-------------------------- MODULE ForwardDirection --------------------------
(***************************************************************************)
(* Proofs about the forwarding of one tunnel: for every size of the read   *)
(* buffer and of the kernel buffers, every amount of data and any number   *)
(* of failures.  The two directions of a tunnel do not read each other's   *)
(* state, so the inductive invariant is stated of one direction, of the    *)
(* record of its sender and that of its receiver, and holds of both.       *)
(***************************************************************************)
EXTENDS Forward, TLAPS

\* The record of one side of the tunnel (TypeOK).
End == [written : {0} \cup Byte, finIn : BOOLEAN, pending : Seq(Byte),
        up : Unstarted \cup {"read", "write", "close", "shutdown", "done",
                             "aborted"},
        buf : Seq(Byte), sealed : Nat,
        tunnel : Seq(FrameSet), finTunnel : BOOLEAN,
        down : Unstarted \cup {"ack", "read", "write", "shutdown", "done",
                               "aborted"},
        opened : Nat, pt : Seq(Byte),
        out : Seq(Byte), finOut : BOOLEAN, got : Seq(Byte)]

\* What holds of a side by itself: the two tasks start and are aborted
\* together, what they hold and when they end their streams.
Own(e) ==
    /\ {e.up, e.down} \cap Unstarted # {} => e.up = e.down
    /\ e.up = "aborted" <=> e.down = "aborted"
    /\ e.up = "accept" => e.tunnel = <<>>
    /\ e.up = "write" => e.sealed > 0
    /\ e.up # "write" => e.buf = <<>>
    /\ e.up \in {"close", "shutdown", "done"} => e.finIn /\ e.pending = <<>>
    /\ e.finTunnel => e.up \in {"done", "aborted"}
    /\ e.down \in {"ack", "read", "shutdown", "done", "aborted"} => e.pt = <<>>
    /\ e.finOut => e.down \in {"done", "aborted"}

\* The length of a sequence, under a name whose definition the proofs on
\* records leave closed: their provers do not type a Len of a field.
Size(q) == Len(q)

\* x and y are q cut after n elements, x is q with r or with e behind it, and
\* x is q without its head.
Splits(q, n, x, y) == x = SubSeq(q, 1, n) /\ y = SubSeq(q, n + 1, Len(q))
Joins(q, r, x) == x = q \o r
Extends(q, e, x) == x = Append(q, e)
Drops(q, x) == q # <<>> /\ x = Tail(q)

\* The bytes of q are those that come after the first lo.
Consec(q, lo) == \A i \in 1 .. Size(q) : q[i] = lo + i

\* How many bytes have come out of the tunnel at b.
Rcvd(b) == Size(b.got) + Size(b.out) + Size(b.pt)

\* The bytes handed over and those about to be are the first ones, in order.
InOrder(a, b) ==
    /\ Consec(b.got, 0)
    /\ Consec(b.out, Size(b.got))
    /\ Consec(b.pt, Size(b.got) + Size(b.out))
    /\ Rcvd(b) <= a.written

\* Without a failure neither side is aborted, and the receiver ends after all
\* the sender has sent.
Complete(a, b) ==
    /\ a.up # "aborted" /\ b.down # "aborted"
    /\ b.down \in {"shutdown", "done"} =>
          a.up \in {"shutdown", "done"} /\ Rcvd(b) = a.written

\* The receiver still takes frames, or will.
Live(b) == b.down \in Unstarted \cup {"ack", "read", "write"}

AckFirst(a) == a.tunnel # <<>> /\ a.tunnel[1].type = "ServerAck"
Acks(a) == IF AckFirst(a) THEN 1 ELSE 0

\* Frame j in the tunnel takes the bytes bound[j - 1] + 1 .. bound[j] of the
\* stream, and a record is the one the receiver's pool will have reached.
Fits(a, b, bound, j) ==
    \/ /\ a.tunnel[j].type = "DataRecord"
       /\ Consec(a.tunnel[j].data, bound[j - 1])
       /\ bound[j] = bound[j - 1] + Size(a.tunnel[j].data)
       /\ a.tunnel[j].seq = b.opened + j - 1 - Acks(a)
    \/ /\ a.tunnel[j].type = "Close"
       /\ j = Size(a.tunnel)
       /\ a.up \in {"shutdown", "done", "aborted"}
       /\ bound[j] = bound[j - 1] /\ bound[j] = a.written
    \/ /\ a.tunnel[j].type = "ServerAck"
       /\ j = 1 /\ b.down = "ack"
       /\ bound[j] = bound[j - 1]

Framed(a, b, bound) ==
    /\ bound[0] = Rcvd(b)
    /\ \A j \in 0 .. Size(a.tunnel) : bound[j] <= a.written
    /\ \A j \in 1 .. Size(a.tunnel) : Fits(a, b, bound, j)

\* What the sender still holds continues what is in the tunnel; once it has
\* finished, the last frame is its Close.
Sending(a, b, last) ==
    /\ Consec(a.buf, last)
    /\ Consec(a.pending, last + Size(a.buf))
    /\ a.written = last + Size(a.buf) + Size(a.pending)
    /\ IF a.up \in {"shutdown", "done"}
         THEN a.tunnel # <<>> /\ a.tunnel[Size(a.tunnel)].type = "Close"
         ELSE a.sealed = b.opened + Size(a.tunnel) - Acks(a)
                           + (IF a.up = "write" THEN 1 ELSE 0)

\* The ack of a 0-RTT handshake is the first frame the client gets.
AckComesFirst(a, b) ==
    b.down = "ack" => /\ a.tunnel # <<>> => AckFirst(a)
                      /\ a.up \notin {"accept", "aborted"} => a.tunnel # <<>>

Chain(a, b) ==
    /\ AckComesFirst(a, b)
    /\ \E bound \in [0 .. Size(a.tunnel) -> Nat] :
          /\ Framed(a, b, bound)
          /\ a.up # "aborted" => Sending(a, b, bound[Size(a.tunnel)])

\* One direction, from a to b; ok says that nothing has failed.
Direction(a, b, ok) ==
    /\ InOrder(a, b)
    /\ ok => Complete(a, b)
    /\ Live(b) => Chain(a, b)

\* The handshake: the ack is expected exactly by a 0-RTT client, and has not
\* been taken before the server sent it.
AckExpected ==
    /\ \A s \in Side : st[s].down = "ack" => zero_rtt
    /\ zero_rtt /\ st["server"].up = "accept" =>
          st["client"].down \in {"ack", "aborted"}

TunnelInv ==
    /\ TypeOK
    /\ \A s \in Side : Own(st[s]) /\ st[s].written <= MaxBytes(s)
    /\ \A s \in Side : Direction(st[Peer(s)], st[s], failures = 0)
    /\ AckExpected

-----------------------------------------------------------------------------
(* Runs of consecutive bytes.                                              *)

LEMMA SizeNat == ASSUME NEW S, NEW q \in Seq(S) PROVE Size(q) \in Nat
BY DEF Size

LEMMA SizeEmpty ==
    ASSUME NEW S, NEW q \in Seq(S)
    PROVE  Size(q) = 0 <=> q = <<>>
<1>1. q = <<>> => Len(q) = 0
  OBVIOUS
<1>2. Len(q) = 0 => q = <<>>
  BY SMT
<1> QED BY <1>1, <1>2 DEF Size

LEMMA NoBytes == Size(<<>>) = 0 /\ \A lo : Consec(<<>>, lo)
<1>1. Len(<<>>) = 0
  OBVIOUS
<1> QED BY <1>1 DEF Size, Consec

\* What a read takes from a run, and what it leaves.
LEMMA ConsecSplit ==
    ASSUME NEW S, NEW q \in Seq(S), NEW lo \in Nat, Consec(q, lo),
           NEW n \in 0 .. Size(q), NEW x, NEW y, Splits(q, n, x, y)
    PROVE  /\ x \in Seq(S) /\ Size(x) = n /\ Consec(x, lo)
           /\ y \in Seq(S) /\ Size(y) = Size(q) - n /\ Consec(y, lo + n)
<1>1. Len(q) \in Nat /\ n \in Nat /\ n <= Len(q)
  BY DEF Size
<1>2. \A i \in 1 .. Len(q) : q[i] \in S
  OBVIOUS
<1>3. /\ SubSeq(q, 1, n) \in Seq(S)
      /\ Len(SubSeq(q, 1, n)) = n
      /\ \A i \in 1 .. n : SubSeq(q, 1, n)[i] = q[i]
  <2>1. 1 \in Int /\ n \in Int /\ \A i \in 1 .. n : q[i] \in S
    BY <1>1, <1>2
  <2>2. /\ SubSeq(q, 1, n) \in Seq(S)
        /\ Len(SubSeq(q, 1, n)) = IF 1 <= n THEN n - 1 + 1 ELSE 0
        /\ \A i \in 1 .. n - 1 + 1 : SubSeq(q, 1, n)[i] = q[1 + i - 1]
    BY <2>1
  <2>3. n - 1 + 1 = n /\ (IF 1 <= n THEN n - 1 + 1 ELSE 0) = n
        /\ \A i \in 1 .. n : 1 + i - 1 = i
    BY <1>1, SMTT(20)
  <2> QED BY <2>2, <2>3
<1>4. /\ SubSeq(q, n + 1, Len(q)) \in Seq(S)
      /\ Len(SubSeq(q, n + 1, Len(q))) = Len(q) - n
      /\ \A i \in 1 .. Len(q) - n : SubSeq(q, n + 1, Len(q))[i] = q[n + i]
  <2>1. n + 1 \in Int /\ Len(q) \in Int
        /\ \A i \in n + 1 .. Len(q) : q[i] \in S
    BY <1>1, <1>2
  <2>2. /\ SubSeq(q, n + 1, Len(q)) \in Seq(S)
        /\ Len(SubSeq(q, n + 1, Len(q)))
              = IF n + 1 <= Len(q) THEN Len(q) - (n + 1) + 1 ELSE 0
        /\ \A i \in 1 .. Len(q) - (n + 1) + 1 :
              SubSeq(q, n + 1, Len(q))[i] = q[n + 1 + i - 1]
    BY <2>1
  <2>3. /\ Len(q) - (n + 1) + 1 = Len(q) - n
        /\ (IF n + 1 <= Len(q) THEN Len(q) - (n + 1) + 1 ELSE 0) = Len(q) - n
        /\ \A i \in 1 .. Len(q) - n : n + 1 + i - 1 = n + i
    BY <1>1
  <2> QED BY <2>2, <2>3, Zenon
<1>5. Consec(SubSeq(q, 1, n), lo)
  BY <1>1, <1>3 DEF Consec, Size
<1>6. Consec(SubSeq(q, n + 1, Len(q)), lo + n)
  <2>1. \A i \in 1 .. Len(q) - n : n + i \in 1 .. Len(q)
    BY <1>1
  <2>2. \A i \in 1 .. Len(q) - n : lo + (n + i) = lo + n + i
    BY <1>1
  <2> QED BY <1>4, <2>1, <2>2 DEF Consec, Size
<1> QED BY <1>3, <1>4, <1>5, <1>6 DEF Splits, Size

\* A run that continues another one.
LEMMA ConsecJoin ==
    ASSUME NEW S, NEW q \in Seq(S), NEW r \in Seq(S), NEW lo \in Nat,
           Consec(q, lo), Consec(r, lo + Size(q)), NEW x, Joins(q, r, x)
    PROVE  /\ x \in Seq(S) /\ Size(x) = Size(q) + Size(r) /\ Consec(x, lo)
<1>1. Len(q) \in Nat /\ Len(r) \in Nat
  OBVIOUS
<1>2. /\ q \o r \in Seq(S)
      /\ Len(q \o r) = Len(q) + Len(r)
      /\ \A i \in 1 .. Len(q) + Len(r) :
            (q \o r)[i] = IF i <= Len(q) THEN q[i] ELSE r[i - Len(q)]
  OBVIOUS
<1>3. ASSUME NEW i \in 1 .. Len(q) + Len(r) PROVE (q \o r)[i] = lo + i
  <2>1. CASE i <= Len(q)
    <3>1. (q \o r)[i] = q[i] /\ i \in 1 .. Len(q)
      BY <1>1, <1>2, <2>1
    <3> QED BY <3>1 DEF Consec, Size
  <2>2. CASE ~(i <= Len(q))
    <3>1. (q \o r)[i] = r[i - Len(q)] /\ i - Len(q) \in 1 .. Len(r)
      BY <1>1, <1>2, <2>2
    <3>2. r[i - Len(q)] = lo + Len(q) + (i - Len(q))
      BY <3>1 DEF Consec, Size
    <3> QED BY <1>1, <3>1, <3>2
  <2> QED BY <2>1, <2>2
<1> QED BY <1>2, <1>3 DEF Joins, Consec, Size

\* An element behind a sequence; behind a run, the next byte.
LEMMA Appended ==
    ASSUME NEW S, NEW q \in Seq(S), NEW e \in S, NEW x, Extends(q, e, x)
    PROVE  /\ x \in Seq(S) /\ Size(x) = Size(q) + 1 /\ x # <<>>
           /\ x[Size(q) + 1] = e
           /\ \A i \in 1 .. Size(q) : x[i] = q[i]
<1>1. /\ Append(q, e) \in Seq(S)
      /\ Len(Append(q, e)) = Len(q) + 1
      /\ Append(q, e)[Len(q) + 1] = e
      /\ \A i \in 1 .. Len(q) : Append(q, e)[i] = q[i]
  OBVIOUS
<1>2. x # <<>>
  BY <1>1 DEF Extends
<1> QED BY <1>1, <1>2 DEF Extends, Size

LEMMA ConsecAppend ==
    ASSUME NEW S, NEW q \in Seq(S), NEW lo \in Nat, Consec(q, lo),
           NEW e \in S, e = lo + Size(q) + 1, NEW x, Extends(q, e, x)
    PROVE  x \in Seq(S) /\ Size(x) = Size(q) + 1 /\ Consec(x, lo)
<1>1. /\ x \in Seq(S) /\ Size(x) = Size(q) + 1
      /\ x[Size(q) + 1] = e
      /\ \A i \in 1 .. Size(q) : x[i] = q[i]
  BY Appended
<1>2. Size(q) \in Nat
  BY SizeNat
<1>3. ASSUME NEW i \in 1 .. Size(q) + 1 PROVE x[i] = lo + i
  <2>1. CASE i = Size(q) + 1
    BY <1>1, <1>2, <2>1
  <2>2. CASE i \in 1 .. Size(q)
    BY <1>1, <2>2 DEF Consec
  <2> QED BY <1>2, <2>1, <2>2
<1> QED BY <1>1, <1>3 DEF Consec

\* A sequence without its head.
LEMMA Dropped ==
    ASSUME NEW S, NEW q \in Seq(S), NEW x, Drops(q, x)
    PROVE  /\ x \in Seq(S) /\ Size(q) = Size(x) + 1
           /\ \A i \in 1 .. Size(x) : x[i] = q[i + 1]
<1>1. q # <<>> /\ x = Tail(q)
  BY DEF Drops
<1>2. /\ Len(q) \in Nat
      /\ Tail(q) \in Seq(S)
      /\ Len(Tail(q)) = Len(q) - 1
      /\ \A i \in 1 .. Len(Tail(q)) : Tail(q)[i] = q[i + 1]
  BY <1>1
<1> QED BY <1>1, <1>2 DEF Size

\* A run from the beginning.
LEMMA ConsecFirst ==
    ASSUME NEW S, NEW q \in Seq(S), Consec(q, 0)
    PROVE  q = FirstBytes(Size(q))
<1>1. Len(q) \in Nat /\ q = [i \in 1 .. Len(q) |-> q[i]]
  OBVIOUS
<1>2. \A i \in 1 .. Len(q) : q[i] = i
  BY <1>1 DEF Consec, Size
<1> QED BY <1>1, <1>2 DEF FirstBytes, Size

-----------------------------------------------------------------------------
(* One direction, step by step.  A lemma names the fields it is about: of   *)
(* the sender's record those of up, of the receiver's those of down.       *)

Typed(e) ==
    /\ e.written \in Nat /\ e.sealed \in Nat /\ e.opened \in Nat
    /\ e.pending \in Seq(Byte) /\ Size(e.pending) \in Nat
    /\ e.buf \in Seq(Byte) /\ Size(e.buf) \in Nat
    /\ e.tunnel \in Seq(FrameSet) /\ Size(e.tunnel) \in Nat
    /\ e.pt \in Seq(Byte) /\ Size(e.pt) \in Nat
    /\ e.out \in Seq(Byte) /\ Size(e.out) \in Nat
    /\ e.got \in Seq(Byte) /\ Size(e.got) \in Nat
    /\ Rcvd(e) \in Nat

LEMMA EndFields == \A e \in End : Typed(e)
<1> SUFFICES ASSUME NEW e \in End PROVE Typed(e)
  OBVIOUS
<1>1. /\ e.written \in Nat /\ e.sealed \in Nat /\ e.opened \in Nat
      /\ e.pending \in Seq(Byte) /\ e.buf \in Seq(Byte)
      /\ e.tunnel \in Seq(FrameSet) /\ e.pt \in Seq(Byte)
      /\ e.out \in Seq(Byte) /\ e.got \in Seq(Byte)
  BY DEF End, Byte
<1>2. /\ Size(e.pending) \in Nat /\ Size(e.buf) \in Nat
      /\ Size(e.tunnel) \in Nat /\ Size(e.pt) \in Nat
      /\ Size(e.out) \in Nat /\ Size(e.got) \in Nat
  BY <1>1, SizeNat, Zenon
<1>3. Rcvd(e) \in Nat
  BY <1>2 DEF Rcvd
<1> QED BY <1>1, <1>2, <1>3, Zenon DEF Typed

Sender(a) == <<a.written, a.pending, a.up, a.buf, a.sealed, a.tunnel>>
Receiver(b) == <<b.down, b.opened, b.pt, b.out, b.got>>

\* A direction is about up of its sender and down of its receiver.
LEMMA DirectionKept ==
    ASSUME NEW a, NEW b, NEW a2, NEW b2, NEW ok, Direction(a, b, ok),
           Sender(a2) = Sender(a), Receiver(b2) = Receiver(b)
    PROVE  Direction(a2, b2, ok)
<1>1. /\ a2.written = a.written /\ a2.pending = a.pending /\ a2.up = a.up
      /\ a2.buf = a.buf /\ a2.sealed = a.sealed /\ a2.tunnel = a.tunnel
      /\ b2.down = b.down /\ b2.opened = b.opened /\ b2.pt = b.pt
      /\ b2.out = b.out /\ b2.got = b.got
  BY DEF Sender, Receiver
<1>2. InOrder(a2, b2) /\ (Complete(a, b) => Complete(a2, b2))
      /\ (Live(b2) => Live(b))
  BY <1>1 DEF Direction, InOrder, Complete, Live, Rcvd
<1>3. ASSUME Chain(a, b) PROVE Chain(a2, b2)
  <2>1. PICK bound \in [0 .. Size(a.tunnel) -> Nat] :
            /\ Framed(a, b, bound)
            /\ a.up # "aborted" => Sending(a, b, bound[Size(a.tunnel)])
    BY <1>3, Zenon DEF Chain
  <2>2. Framed(a2, b2, bound)
    BY <1>1, <2>1 DEF Framed, Fits, Rcvd, Acks, AckFirst
  <2>3. a2.up # "aborted" => Sending(a2, b2, bound[Size(a2.tunnel)])
    BY <1>1, <2>1 DEF Sending, Acks, AckFirst
  <2>4. AckComesFirst(a2, b2)
    BY <1>1, <1>3 DEF Chain, AckComesFirst, AckFirst
  <2> QED BY <1>1, <2>1, <2>2, <2>3, <2>4, Zenon DEF Chain
<1> QED BY <1>2, <1>3 DEF Direction

\* The program writes a byte.
LEMMA ProgramWrites ==
    ASSUME NEW a \in End, NEW b \in End, NEW a2 \in End, NEW ok,
           Direction(a, b, ok),
           a.up \notin {"close", "shutdown", "done", "aborted"},
           a2.written = a.written + 1,
           Extends(a.pending, a.written + 1, a2.pending),
           a.written + 1 \in Byte,
           a2.up = a.up, a2.buf = a.buf, a2.sealed = a.sealed,
           a2.tunnel = a.tunnel
    PROVE  Direction(a2, b, ok)
<1>0. Typed(a) /\ Typed(b)
  BY EndFields
<1>1. InOrder(a2, b)
  <2>1. Rcvd(b) \in Nat /\ a.written \in Nat /\ Rcvd(b) <= a.written
    BY <1>0, Zenon DEF Direction, InOrder, Typed
  <2>2. Rcvd(b) <= a2.written
    BY <2>1
  <2> QED BY <2>2 DEF Direction, InOrder
<1>2. Complete(a, b) => Complete(a2, b)
  BY DEF Complete
<1>3. ASSUME Chain(a, b) PROVE Chain(a2, b)
  <2> DEFINE L == Size(a.tunnel)
  <2>1. PICK bound \in [0 .. L -> Nat] :
            Framed(a, b, bound) /\ Sending(a, b, bound[L])
    BY <1>3, Zenon DEF Chain
  <2>2. /\ L \in Nat /\ bound[L] \in Nat /\ Size(a.buf) \in Nat
        /\ Size(a.pending) \in Nat /\ a.written \in Nat
        /\ a.pending \in Seq(Byte)
    BY <1>0, <2>1, SMTT(20) DEF Typed
  <2>3. Framed(a2, b, bound)
    <3>1. \A j \in 0 .. L : bound[j] \in Nat /\ bound[j] <= a.written
      BY <2>1 DEF Framed
    <3>2. \A j \in 0 .. L : bound[j] <= a2.written
      BY <2>2, <3>1
    <3>3. \A j \in 1 .. L : Fits(a2, b, bound, j)
      BY <2>1 DEF Framed, Fits, Acks, AckFirst
    <3> QED BY <2>1, <3>2, <3>3 DEF Framed
  <2>4. Sending(a2, b, bound[L])
    <3> DEFINE lo == bound[L] + Size(a.buf)
    <3>1. lo \in Nat /\ a.written = lo + Size(a.pending) /\ Consec(a.pending, lo)
      BY <2>1, <2>2 DEF Sending
    <3> HIDE DEF lo
    <3>2. Consec(a2.pending, lo) /\ Size(a2.pending) = Size(a.pending) + 1
      BY <2>2, <3>1, ConsecAppend
    <3>3. a2.written = lo + Size(a2.pending)
      BY <2>2, <3>1, <3>2
    <3> QED BY <2>1, <3>2, <3>3 DEF Sending, lo, Acks, AckFirst
  <2>5. AckComesFirst(a2, b)
    BY <1>3 DEF Chain, AckComesFirst, AckFirst
  <2> QED BY <2>1, <2>3, <2>4, <2>5, Zenon DEF Chain
<1> QED BY <1>1, <1>2, <1>3 DEF Direction

\* pr.read: bytes move from the socket to the buffer, sealed as one record.
LEMMA SenderReads ==
    ASSUME NEW a \in End, NEW b \in End, NEW a2 \in End, NEW ok,
           Direction(a, b, ok), Own(a), a.up = "read", a2.up = "write",
           NEW n \in 1 .. Size(a.pending),
           Splits(a.pending, n, a2.buf, a2.pending),
           a2.sealed = a.sealed + 1,
           a2.written = a.written, a2.tunnel = a.tunnel
    PROVE  Direction(a2, b, ok)
<1>0. Typed(a) /\ Typed(b)
  BY EndFields
<1>1. InOrder(a2, b)
  BY DEF Direction, InOrder
<1>2. Complete(a, b) => Complete(a2, b)
  BY DEF Complete
<1>3. ASSUME Chain(a, b) PROVE Chain(a2, b)
  <2> DEFINE L == Size(a.tunnel)
  <2>1. PICK bound \in [0 .. L -> Nat] :
            Framed(a, b, bound) /\ Sending(a, b, bound[L])
    BY <1>3, Zenon DEF Chain
  <2>2. /\ L \in Nat /\ bound[L] \in Nat /\ b.opened \in Nat
        /\ Size(a.pending) \in Nat /\ a.written \in Nat
        /\ a.pending \in Seq(Byte) /\ a.sealed \in Nat
    BY <1>0, <2>1, SMTT(20) DEF Typed
  <2>3. Framed(a2, b, bound)
    BY <2>1 DEF Framed, Fits, Acks, AckFirst
  <2>4. Sending(a2, b, bound[L])
    <3> DEFINE lo == bound[L]
    <3>1. a.buf = <<>> /\ Size(a.buf) = 0
      BY NoBytes DEF Own
    <3>2. lo \in Nat /\ a.written = lo + Size(a.pending) /\ Consec(a.pending, lo)
      BY <2>1, <2>2, <3>1 DEF Sending
    <3> HIDE DEF lo
    <3>3. n \in 0 .. Size(a.pending) /\ n \in Nat
      BY <2>2
    <3>4. /\ Size(a2.buf) = n /\ Consec(a2.buf, lo)
          /\ Size(a2.pending) = Size(a.pending) - n
          /\ Consec(a2.pending, lo + n)
      BY <2>2, <3>2, <3>3, ConsecSplit
    <3>5. a2.written = lo + Size(a2.buf) + Size(a2.pending)
      BY <2>2, <3>2, <3>3, <3>4
    <3>6. a2.sealed = b.opened + L - Acks(a) + 1
      <4>1. a.sealed = b.opened + L - Acks(a) + 0
        BY <2>1 DEF Sending
      <4>2. Acks(a) \in Nat
        BY DEF Acks
      <4> QED BY <2>2, <4>1, <4>2
    <3>7. Acks(a2) = Acks(a)
      BY DEF Acks, AckFirst
    <3> QED BY <3>4, <3>5, <3>6, <3>7 DEF Sending, lo
  <2>5. AckComesFirst(a2, b)
    BY <1>3 DEF Chain, AckComesFirst, AckFirst
  <2> QED BY <2>1, <2>3, <2>4, <2>5, Zenon DEF Chain
<1> QED BY <1>1, <1>2, <1>3 DEF Direction

Bounds(a, bound) == bound \in [0 .. Size(a.tunnel) -> Nat]

\* The frame f that up of a sends next takes the bytes lo + 1 .. hi.
Follows(a, b, a2, f, lo, hi) ==
    \/ /\ f.type = "DataRecord"
       /\ Consec(f.data, lo)
       /\ hi = lo + Size(f.data)
       /\ f.seq = b.opened + Size(a.tunnel) - Acks(a)
    \/ /\ f.type = "Close"
       /\ a2.up = "shutdown"
       /\ hi = lo /\ hi = a.written

Unfinished(a) == a.up \notin {"shutdown", "done", "aborted"}

\* The tunnel after a frame f that ends at byte hi.
Sent(a, b, a2, f, hi) ==
    /\ Acks(a2) = Acks(a) /\ (AckFirst(a) => AckFirst(a2))
    /\ Size(a2.tunnel) = Size(a.tunnel) + 1
    /\ a2.tunnel # <<>> /\ a2.tunnel[Size(a2.tunnel)] = f
    /\ \E b2 : /\ Bounds(a2, b2) /\ Framed(a2, b, b2)
               /\ b2[Size(a2.tunnel)] = hi

\* write_frame puts a record or a Close behind what is in the tunnel.
LEMMA FrameSent ==
    ASSUME NEW a \in End, NEW b \in End, NEW a2 \in End,
           NEW bound, Bounds(a, bound), Framed(a, b, bound),
           Unfinished(a),
           NEW f \in FrameSet, Extends(a.tunnel, f, a2.tunnel),
           a2.written = a.written,
           NEW hi \in Nat, hi <= a.written,
           Follows(a, b, a2, f, bound[Size(a.tunnel)], hi)
    PROVE  Sent(a, b, a2, f, hi)
<1> DEFINE L == Size(a.tunnel)
<1>0. Typed(a) /\ Typed(b)
  BY EndFields
<1>1. L \in Nat /\ a.written \in Nat /\ b.opened \in Nat
      /\ a.tunnel \in Seq(FrameSet)
  BY <1>0 DEF Typed
<1>2. /\ Size(a2.tunnel) = L + 1 /\ a2.tunnel # <<>>
      /\ a2.tunnel[L + 1] = f
      /\ \A j \in 1 .. L : a2.tunnel[j] = a.tunnel[j]
  BY <1>1, Appended
<1>3. L = 0 <=> a.tunnel = <<>>
  BY <1>1, SizeEmpty
<1>4. AckFirst(a2) <=> AckFirst(a)
  <2>1. CASE L = 0
    <3>1. f.type # "ServerAck"
      BY DEF Follows
    <3>2. a2.tunnel[1] = f
      BY <1>2, <2>1
    <3> QED BY <1>2, <1>3, <2>1, <3>1, <3>2 DEF AckFirst
  <2>2. CASE L # 0
    <3>1. 1 \in 1 .. L
      BY <1>1, <2>2
    <3> QED BY <1>2, <1>3, <2>2, <3>1 DEF AckFirst
  <2> QED BY <2>1, <2>2
<1>5. Acks(a2) = Acks(a)
  BY <1>4 DEF Acks
<1> HIDE DEF L
<1>6. PICK b2 \in [0 .. L + 1 -> Nat] :
          b2[L + 1] = hi /\ \A j \in 0 .. L : b2[j] = bound[j]
  <2> DEFINE longer == [j \in 0 .. L + 1 |-> IF j <= L THEN bound[j] ELSE hi]
  <2>1. bound \in [0 .. L -> Nat]
    BY DEF L, Bounds
  <2>2. longer \in [0 .. L + 1 -> Nat]
    BY <1>1, <2>1
  <2>3. longer[L + 1] = hi /\ \A j \in 0 .. L : longer[j] = bound[j]
    BY <1>1
  <2> QED BY <2>2, <2>3, Zenon
<1>7. ASSUME NEW j \in 1 .. L PROVE Fits(a2, b, b2, j)
  <2>1. /\ j \in 0 .. L /\ j - 1 \in 0 .. L
    BY <1>1
  <2>2. b2[j] = bound[j] /\ b2[j - 1] = bound[j - 1]
    BY <1>6, <2>1
  <2>3. Fits(a, b, bound, j)
    BY DEF Framed, L
  <2> QED BY <1>2, <1>5, <2>2, <2>3 DEF Fits, Unfinished
<1>8. ASSUME NEW j, j = L + 1 PROVE Fits(a2, b, b2, j)
  <2>1. j - 1 = L /\ L \in 0 .. L
    BY <1>1, <1>8
  <2>2. /\ b2[j - 1] = bound[L] /\ b2[j] = hi
        /\ a2.tunnel[j] = f /\ j = Size(a2.tunnel)
    BY <1>2, <1>6, <1>8, <2>1
  <2>3. Follows(a, b, a2, f, bound[L], hi)
    BY DEF L
  <2>4. CASE f.type = "DataRecord"
    <3>1. /\ Consec(f.data, bound[L]) /\ hi = bound[L] + Size(f.data)
          /\ f.seq = b.opened + L - Acks(a)
      BY <2>3, <2>4 DEF Follows, L
    <3>2. b.opened + j - 1 - Acks(a2) = b.opened + L - Acks(a)
      BY <1>1, <1>5, <1>8 DEF Acks
    <3> QED BY <2>2, <2>4, <3>1, <3>2 DEF Fits
  <2>5. CASE f.type = "Close"
    <3>1. a2.up = "shutdown" /\ hi = bound[L] /\ hi = a2.written
      BY <2>3, <2>5 DEF Follows
    <3> QED BY <2>2, <2>5, <3>1 DEF Fits
  <2> QED BY <2>3, <2>4, <2>5 DEF Follows
<1>9. Framed(a2, b, b2)
  <2>1. b2[0] = Rcvd(b)
    <3>1. 0 \in 0 .. L
      BY <1>1
    <3> QED BY <1>6, <3>1 DEF Framed
  <2>2. ASSUME NEW j \in 0 .. L + 1 PROVE b2[j] <= a2.written
    <3>1. CASE j = L + 1
      BY <1>6, <3>1
    <3>2. CASE j \in 0 .. L
      BY <1>6, <3>2 DEF Framed, L
    <3> QED BY <1>1, <3>1, <3>2
  <2>3. \A j \in 1 .. L + 1 : j \in 1 .. L \/ j = L + 1
    BY <1>1
  <2>4. \A j \in 1 .. L + 1 : Fits(a2, b, b2, j)
    BY <1>7, <1>8, <2>3
  <2> QED BY <1>2, <2>1, <2>2, <2>4 DEF Framed
<1>10. Bounds(a2, b2)
  BY <1>2, <1>6 DEF Bounds
<1> QED BY <1>2, <1>4, <1>5, <1>6, <1>9, <1>10, Zenon DEF L, Sent

\* The record up holds goes into the tunnel.
LEMMA SenderWrites ==
    ASSUME NEW a \in End, NEW b \in End, NEW a2 \in End, NEW ok,
           Direction(a, b, ok), Own(a), a.up = "write", a2.up = "read",
           Extends(a.tunnel, DataRecord(a.sealed - 1, a.buf), a2.tunnel),
           a2.buf = <<>>,
           a2.written = a.written, a2.pending = a.pending,
           a2.sealed = a.sealed
    PROVE  Direction(a2, b, ok)
<1>0. Typed(a) /\ Typed(b)
  BY EndFields
<1>1. InOrder(a2, b)
  BY DEF Direction, InOrder
<1>2. Complete(a, b) => Complete(a2, b)
  BY DEF Complete
<1>3. ASSUME Chain(a, b) PROVE Chain(a2, b)
  <2> DEFINE L == Size(a.tunnel)
  <2>1. PICK bound \in [0 .. L -> Nat] :
            Framed(a, b, bound) /\ Sending(a, b, bound[L])
    BY <1>3, Zenon DEF Chain
  <2>2. /\ L \in Nat /\ bound[L] \in Nat /\ b.opened \in Nat
        /\ Size(a.pending) \in Nat /\ Size(a.buf) \in Nat
        /\ a.written \in Nat /\ a.sealed \in Nat /\ a.buf \in Seq(Byte)
    BY <1>0, <2>1 DEF Typed
  <2>3. PICK hi \in Nat : hi = bound[L] + Size(a.buf)
    BY <2>2
  <2>4. /\ Consec(a.buf, bound[L])
        /\ Consec(a.pending, hi)
        /\ a.written = hi + Size(a.pending)
        /\ a.sealed = b.opened + L - Acks(a) + 1
    BY <2>1, <2>3 DEF Sending
  <2>5. hi <= a.written /\ Acks(a) \in Nat
    BY <2>2, <2>4 DEF Acks
  <2>6. PICK f \in FrameSet :
          /\ f = DataRecord(a.sealed - 1, a.buf)
          /\ f.type = "DataRecord" /\ f.data = a.buf /\ f.seq = a.sealed - 1
    <3>1. a.sealed - 1 \in Nat
      BY <2>2 DEF Own
    <3> QED BY <2>2, <3>1 DEF DataRecord, FrameSet
  <2>7. /\ Acks(a2) = Acks(a) /\ (AckFirst(a) => AckFirst(a2))
        /\ Size(a2.tunnel) = L + 1
        /\ \E b2 : /\ Bounds(a2, b2) /\ Framed(a2, b, b2)
                   /\ b2[Size(a2.tunnel)] = hi
    <3>1. Extends(a.tunnel, f, a2.tunnel)
      BY <2>6
    <3>2. Unfinished(a)
      BY DEF Unfinished
    <3>3. Bounds(a, bound)
      BY <2>1 DEF Bounds
    <3>4. a.sealed - 1 = b.opened + L - Acks(a)
      BY <2>2, <2>4, <2>5, SMTT(20)
    <3>5. Follows(a, b, a2, f, bound[L], hi)
      BY <2>3, <2>4, <2>6, <3>4 DEF Follows
    <3>6. Sent(a, b, a2, f, hi)
      BY <2>1, <2>5, <3>1, <3>2, <3>3, <3>5, FrameSent, Zenon
    <3> QED BY <3>6 DEF Sent
  <2>8. Sending(a2, b, hi)
    <3>1. a2.sealed = b.opened + (L + 1) - Acks(a) + 0
      BY <2>2, <2>4, <2>5, SMTT(20)
    <3>2. hi + Size(<<>>) = hi
      BY NoBytes
    <3>3. Consec(a2.buf, hi) /\ Consec(a2.pending, hi + Size(a2.buf))
          /\ a2.written = hi + Size(a2.buf) + Size(a2.pending)
      BY <2>4, <3>2, NoBytes
    <3> HIDE DEF L
    <3> QED BY <2>7, <3>1, <3>3 DEF Sending
  <2>9. AckComesFirst(a2, b)
    <3>1. a.up \notin {"accept", "aborted"}
      OBVIOUS
    <3> QED BY <1>3, <2>7, <3>1, Zenon DEF Chain, AckComesFirst, AckFirst
  <2> QED BY <2>7, <2>8, <2>9, Zenon DEF Chain, Bounds
<1> QED BY <1>1, <1>2, <1>3 DEF Direction

LEMMA Signals ==
    ASSUME NEW t \in {"Close", "ServerAck"}
    PROVE  Signal(t) \in FrameSet /\ Signal(t).type = t
<1>1. <<>> \in Seq(Byte) /\ 0 \in Nat
  OBVIOUS
<1> QED BY <1>1 DEF Signal, FrameSet

\* The Close frame goes into the tunnel.
LEMMA SenderCloses ==
    ASSUME NEW a \in End, NEW b \in End, NEW a2 \in End, NEW ok,
           Direction(a, b, ok), Own(a), a.up = "close", a2.up = "shutdown",
           Extends(a.tunnel, Signal("Close"), a2.tunnel),
           a2.written = a.written, a2.pending = a.pending, a2.buf = a.buf
    PROVE  Direction(a2, b, ok)
<1>0. Typed(a) /\ Typed(b)
  BY EndFields
<1>1. InOrder(a2, b)
  BY DEF Direction, InOrder
<1>2. Complete(a, b) => Complete(a2, b)
  BY DEF Complete
<1>3. ASSUME Chain(a, b) PROVE Chain(a2, b)
  <2> DEFINE L == Size(a.tunnel)
  <2>1. PICK bound \in [0 .. L -> Nat] :
            Framed(a, b, bound) /\ Sending(a, b, bound[L])
    BY <1>3, Zenon DEF Chain
  <2>2. L \in Nat /\ bound[L] \in Nat /\ a.written \in Nat
    BY <1>0, <2>1, SMTT(20) DEF Typed
  <2>3. /\ a.buf = <<>> /\ a.pending = <<>>
        /\ Size(a.buf) = 0 /\ Size(a.pending) = 0
    BY NoBytes DEF Own
  <2>4. PICK hi \in Nat : hi = bound[L] /\ hi = a.written
    BY <2>1, <2>2, <2>3 DEF Sending
  <2>5. PICK f \in FrameSet : f = Signal("Close") /\ f.type = "Close"
    BY Signals
  <2>6. Sent(a, b, a2, f, hi)
    <3>1. Extends(a.tunnel, f, a2.tunnel)
      BY <2>5
    <3>2. Unfinished(a)
      BY DEF Unfinished
    <3>3. Bounds(a, bound)
      BY <2>1 DEF Bounds
    <3>4. hi <= a.written
      BY <2>4
    <3>5. Follows(a, b, a2, f, bound[L], hi)
      BY <2>4, <2>5 DEF Follows
    <3> QED BY <2>1, <3>1, <3>2, <3>3, <3>4, <3>5, FrameSent, Zenon
  <2>7. Sending(a2, b, hi)
    <3>1. a2.tunnel # <<>> /\ a2.tunnel[Size(a2.tunnel)].type = "Close"
      BY <2>5, <2>6 DEF Sent
    <3>2. Consec(a2.buf, hi) /\ Consec(a2.pending, hi + Size(a2.buf))
      BY <2>3, NoBytes
    <3>3. a2.written = hi + Size(a2.buf) + Size(a2.pending)
      BY <2>3, <2>4
    <3> QED BY <3>1, <3>2, <3>3 DEF Sending
  <2>8. AckComesFirst(a2, b)
    <3>1. a.up \notin {"accept", "aborted"}
      OBVIOUS
    <3> QED BY <1>3, <2>6, <3>1, Zenon DEF Chain, AckComesFirst, AckFirst, Sent
  <2>9. PICK b2 : /\ Bounds(a2, b2) /\ Framed(a2, b, b2)
                  /\ b2[Size(a2.tunnel)] = hi
    BY <2>6 DEF Sent
  <2> QED BY <2>7, <2>8, <2>9, Zenon DEF Chain, Bounds
<1> QED BY <1>1, <1>2, <1>3 DEF Direction

\* up goes on without touching its stream.
LEMMA SenderMoves ==
    ASSUME NEW a \in End, NEW b \in End, NEW a2 \in End, NEW ok,
           Direction(a, b, ok),
           a.up \notin {"accept", "write", "aborted"},
           a2.up \notin {"accept", "write", "aborted"},
           a.up \in {"shutdown", "done"} <=> a2.up \in {"shutdown", "done"},
           a2.written = a.written, a2.pending = a.pending, a2.buf = a.buf,
           a2.sealed = a.sealed, a2.tunnel = a.tunnel
    PROVE  Direction(a2, b, ok)
<1>1. InOrder(a2, b)
  BY DEF Direction, InOrder
<1>2. Complete(a, b) => Complete(a2, b)
  BY DEF Complete
<1>3. ASSUME Chain(a, b) PROVE Chain(a2, b)
  <2> DEFINE L == Size(a.tunnel)
  <2>1. PICK bound \in [0 .. L -> Nat] :
            Framed(a, b, bound) /\ Sending(a, b, bound[L])
    BY <1>3, Zenon DEF Chain
  <2>2. Acks(a2) = Acks(a) /\ (AckFirst(a2) <=> AckFirst(a))
    BY DEF Acks, AckFirst
  <2>3. Framed(a2, b, bound)
    <3>1. \A j \in 1 .. L : Fits(a2, b, bound, j)
      BY <2>1, <2>2 DEF Framed, Fits
    <3> QED BY <2>1, <3>1 DEF Framed
  <2>4. Sending(a2, b, bound[L])
    BY <2>1, <2>2 DEF Sending
  <2>5. AckComesFirst(a2, b)
    BY <1>3, <2>2 DEF Chain, AckComesFirst
  <2> QED BY <2>1, <2>3, <2>4, <2>5, Zenon DEF Chain
<1> QED BY <1>1, <1>2, <1>3 DEF Direction

\* What up does when the receiver takes no more; only a failure can bring
\* that about before up has finished.
LEMMA SenderUnheard ==
    ASSUME NEW a \in End, NEW b \in End, NEW a2 \in End, NEW ok \in BOOLEAN,
           Direction(a, b, ok), Unfinished(a),
           b.down \in {"done", "aborted"},
           a2.written = a.written
    PROVE  ~ok /\ Direction(a2, b, ok)
<1>1. ~ok
  BY DEF Direction, Complete, Unfinished
<1>2. ~Live(b)
  BY DEF Live, Unstarted
<1> QED BY <1>1, <1>2 DEF Direction, InOrder

\* A failure drops up with what it holds; what is in the tunnel stays.
LEMMA SenderAborts ==
    ASSUME NEW a \in End, NEW b \in End, NEW a2 \in End, NEW ok,
           Direction(a, b, ok), a2.up = "aborted",
           a2.written = a.written, a2.tunnel = a.tunnel
    PROVE  Direction(a2, b, FALSE)
<1>1. InOrder(a2, b)
  BY DEF Direction, InOrder
<1>2. ASSUME Chain(a, b) PROVE Chain(a2, b)
  <2>1. PICK bound \in [0 .. Size(a.tunnel) -> Nat] : Framed(a, b, bound)
    BY <1>2 DEF Chain
  <2>2. Acks(a2) = Acks(a) /\ (AckFirst(a2) <=> AckFirst(a))
    BY DEF Acks, AckFirst
  <2>3. Framed(a2, b, bound)
    <3>1. \A j \in 1 .. Size(a.tunnel) : Fits(a2, b, bound, j)
      BY <2>1, <2>2 DEF Framed, Fits
    <3> QED BY <2>1, <3>1 DEF Framed
  <2>4. AckComesFirst(a2, b)
    BY <1>2, <2>2 DEF Chain, AckComesFirst
  <2> QED BY <2>1, <2>3, <2>4 DEF Chain
<1> QED BY <1>1, <1>2 DEF Direction

\* server_accept returns: the ack of a 0-RTT handshake is in the tunnel before
\* forward() starts.
LEMMA SenderAccepts ==
    ASSUME NEW a \in End, NEW b \in End, NEW a2 \in End, NEW ok,
           Direction(a, b, ok), Own(a), a.up = "accept", a2.up = "connect",
           \/ /\ a2.tunnel = <<Signal("ServerAck")>>
              /\ Live(b) => b.down = "ack"
           \/ /\ a2.tunnel = a.tunnel
              /\ b.down # "ack",
           a2.written = a.written, a2.pending = a.pending, a2.buf = a.buf,
           a2.sealed = a.sealed
    PROVE  Direction(a2, b, ok)
<1>0. Typed(a) /\ Typed(b)
  BY EndFields
<1>1. InOrder(a2, b)
  BY DEF Direction, InOrder
<1>2. Complete(a, b) => Complete(a2, b)
  BY DEF Complete
<1>3. a.tunnel = <<>> /\ Size(a.tunnel) = 0
  BY NoBytes DEF Own
<1>4. ASSUME Live(b), Chain(a, b) PROVE Chain(a2, b)
  <2>1. PICK bound \in [0 .. 0 -> Nat] :
            Framed(a, b, bound) /\ Sending(a, b, bound[0])
    BY <1>3, <1>4, Zenon DEF Chain
  <2>2. /\ bound[0] \in Nat /\ a.written \in Nat /\ b.opened \in Nat
        /\ a.sealed \in Nat
    BY <1>0, <2>1 DEF Typed
  <2>3. Acks(a) = 0
    BY <1>3 DEF Acks, AckFirst
  <2>4. a.sealed = b.opened
    BY <1>3, <2>1, <2>2, <2>3 DEF Sending
  <2>5. CASE a2.tunnel = <<Signal("ServerAck")>> /\ b.down = "ack"
    <3>1. /\ Size(a2.tunnel) = 1 /\ a2.tunnel # <<>>
          /\ a2.tunnel[1].type = "ServerAck"
      <4>1. \A x : Len(<<x>>) = 1 /\ <<x>> # <<>> /\ <<x>>[1] = x
        OBVIOUS
      <4> QED BY <2>5, <4>1, Signals, Zenon DEF Size
    <3>2. AckFirst(a2) /\ Acks(a2) = 1
      BY <3>1 DEF AckFirst, Acks
    <3>3. PICK b2 \in [0 .. 1 -> Nat] : b2[0] = bound[0] /\ b2[1] = bound[0]
      <4> DEFINE longer == [j \in 0 .. 1 |-> bound[0]]
      <4>1. longer \in [0 .. 1 -> Nat] /\ longer[0] = bound[0]
            /\ longer[1] = bound[0]
        BY <2>2
      <4> QED BY <4>1, Zenon
    <3>4. bound[0] = Rcvd(b) /\ bound[0] <= a.written
      BY <1>3, <2>1 DEF Framed
    <3>5. ASSUME NEW j, j = 1 PROVE Fits(a2, b, b2, j)
      <4>1. j - 1 = 0
        BY <3>5
      <4> QED BY <2>5, <3>1, <3>3, <3>5, <4>1 DEF Fits
    <3>6. Framed(a2, b, b2)
      <4>1. \A j \in 0 .. 1 : b2[j] <= a2.written
        BY <3>3, <3>4
      <4>2. \A j \in 1 .. 1 : Fits(a2, b, b2, j)
        BY <3>5
      <4> QED BY <3>1, <3>3, <3>4, <4>1, <4>2 DEF Framed
    <3>7. Sending(a2, b, b2[1])
      <4>1. a2.sealed = b.opened + 1 - 1 + 0
        BY <2>2, <2>4
      <4> QED BY <2>1, <3>1, <3>2, <3>3, <4>1 DEF Sending
    <3>8. AckComesFirst(a2, b)
      BY <3>1, <3>2 DEF AckComesFirst
    <3> QED BY <3>1, <3>3, <3>6, <3>7, <3>8 DEF Chain
  <2>6. CASE a2.tunnel = a.tunnel /\ b.down # "ack"
    <3>1. Acks(a2) = 0
      BY <1>3, <2>6 DEF Acks, AckFirst
    <3>2. Framed(a2, b, bound)
      BY <1>3, <2>1, <2>6 DEF Framed
    <3>3. Sending(a2, b, bound[0])
      BY <2>1, <2>3, <2>6, <3>1 DEF Sending
    <3>4. AckComesFirst(a2, b)
      BY <2>6 DEF AckComesFirst
    <3> QED BY <1>3, <2>1, <2>6, <3>2, <3>3, <3>4, Zenon DEF Chain
  <2> QED BY <1>4, <2>5, <2>6
<1> QED BY <1>1, <1>2, <1>4 DEF Direction

-----------------------------------------------------------------------------
(* The receiver.                                                           *)

\* What has come out is counted, wherever it is now; between two states in
\* which down waits for no ack, nothing depends on which it is.
LEMMA ChainKept ==
    ASSUME NEW a, NEW b, NEW b2, Chain(a, b),
           Rcvd(b2) = Rcvd(b), b2.opened = b.opened,
           b2.down = b.down \/ "ack" \notin {b.down, b2.down}
    PROVE  Chain(a, b2)
<1>1. PICK bound \in [0 .. Size(a.tunnel) -> Nat] :
          /\ Framed(a, b, bound)
          /\ a.up # "aborted" => Sending(a, b, bound[Size(a.tunnel)])
  BY Zenon DEF Chain
<1>2. Framed(a, b2, bound)
  <2>1. \A j \in 1 .. Size(a.tunnel) : Fits(a, b2, bound, j)
    BY <1>1 DEF Framed, Fits
  <2> QED BY <1>1, <2>1 DEF Framed
<1>3. Sending(a, b, bound[Size(a.tunnel)])
        => Sending(a, b2, bound[Size(a.tunnel)])
  BY DEF Sending
<1>4. AckComesFirst(a, b2)
  BY DEF Chain, AckComesFirst
<1> QED BY <1>1, <1>2, <1>3, <1>4, Zenon DEF Chain

\* The program reads what is in its socket.
LEMMA ProgramReads ==
    ASSUME NEW a \in End, NEW b \in End, NEW b2 \in End, NEW ok,
           Direction(a, b, ok),
           Joins(b.got, b.out, b2.got), b2.out = <<>>,
           b2.down = b.down, b2.opened = b.opened, b2.pt = b.pt
    PROVE  Direction(a, b2, ok)
<1>0. Typed(b)
  BY EndFields
<1>1. /\ b.got \in Seq(Byte) /\ b.out \in Seq(Byte) /\ Size(b.got) \in Nat
      /\ Size(b.out) \in Nat /\ Size(b.pt) \in Nat
  BY <1>0 DEF Typed
<1>2. /\ Consec(b.got, 0) /\ Consec(b.out, Size(b.got))
      /\ Consec(b.pt, Size(b.got) + Size(b.out))
      /\ Rcvd(b) <= a.written
  BY DEF Direction, InOrder
<1>3. Size(b2.got) = Size(b.got) + Size(b.out) /\ Consec(b2.got, 0)
  <2>1. Consec(b.out, 0 + Size(b.got))
    BY <1>1, <1>2
  <2> QED BY <1>1, <1>2, <2>1, ConsecJoin
<1>4. Size(b2.out) = 0 /\ Consec(b2.out, Size(b2.got))
  BY NoBytes
<1>5. Size(b2.got) + Size(b2.out) = Size(b.got) + Size(b.out)
  BY <1>1, <1>3, <1>4
<1>6. Rcvd(b2) = Rcvd(b)
  BY <1>5 DEF Rcvd
<1>7. InOrder(a, b2)
  BY <1>2, <1>3, <1>4, <1>5, <1>6 DEF InOrder
<1>8. (Complete(a, b) => Complete(a, b2)) /\ (Live(b2) => Live(b))
  BY <1>6 DEF Complete, Live
<1>9. Chain(a, b) => Chain(a, b2)
  BY <1>6, ChainKept
<1> QED BY <1>7, <1>8, <1>9 DEF Direction

\* down goes on, before or while it takes frames, or from shutdown to done.
LEMMA ReceiverMoves ==
    ASSUME NEW a \in End, NEW b \in End, NEW b2 \in End, NEW ok,
           Direction(a, b, ok), "ack" \notin {b.down, b2.down},
           \/ Live(b) /\ Live(b2)
           \/ b.down = "shutdown" /\ b2.down = "done",
           b2.opened = b.opened, b2.pt = b.pt, b2.out = b.out, b2.got = b.got
    PROVE  Direction(a, b2, ok)
<1>1. Rcvd(b2) = Rcvd(b)
  BY DEF Rcvd
<1>2. InOrder(a, b2)
  BY <1>1 DEF Direction, InOrder
<1>3. Complete(a, b) => Complete(a, b2)
  BY <1>1 DEF Complete, Live, Unstarted
<1>4. Live(b2) => Live(b)
  BY DEF Live, Unstarted
<1>5. Chain(a, b) => Chain(a, b2)
  BY <1>1, ChainKept
<1> QED BY <1>2, <1>3, <1>4, <1>5 DEF Direction

Grows(b, b2, n) == Size(b2.out) = Size(b.out) + n

\* pw.write_all: n bytes of pt go to the plain socket.
LEMMA ReceiverFlushes ==
    ASSUME NEW a \in End, NEW b \in End, NEW b2 \in End, NEW ok,
           Direction(a, b, ok), "ack" \notin {b.down, b2.down},
           Live(b), Live(b2),
           NEW n \in 1 .. Size(b.pt), NEW x,
           Splits(b.pt, n, x, b2.pt), Joins(b.out, x, b2.out),
           b2.opened = b.opened, b2.got = b.got
    PROVE  Direction(a, b2, ok) /\ Grows(b, b2, n)
<1>0. Typed(b)
  BY EndFields
<1>1. /\ b.pt \in Seq(Byte) /\ b.out \in Seq(Byte) /\ Size(b.got) \in Nat
      /\ Size(b.out) \in Nat /\ Size(b.pt) \in Nat
  BY <1>0 DEF Typed
<1>2. /\ Consec(b.got, 0) /\ Consec(b.out, Size(b.got))
      /\ Consec(b.pt, Size(b.got) + Size(b.out))
      /\ Rcvd(b) <= a.written
  BY DEF Direction, InOrder
<1>3. PICK lo \in Nat : lo = Size(b.got) + Size(b.out)
  BY <1>1
<1>4. n \in 0 .. Size(b.pt) /\ n \in Nat
  BY <1>1
<1>5. /\ x \in Seq(Byte) /\ Size(x) = n /\ Consec(x, lo)
      /\ Size(b2.pt) = Size(b.pt) - n /\ Consec(b2.pt, lo + n)
  BY <1>1, <1>2, <1>3, <1>4, ConsecSplit
<1>6. Size(b2.out) = Size(b.out) + n /\ Consec(b2.out, Size(b.got))
  BY <1>1, <1>2, <1>3, <1>5, ConsecJoin
<1>7. lo + n = Size(b2.got) + Size(b2.out)
  BY <1>1, <1>3, <1>4, <1>6
<1>8. Rcvd(b2) = Rcvd(b)
  BY <1>1, <1>4, <1>5, <1>6 DEF Rcvd
<1>9. InOrder(a, b2)
  BY <1>2, <1>5, <1>6, <1>7, <1>8 DEF InOrder
<1>10. Complete(a, b) => Complete(a, b2)
  BY DEF Complete, Live, Unstarted
<1>11. Chain(a, b) => Chain(a, b2)
  BY <1>8, ChainKept
<1> QED BY <1>6, <1>9, <1>10, <1>11 DEF Direction, Grows

\* The tunnel after its first frame has been taken.
Taken(a, a2, b2, last) ==
    /\ Size(a.tunnel) = Size(a2.tunnel) + 1
    /\ ~AckFirst(a2) /\ Acks(a2) = 0
    /\ \A i \in 1 .. Size(a2.tunnel) : a2.tunnel[i] = a.tunnel[i + 1]
    /\ \E bound : /\ Bounds(a2, bound) /\ Framed(a2, b2, bound)
                  /\ bound[Size(a2.tunnel)] = last

\* read_frame takes the first frame, an ack or a record.
LEMMA FrameTaken ==
    ASSUME NEW a \in End, NEW b \in End, NEW a2 \in End, NEW b2 \in End,
           NEW bound, Bounds(a, bound), Framed(a, b, bound),
           Drops(a.tunnel, a2.tunnel),
           a2.up = a.up, a2.written = a.written,
           b2.down # "ack", Rcvd(b2) = bound[1],
           b2.opened = b.opened + 1 - Acks(a)
    PROVE  Taken(a, a2, b2, bound[Size(a.tunnel)])
<1> DEFINE L == Size(a2.tunnel)
<1>0. Typed(a) /\ Typed(a2) /\ Typed(b)
  BY EndFields
<1>1. L \in Nat /\ b.opened \in Nat /\ a.tunnel \in Seq(FrameSet)
      /\ a2.tunnel \in Seq(FrameSet)
  BY <1>0 DEF Typed
<1>2. /\ Size(a.tunnel) = L + 1
      /\ \A i \in 1 .. L : a2.tunnel[i] = a.tunnel[i + 1]
  BY <1>1, Dropped
<1>3. L = 0 <=> a2.tunnel = <<>>
  BY <1>1, SizeEmpty
<1> HIDE DEF L
<1>4. /\ bound \in [0 .. L + 1 -> Nat]
      /\ \A j \in 0 .. L + 1 : bound[j] <= a.written
      /\ \A j \in 1 .. L + 1 : Fits(a, b, bound, j)
  BY <1>2 DEF Bounds, Framed
<1>5. ~AckFirst(a2) /\ Acks(a2) = 0
  <2>1. CASE L = 0
    BY <1>3, <2>1 DEF AckFirst, Acks
  <2>2. CASE L # 0
    <3>1. 1 \in 1 .. L /\ 2 \in 1 .. L + 1
      BY <1>1, <2>2
    <3>2. a2.tunnel[1] = a.tunnel[2]
      BY <1>2, <3>1
    <3>3. ASSUME NEW j \in 1 .. L + 1, j = 2
          PROVE  a.tunnel[j].type # "ServerAck"
      BY <1>4, <3>3 DEF Fits
    <3> QED BY <3>1, <3>2, <3>3 DEF AckFirst, Acks
  <2> QED BY <2>1, <2>2
<1>6. PICK b3 \in [0 .. L -> Nat] : \A j \in 0 .. L : b3[j] = bound[j + 1]
  <2> DEFINE shorter == [j \in 0 .. L |-> bound[j + 1]]
  <2>1. shorter \in [0 .. L -> Nat] /\ \A j \in 0 .. L : shorter[j] = bound[j + 1]
    BY <1>1, <1>4
  <2> QED BY <2>1, Zenon
<1>7. ASSUME NEW j \in 1 .. L PROVE Fits(a2, b2, b3, j)
  <2>1. PICK k \in 1 .. L + 1 : k = j + 1
    BY <1>1
  <2>2. j \in 0 .. L /\ j - 1 \in 0 .. L /\ k - 1 = j /\ j - 1 + 1 = j /\ k # 1
    BY <1>1, <2>1
  <2>3. b3[j] = bound[k] /\ b3[j - 1] = bound[k - 1]
    BY <1>6, <2>1, <2>2
  <2>4. a2.tunnel[j] = a.tunnel[k]
    BY <1>2, <2>1
  <2>5. Fits(a, b, bound, k)
    BY <1>4
  <2>6. b.opened + k - 1 - Acks(a) = b2.opened + j - 1 - Acks(a2)
    BY <1>1, <1>5, <2>1 DEF Acks
  <2>7. k = Size(a.tunnel) => j = Size(a2.tunnel)
    BY <1>1, <1>2, <2>1 DEF L
  <2> QED BY <2>2, <2>3, <2>4, <2>5, <2>6, <2>7 DEF Fits
<1>8. Framed(a2, b2, b3)
  <2>1. 0 \in 0 .. L /\ 0 + 1 = 1
    BY <1>1
  <2>2. b3[0] = Rcvd(b2)
    BY <1>6, <2>1
  <2>3. \A j \in 0 .. L : j + 1 \in 0 .. L + 1
    BY <1>1
  <2>4. \A j \in 0 .. L : b3[j] <= a2.written
    BY <1>4, <1>6, <2>3
  <2> QED BY <1>7, <2>2, <2>4 DEF Framed, L
<1>9. Bounds(a2, b3)
  BY <1>6 DEF Bounds, L
<1>10. b3[L] = bound[L + 1]
  <2>1. L \in 0 .. L
    BY <1>1
  <2> QED BY <1>6, <2>1
<1>11. \E b4 : /\ Bounds(a2, b4) /\ Framed(a2, b2, b4)
               /\ b4[L] = bound[L + 1]
  BY <1>8, <1>9, <1>10, Zenon
<1> QED BY <1>2, <1>5, <1>11 DEF Taken, L

\* The frame at the head of the tunnel is the one down waits for: the ack, the
\* record its pool has reached, or a Close.
LEMMA HeadFits ==
    ASSUME NEW a \in End, NEW b \in End, NEW ok,
           Direction(a, b, ok), b.down \in {"ack", "read"}, a.tunnel # <<>>
    PROVE  /\ b.down = "ack" => a.tunnel[1].type = "ServerAck"
           /\ b.down = "read" =>
                 \/ /\ a.tunnel[1].type = "DataRecord"
                    /\ a.tunnel[1].seq = b.opened
                 \/ a.tunnel[1].type = "Close"
<1>0. Typed(a) /\ Typed(b)
  BY EndFields
<1>1. Chain(a, b)
  BY DEF Direction, Live, Unstarted
<1>2. b.down = "ack" => a.tunnel[1].type = "ServerAck"
  BY <1>1 DEF Chain, AckComesFirst, AckFirst
<1>3. ASSUME b.down = "read"
      PROVE  \/ /\ a.tunnel[1].type = "DataRecord"
                /\ a.tunnel[1].seq = b.opened
             \/ a.tunnel[1].type = "Close"
  <2>1. PICK bound : Framed(a, b, bound)
    BY <1>1 DEF Chain
  <2>2. Size(a.tunnel) \in Nat /\ Size(a.tunnel) # 0 /\ b.opened \in Nat
    BY <1>0, SizeEmpty, Zenon DEF Typed
  <2>3. ASSUME NEW j, j = 1 PROVE Fits(a, b, bound, j)
    BY <2>1, <2>2, <2>3 DEF Framed
  <2>4. ASSUME NEW j, j = 1
        PROVE  \/ /\ a.tunnel[1].type = "DataRecord"
                  /\ a.tunnel[1].seq = b.opened + j - 1 - Acks(a)
               \/ a.tunnel[1].type = "Close"
    BY <1>3, <2>3, <2>4 DEF Fits
  <2>5. a.tunnel[1].type = "DataRecord" => Acks(a) = 0
    BY DEF Acks, AckFirst
  <2> QED BY <2>2, <2>4, <2>5
<1> QED BY <1>2, <1>3

\* What the first frame adds to the bytes received.
FirstFrame(a, b, b2) ==
    \/ /\ a.tunnel[1].type = "ServerAck"
       /\ Rcvd(b2) = Rcvd(b) /\ b2.opened = b.opened
    \/ /\ a.tunnel[1].type = "DataRecord"
       /\ Rcvd(b2) = Rcvd(b) + Size(a.tunnel[1].data)
       /\ b2.opened = b.opened + 1

\* down has taken an ack or a record: what is left in the tunnel fits on.
LEMMA ChainTaken ==
    ASSUME NEW a \in End, NEW b \in End, NEW a2 \in End, NEW b2 \in End,
           Chain(a, b), Drops(a.tunnel, a2.tunnel), FirstFrame(a, b, b2),
           a2.up = a.up, a2.written = a.written, a2.pending = a.pending,
           a2.buf = a.buf, a2.sealed = a.sealed,
           b2.down # "ack"
    PROVE  Chain(a2, b2) /\ Rcvd(b2) <= a2.written
<1>0. Typed(a) /\ Typed(a2) /\ Typed(b)
  BY EndFields
<1>1. /\ a.tunnel \in Seq(FrameSet) /\ Size(a2.tunnel) \in Nat
      /\ b.opened \in Nat /\ a.sealed \in Nat
  BY <1>0 DEF Typed
<1>2. Size(a.tunnel) = Size(a2.tunnel) + 1 /\ a.tunnel # <<>>
  BY <1>1, Dropped, ZenonT(40) DEF Drops
<1>3. PICK bound : /\ Bounds(a, bound) /\ Framed(a, b, bound)
                   /\ a.up # "aborted" => Sending(a, b, bound[Size(a.tunnel)])
  BY Zenon DEF Chain, Bounds
<1>4. bound[0] = Rcvd(b) /\ bound[1] <= a.written
  BY <1>1, <1>2, <1>3 DEF Framed
<1>5. b2.opened = b.opened + 1 - Acks(a)
  BY <1>1, <1>2 DEF FirstFrame, Acks, AckFirst
<1>6. Rcvd(b2) = bound[1]
  <2>1. ASSUME NEW j, j = 1 PROVE Fits(a, b, bound, j)
    BY <1>1, <1>2, <1>3, <2>1 DEF Framed
  <2>2. ASSUME NEW j, j = 1, j - 1 = 0 PROVE Rcvd(b2) = bound[j]
    BY <1>4, <2>1, <2>2 DEF Fits, FirstFrame
  <2> QED BY <2>2
<1>7. Taken(a, a2, b2, bound[Size(a.tunnel)])
  BY <1>3, <1>5, <1>6, FrameTaken, Zenon
<1>8. PICK b3 : /\ Bounds(a2, b3) /\ Framed(a2, b2, b3)
                /\ b3[Size(a2.tunnel)] = bound[Size(a.tunnel)]
  BY <1>7 DEF Taken
<1>9. ASSUME a2.up # "aborted" PROVE Sending(a2, b2, b3[Size(a2.tunnel)])
  <2>1. Sending(a, b, bound[Size(a.tunnel)])
    BY <1>3, <1>9, SMTT(20)
  <2>2. CASE a.up \in {"shutdown", "done"}
    <3>1. a.tunnel[Size(a.tunnel)].type = "Close"
      BY <2>1, <2>2 DEF Sending
    <3>2. Size(a2.tunnel) # 0
      BY <1>2, <3>1 DEF FirstFrame
    <3>3. a2.tunnel # <<>>
      BY <3>2, NoBytes
    <3>4. a2.tunnel[Size(a2.tunnel)] = a.tunnel[Size(a.tunnel)]
      <4>1. Size(a2.tunnel) \in 1 .. Size(a2.tunnel)
        BY <1>1, <3>2
      <4> QED BY <1>2, <1>7, <4>1 DEF Taken
    <3> QED BY <1>8, <2>1, <2>2, <3>1, <3>3, <3>4 DEF Sending
  <2>3. CASE a.up \notin {"shutdown", "done"}
    <3> DEFINE w == IF a.up = "write" THEN 1 ELSE 0
    <3>1. a.sealed = b.opened + Size(a.tunnel) - Acks(a) + w
      BY <2>1, <2>3 DEF Sending
    <3>2. w \in Nat /\ Acks(a) \in Nat /\ Acks(a2) = 0
      BY <1>7 DEF Acks, Taken
    <3>3. a2.sealed = b2.opened + Size(a2.tunnel) - Acks(a2) + w
      <4>1. \A o, L, k, x \in Nat :
               o + (L + 1) - k + x = (o + 1 - k) + L - 0 + x
        OBVIOUS
      <4> HIDE DEF w
      <4>2. a.sealed = b.opened + (Size(a2.tunnel) + 1) - Acks(a) + w
        BY <1>2, <3>1
      <4>3. a.sealed = (b.opened + 1 - Acks(a)) + Size(a2.tunnel) - 0 + w
        BY <1>1, <3>2, <4>1, <4>2
      <4> QED BY <1>5, <3>2, <4>3
    <3> QED BY <1>8, <2>1, <2>3, <3>3 DEF Sending
  <2> QED BY <2>2, <2>3
<1>10. AckComesFirst(a2, b2)
  BY DEF AckComesFirst
<1> QED BY <1>4, <1>6, <1>8, <1>9, <1>10, Zenon DEF Chain, Bounds

SameSender(a, a2) ==
    /\ a2.up = a.up /\ a2.written = a.written /\ a2.pending = a.pending
    /\ a2.buf = a.buf /\ a2.sealed = a.sealed

\* The ack is taken.
LEMMA TakesAck ==
    ASSUME NEW a \in End, NEW b \in End, NEW a2 \in End, NEW b2 \in End, NEW ok,
           Direction(a, b, ok), SameSender(a, a2),
           Drops(a.tunnel, a2.tunnel), a.tunnel[1].type = "ServerAck",
           b.down = "ack", b2.down = "read", b2.opened = b.opened,
           b2.pt = b.pt, b2.out = b.out, b2.got = b.got
    PROVE  Direction(a2, b2, ok)
<1>1. Rcvd(b2) = Rcvd(b)
  BY DEF Rcvd
<1>2. Chain(a, b) /\ InOrder(a, b)
  BY DEF Direction, Live
<1>3. FirstFrame(a, b, b2)
  BY <1>1 DEF FirstFrame
<1>4. Chain(a2, b2)
  BY <1>2, <1>3, ChainTaken DEF SameSender
<1>5. InOrder(a2, b2)
  BY <1>1, <1>2 DEF InOrder, SameSender
<1>6. Complete(a, b) => Complete(a2, b2)
  BY DEF Complete, SameSender
<1> QED BY <1>4, <1>5, <1>6 DEF Direction

\* The next record is opened: its bytes are the next ones of the stream.
LEMMA TakesRecord ==
    ASSUME NEW a \in End, NEW b \in End, NEW a2 \in End, NEW b2 \in End, NEW ok,
           Direction(a, b, ok), SameSender(a, a2),
           Drops(a.tunnel, a2.tunnel), a.tunnel[1].type = "DataRecord",
           b.down = "read", b2.down = "write", b2.opened = b.opened + 1,
           b.pt = <<>>, b2.pt = a.tunnel[1].data,
           b2.out = b.out, b2.got = b.got
    PROVE  Direction(a2, b2, ok)
<1>0. Typed(a) /\ Typed(b)
  BY EndFields
<1>1. Chain(a, b) /\ InOrder(a, b)
  BY DEF Direction, Live
<1>2. Size(b.pt) = 0 /\ Size(b.got) \in Nat /\ Size(b.out) \in Nat
  BY <1>0, NoBytes DEF Typed
<1>3. Rcvd(b) = Size(b.got) + Size(b.out)
  BY <1>2 DEF Rcvd
<1>4. Rcvd(b2) = Rcvd(b) + Size(a.tunnel[1].data)
  BY <1>3 DEF Rcvd
<1>5. FirstFrame(a, b, b2)
  BY <1>4 DEF FirstFrame
<1>6. Chain(a2, b2) /\ Rcvd(b2) <= a2.written
  BY <1>1, <1>5, ChainTaken DEF SameSender
<1>7. Consec(b2.pt, Rcvd(b))
  <2>1. PICK bound : Framed(a, b, bound)
    BY <1>1 DEF Chain
  <2>2. Size(a.tunnel) \in Nat /\ Size(a.tunnel) # 0
    BY <1>0, SizeEmpty, Zenon DEF Typed, Drops
  <2>3. ASSUME NEW j, j = 1 PROVE Fits(a, b, bound, j)
    BY <2>1, <2>2, <2>3 DEF Framed
  <2>4. ASSUME NEW j, j = 1, j - 1 = 0 PROVE Consec(a.tunnel[1].data, bound[0])
    BY <2>3, <2>4 DEF Fits
  <2> QED BY <2>1, <2>4 DEF Framed
<1>8. InOrder(a2, b2)
  BY <1>1, <1>3, <1>6, <1>7 DEF InOrder
<1>9. Complete(a, b) => Complete(a2, b2)
  BY DEF Complete, SameSender
<1> QED BY <1>6, <1>8, <1>9 DEF Direction

\* The Close is taken: it was the last frame, behind all that was written.
LEMMA TakesClose ==
    ASSUME NEW a \in End, NEW b \in End, NEW a2 \in End, NEW b2 \in End, NEW ok,
           Direction(a, b, ok), SameSender(a, a2),
           Drops(a.tunnel, a2.tunnel), a.tunnel[1].type = "Close",
           b.down = "read", b2.down = "shutdown",
           b2.pt = b.pt, b2.out = b.out, b2.got = b.got
    PROVE  Direction(a2, b2, ok)
<1>0. Typed(a)
  BY EndFields
<1>1. Chain(a, b) /\ InOrder(a, b)
  BY DEF Direction, Live
<1>2. Rcvd(b2) = Rcvd(b)
  BY DEF Rcvd
<1>3. Rcvd(b) = a.written /\ a.up \in {"shutdown", "done", "aborted"}
  <2>1. PICK bound : Framed(a, b, bound)
    BY <1>1 DEF Chain
  <2>2. Size(a.tunnel) \in Nat /\ Size(a.tunnel) # 0
    BY <1>0, SizeEmpty DEF Typed, Drops
  <2>3. ASSUME NEW j, j = 1 PROVE Fits(a, b, bound, j)
    BY <2>1, <2>2, <2>3 DEF Framed
  <2>4. ASSUME NEW j, j = 1, j - 1 = 0
        PROVE  bound[0] = a.written /\ a.up \in {"shutdown", "done", "aborted"}
    BY <2>3, <2>4 DEF Fits
  <2> QED BY <2>1, <2>4 DEF Framed
<1>4. InOrder(a2, b2)
  BY <1>1, <1>2 DEF InOrder, SameSender
<1>5. Complete(a, b) => Complete(a2, b2)
  BY <1>2, <1>3 DEF Complete, SameSender
<1>6. ~Live(b2)
  BY DEF Live, Unstarted
<1> QED BY <1>4, <1>5, <1>6 DEF Direction

\* The stream ends without a Close: only a failure of the sender does that.
LEMMA ReceiverEnds ==
    ASSUME NEW a \in End, NEW b \in End, NEW b2 \in End, NEW ok \in BOOLEAN,
           Direction(a, b, ok), Own(a), a.tunnel = <<>>, a.finTunnel,
           b.down \in {"ack", "read"}, b2.down \in {"shutdown", "done"},
           b2.pt = b.pt, b2.out = b.out, b2.got = b.got
    PROVE  ~ok /\ Direction(a, b2, ok)
<1>1. Chain(a, b) /\ InOrder(a, b)
  BY DEF Direction, Live
<1>2. a.up = "aborted"
  <2>1. a.up \in {"done", "aborted"}
    BY DEF Own
  <2>2. a.up # "done"
    BY <1>1 DEF Chain, Sending
  <2> QED BY <2>1, <2>2
<1>3. ~ok
  BY <1>2 DEF Direction, Complete
<1>4. InOrder(a, b2)
  BY <1>1 DEF InOrder, Rcvd
<1>5. ~Live(b2)
  BY DEF Live, Unstarted
<1> QED BY <1>3, <1>4, <1>5 DEF Direction

\* A failure drops down with what it holds.
LEMMA ReceiverAborts ==
    ASSUME NEW a \in End, NEW b \in End, NEW b2 \in End, NEW ok,
           Direction(a, b, ok), b2.down = "aborted", b2.pt = <<>>,
           b2.out = b.out, b2.got = b.got
    PROVE  Direction(a, b2, FALSE)
<1>0. Typed(a) /\ Typed(b)
  BY EndFields
<1>1. InOrder(a, b)
  BY DEF Direction
<1>2. /\ Size(b.pt) \in Nat /\ Size(b.got) \in Nat /\ Size(b.out) \in Nat
      /\ Rcvd(b) <= a.written /\ a.written \in Nat
  BY <1>0, <1>1, Zenon DEF Typed, InOrder
<1>3. Size(b2.pt) = 0 /\ Consec(b2.pt, Size(b2.got) + Size(b2.out))
  BY NoBytes
<1>4. Rcvd(b2) <= a.written
  BY <1>2, <1>3 DEF Rcvd
<1>5. InOrder(a, b2)
  BY <1>1, <1>3, <1>4 DEF InOrder
<1>6. ~Live(b2)
  BY DEF Live, Unstarted
<1> QED BY <1>5, <1>6 DEF Direction

=============================================================================
