---------------------------- MODULE ForwardProofs ---------------------------
(***************************************************************************)
(* The tunnel as a whole: every action of Forward preserves the invariant  *)
(* of its two directions (ForwardDirection), the end of a stream comes     *)
(* after all of its bytes, and the tunnel implements Pipe.                 *)
(***************************************************************************)
EXTENDS ForwardDirection

-----------------------------------------------------------------------------
(* The two directions together: an action is a step of up in one direction, *)
(* of down in the other one, or both.                                      *)

LEMMA Peers ==
    ASSUME NEW s \in Side
    PROVE  /\ Peer(s) \in Side /\ Peer(s) # s /\ Peer(Peer(s)) = s
           /\ \A t \in Side : t = s \/ t = Peer(s)
<1>1. ASSUME NEW x, NEW y, x # y, Side = {x, y}
      PROVE  Peer(x) = y
  <2>1. \E q \in Side : q # x
    BY <1>1
  <2>2. Peer(x) \in Side /\ Peer(x) # x
    BY <2>1 DEF Peer
  <2> QED BY <1>1, <2>2
<1>2. Peer("client") = "server" /\ Peer("server") = "client"
  BY <1>1 DEF Side
<1> QED BY <1>2 DEF Side

\* What TunnelInv says of side s and its peer.
Ends(s, e, p, ok) ==
    /\ st \in [Side -> End] /\ e \in End /\ p \in End
    /\ e = st[s] /\ p = st[Peer(s)]
    /\ Own(e) /\ e.written <= MaxBytes(s)
    /\ Own(p) /\ p.written <= MaxBytes(Peer(s))
    /\ ok \in BOOLEAN /\ (ok <=> failures = 0)
    /\ Direction(e, p, ok) /\ Direction(p, e, ok)

LEMMA EndsOf ==
    ASSUME TunnelInv, NEW s \in Side
    PROVE  \E e, p, ok : Ends(s, e, p, ok)
<1>1. st \in [Side -> End]
  BY DEF TunnelInv, TypeOK, End
<1>2. PICK e \in End, p \in End : e = st[s] /\ p = st[Peer(s)]
  BY <1>1, Peers
<1>3. PICK ok \in BOOLEAN : ok <=> failures = 0
  BY Zenon
<1>4. /\ Own(e) /\ e.written <= MaxBytes(s)
      /\ Own(p) /\ p.written <= MaxBytes(Peer(s))
  BY <1>2, Peers DEF TunnelInv
<1>5. Direction(p, e, failures = 0) /\ Direction(e, p, failures = 0)
  BY <1>2, Peers DEF TunnelInv
<1>6. Direction(p, e, ok) /\ Direction(e, p, ok)
  BY <1>3, <1>5 DEF Direction
<1> QED BY <1>1, <1>2, <1>3, <1>4, <1>6 DEF Ends

\* e becomes e2 while its peer, which becomes p2, has or has not accepted.
HandshakeKept(e, e2, p2) ==
    /\ e2.down = "ack" => e.down = "ack"
    /\ e2.up = "accept" => e.up = "accept"
    /\ e.down \in {"ack", "aborted"} /\ p2.up = "accept" =>
          e2.down \in {"ack", "aborted"}

LEMMA PeerStays ==
    ASSUME NEW f \in [Side -> End], NEW s \in Side, NEW e \in End,
           NEW g, g = [f EXCEPT ![s] = e]
    PROVE  g \in [Side -> End] /\ g[s] = e /\ g[Peer(s)] = f[Peer(s)]
BY Peers

\* What an action has to be shown to keep.
LEMMA TunnelKept ==
    ASSUME TunnelInv, NEW s \in Side, NEW e2 \in End, NEW p2 \in End,
           NEW ok \in BOOLEAN, ok <=> failures' = 0,
           zero_rtt' = zero_rtt, failures' \in 0 .. MaxFailures,
           st' \in [Side -> End], st'[s] = e2, st'[Peer(s)] = p2,
           Own(e2), e2.written <= MaxBytes(s),
           Own(p2), p2.written <= MaxBytes(Peer(s)),
           Direction(e2, p2, ok), Direction(p2, e2, ok),
           HandshakeKept(st[s], e2, p2), HandshakeKept(st[Peer(s)], p2, e2)
    PROVE  TunnelInv'
<1>1. st' \in [Side -> End] /\ st'[s] = e2 /\ st'[Peer(s)] = p2
  OBVIOUS
<1>2. TypeOK'
  <2>1. \A t \in Side :
          {st'[t].up, st'[t].down} \cap Unstarted # {} => st'[t].up = st'[t].down
    BY <1>1, Peers DEF Own
  <2> QED BY <1>1, <2>1, Zenon DEF TunnelInv, TypeOK, End
<1>3. \A t \in Side : Own(st'[t]) /\ st'[t].written <= MaxBytes(t)
  BY <1>1, Peers
<1>4. \A t \in Side : Direction(st'[Peer(t)], st'[t], failures' = 0)
  <2>1. ASSUME NEW a, NEW b, Direction(a, b, ok)
        PROVE  Direction(a, b, failures' = 0)
    BY <2>1 DEF Direction
  <2> QED BY <1>1, <2>1, Peers
<1>5. AckExpected'
  <2>1. \A t \in Side : st'[t].down = "ack" => zero_rtt'
    <3>1. \A t \in Side : st'[t].down = "ack" => st[t].down = "ack"
      BY <1>1, Peers DEF HandshakeKept
    <3> QED BY <3>1 DEF TunnelInv, AckExpected
  <2>2. \A t \in Side : HandshakeKept(st[t], st'[t], st'[Peer(t)])
    BY <1>1, Peers
  <2>3. Peer("client") = "server" /\ "client" \in Side /\ "server" \in Side
    BY Peers DEF Side
  <2>4. zero_rtt' /\ st'["server"].up = "accept" =>
            st'["client"].down \in {"ack", "aborted"}
    BY <2>2, <2>3 DEF HandshakeKept, TunnelInv, AckExpected
  <2> QED BY <2>1, <2>4 DEF AckExpected
<1> QED BY <1>2, <1>3, <1>4, <1>5 DEF TunnelInv

\* An action that changes one side, and adds no failure.
LEMMA SideMoves ==
    ASSUME TunnelInv, NEW s \in Side, NEW e, NEW p, NEW ok, Ends(s, e, p, ok),
           NEW e2 \in End, st' = [st EXCEPT ![s] = e2],
           UNCHANGED <<zero_rtt, failures>>,
           Own(e2), e2.written <= MaxBytes(s),
           Direction(e2, p, ok), Direction(p, e2, ok),
           HandshakeKept(e, e2, p)
    PROVE  TunnelInv'
<1>1. /\ st \in [Side -> End] /\ e \in End /\ p \in End
      /\ e = st[s] /\ p = st[Peer(s)]
      /\ Own(p) /\ p.written <= MaxBytes(Peer(s))
      /\ ok \in BOOLEAN /\ (ok <=> failures' = 0)
  BY DEF Ends
<1>2. st' \in [Side -> End] /\ st'[s] = e2 /\ st'[Peer(s)] = p
  <2>1. st \in [Side -> End]
    BY <1>1
  <2>2. st' \in [Side -> End] /\ st'[s] = e2 /\ st'[Peer(s)] = st[Peer(s)]
    BY <2>1, Peers
  <2> QED BY <1>1, <2>2
<1>3. HandshakeKept(st[Peer(s)], p, e2)
  BY <1>1 DEF HandshakeKept
<1>4. failures' \in 0 .. MaxFailures /\ zero_rtt' = zero_rtt
  BY DEF TunnelInv, TypeOK
<1> QED BY <1>1, <1>2, <1>3, <1>4, TunnelKept, Zenon

\* An action of up or of the program that writes: down stays as it is.
LEMMA SenderStep ==
    ASSUME TunnelInv, NEW s \in Side, NEW e, NEW p, NEW ok, Ends(s, e, p, ok),
           NEW e2 \in End, st' = [st EXCEPT ![s] = e2],
           UNCHANGED <<zero_rtt, failures>>,
           Receiver(e2) = Receiver(e), e2.up = "accept" => e.up = "accept",
           Own(e2), e2.written <= MaxBytes(s), Direction(e2, p, ok)
    PROVE  TunnelInv'
<1>1. Direction(p, e, ok)
  BY DEF Ends
<1>2. Direction(p, e2, ok)
  BY <1>1, DirectionKept
<1>3. e2.down = e.down
  BY DEF Receiver
<1>4. HandshakeKept(e, e2, p)
  BY <1>3 DEF HandshakeKept
<1> QED BY <1>2, <1>4, SideMoves, Zenon

\* An action of down or of the program that reads: up stays as it is.
LEMMA ReceiverStep ==
    ASSUME TunnelInv, NEW s \in Side, NEW e, NEW p, NEW ok, Ends(s, e, p, ok),
           NEW e2 \in End, st' = [st EXCEPT ![s] = e2],
           UNCHANGED <<zero_rtt, failures>>,
           Sender(e2) = Sender(e), HandshakeKept(e, e2, p),
           Own(e2), Direction(p, e2, ok)
    PROVE  TunnelInv'
<1>1. Direction(e, p, ok) /\ e.written <= MaxBytes(s)
  BY DEF Ends
<1>2. Direction(e2, p, ok)
  BY <1>1, DirectionKept
<1>3. e2.written <= MaxBytes(s)
  BY <1>1 DEF Sender
<1> QED BY <1>2, <1>3, SideMoves, Zenon

LEMMA WriteStep ==
    ASSUME TunnelInv, NEW s \in Side, Write(s)
    PROVE  TunnelInv'
<1>1. PICK e, p, ok : Ends(s, e, p, ok)
  BY EndsOf
<1>2. /\ e \in End /\ p \in End /\ e = st[s] /\ st \in [Side -> End] /\ Own(e)
      /\ Direction(e, p, ok)
  BY <1>1 DEF Ends
<1>3. Typed(e)
  BY <1>2, EndFields
<1>4. PICK m \in Byte : m = e.written + 1 /\ m <= MaxBytes(s)
  <2>1. e.written \in Nat /\ e.written < MaxBytes(s)
    BY <1>2, <1>3, SMTT(20) DEF Write, Typed
  <2>2. MaxBytes(s) \in Nat /\ MaxBytes(s) <= MaxUp + MaxDown
    BY ForwardAssumption DEF MaxBytes
  <2>3. e.written + 1 \in 1 .. MaxUp + MaxDown /\ e.written + 1 <= MaxBytes(s)
    BY <2>1, <2>2, ForwardAssumption
  <2> QED BY <2>3 DEF Byte
<1>5. PICK x : x = Append(e.pending, m) /\ Extends(e.pending, m, x)
  BY Zenon DEF Extends
<1>6. x \in Seq(Byte)
  BY <1>3, <1>5, Appended DEF Typed
<1>7. /\ e.up \notin {"close", "shutdown", "done", "aborted"} /\ ~e.finIn
      /\ st' = [st EXCEPT ![s].written = m, ![s].pending = x]
      /\ UNCHANGED <<zero_rtt, failures>>
  BY <1>2, <1>4, <1>5 DEF Write, Move, Gone, Own
<1>8. PICK e2 \in End : e2 = [e EXCEPT !.written = m, !.pending = x]
  BY <1>2, <1>6, Zenon DEF End
<1>9. st' = [st EXCEPT ![s] = e2]
  BY <1>2, <1>7, <1>8, Zenon
<1>10. /\ e2.written = m /\ e2.pending = x
       /\ Receiver(e2) = Receiver(e) /\ e2.down = e.down /\ e2.pt = e.pt
       /\ e2.up = e.up /\ e2.finIn = e.finIn /\ e2.tunnel = e.tunnel
       /\ e2.buf = e.buf /\ e2.sealed = e.sealed
       /\ e2.finTunnel = e.finTunnel /\ e2.finOut = e.finOut
  BY <1>2, <1>8 DEF End, Receiver
<1>11. /\ Own(e2) /\ e2.written <= MaxBytes(s)
       /\ e2.up = "accept" => e.up = "accept"
  BY <1>2, <1>4, <1>7, <1>10 DEF Own
<1>12. Direction(e2, p, ok)
  BY <1>2, <1>4, <1>5, <1>7, <1>10, ProgramWrites, Zenon
<1> QED BY <1>1, <1>7, <1>9, <1>10, <1>11, <1>12, SenderStep, Zenon

LEMMA CloseWriteStep ==
    ASSUME TunnelInv, NEW s \in Side, CloseWrite(s)
    PROVE  TunnelInv'
<1>1. PICK e, p, ok : Ends(s, e, p, ok)
  BY EndsOf
<1>2. /\ e \in End /\ p \in End /\ e = st[s] /\ st \in [Side -> End] /\ Own(e)
      /\ Direction(e, p, ok) /\ e.written <= MaxBytes(s)
  BY <1>1 DEF Ends
<1>3. /\ st' = [st EXCEPT ![s].finIn = TRUE]
      /\ UNCHANGED <<zero_rtt, failures>>
  BY DEF CloseWrite, Move
<1>4. PICK e2 \in End : e2 = [e EXCEPT !.finIn = TRUE]
  BY <1>2, Zenon DEF End
<1>5. st' = [st EXCEPT ![s] = e2]
  BY <1>2, <1>3, <1>4
<1>6. /\ e2.finIn /\ Receiver(e2) = Receiver(e) /\ Sender(e2) = Sender(e)
      /\ e2.written = e.written /\ e2.up = e.up /\ e2.pending = e.pending
      /\ e2.tunnel = e.tunnel /\ e2.buf = e.buf /\ e2.sealed = e.sealed
      /\ e2.down = e.down /\ e2.pt = e.pt
      /\ e2.finTunnel = e.finTunnel /\ e2.finOut = e.finOut
  BY <1>2, <1>4 DEF End, Receiver, Sender
<1>7. Own(e2)
  BY <1>2, <1>6 DEF Own
<1>8. Direction(e2, p, ok)
  BY <1>2, <1>6, DirectionKept
<1> QED BY <1>1, <1>2, <1>3, <1>5, <1>6, <1>7, <1>8, SenderStep, Zenon

LEMMA ReadStep ==
    ASSUME TunnelInv, NEW s \in Side, Read(s)
    PROVE  TunnelInv'
<1>1. PICK e, p, ok : Ends(s, e, p, ok)
  BY EndsOf
<1>2. /\ e \in End /\ p \in End /\ e = st[s] /\ st \in [Side -> End] /\ Own(e)
      /\ Direction(p, e, ok)
  BY <1>1 DEF Ends
<1>3. PICK x : x = e.got \o e.out /\ Joins(e.got, e.out, x)
  BY Zenon DEF Joins
<1>4. x \in Seq(Byte) /\ <<>> \in Seq(Byte)
  <2>1. e.got \in Seq(Byte) /\ e.out \in Seq(Byte)
    BY <1>2 DEF End
  <2> QED BY <1>3, <2>1
<1>5. /\ st' = [st EXCEPT ![s].got = x, ![s].out = <<>>]
      /\ UNCHANGED <<zero_rtt, failures>>
  BY <1>2, <1>3 DEF Read, Move
<1>6. PICK e2 \in End : e2 = [e EXCEPT !.got = x, !.out = <<>>]
  BY <1>2, <1>4, Zenon DEF End
<1>7. st' = [st EXCEPT ![s] = e2]
  BY <1>2, <1>5, <1>6, Zenon
<1>8. /\ e2.got = x /\ e2.out = <<>> /\ Sender(e2) = Sender(e)
      /\ e2.finIn = e.finIn /\ e2.up = e.up /\ e2.pending = e.pending
      /\ e2.tunnel = e.tunnel /\ e2.buf = e.buf /\ e2.sealed = e.sealed
      /\ e2.down = e.down /\ e2.pt = e.pt /\ e2.opened = e.opened
      /\ e2.finTunnel = e.finTunnel /\ e2.finOut = e.finOut
  BY <1>2, <1>6 DEF End, Sender
<1>9. Own(e2) /\ HandshakeKept(e, e2, p)
  BY <1>2, <1>8 DEF Own, HandshakeKept
<1>10. Direction(p, e2, ok)
  BY <1>2, <1>3, <1>8, ProgramReads, Zenon
<1> QED BY <1>1, <1>5, <1>7, <1>8, <1>9, <1>10, ReceiverStep, Zenon

\* The two parts of a read are runs of the same elements.
LEMMA SplitTypes ==
    ASSUME NEW S, NEW q \in Seq(S), NEW n \in 1 .. Size(q),
           NEW x, NEW y, Splits(q, n, x, y)
    PROVE  x \in Seq(S) /\ y \in Seq(S)
<1>1. Len(q) \in Nat /\ n \in Nat /\ n <= Len(q)
  BY DEF Size
<1>2. \A i \in 1 .. Len(q) : q[i] \in S
  OBVIOUS
<1>3. SubSeq(q, 1, n) \in Seq(S)
  <2>1. 1 \in Int /\ n \in Int /\ \A i \in 1 .. n : q[i] \in S
    BY <1>1, <1>2
  <2> QED BY <2>1
<1>4. SubSeq(q, n + 1, Len(q)) \in Seq(S)
  <2>1. n + 1 \in Int /\ Len(q) \in Int
        /\ \A i \in n + 1 .. Len(q) : q[i] \in S
    BY <1>1, <1>2
  <2> QED BY <2>1
<1> QED BY <1>3, <1>4 DEF Splits

LEMMA UpReadStep ==
    ASSUME TunnelInv, NEW s \in Side, UpRead(s)
    PROVE  TunnelInv'
<1>1. PICK e, p, ok : Ends(s, e, p, ok)
  BY EndsOf
<1>2. e \in End /\ p \in End /\ e = st[s] /\ st \in [Side -> End] /\ Own(e)
  BY <1>1 DEF Ends
<1>3. Typed(e)
  BY <1>2, EndFields
<1>4. PICK n \in 1 .. Size(e.pending) :
        Move([st EXCEPT ![s].buf = SubSeq(e.pending, 1, n),
                        ![s].pending = SubSeq(@, n + 1, Len(@)),
                        ![s].sealed = @ + 1,
                        ![s].up = "write"])
  BY <1>2, Zenon DEF UpRead, Size
<1>5. PICK x, y : /\ x = SubSeq(e.pending, 1, n)
                  /\ y = SubSeq(e.pending, n + 1, Len(e.pending))
                  /\ Splits(e.pending, n, x, y)
  BY Zenon DEF Splits
<1>6. x \in Seq(Byte) /\ y \in Seq(Byte)
  BY <1>3, <1>5, SplitTypes, Zenon DEF Typed
<1>7. PICK m \in Nat : m = e.sealed + 1
  <2>1. e.sealed \in Nat
    BY <1>3 DEF Typed
  <2> QED BY <2>1
<1>8. /\ e.up = "read"
      /\ st' = [st EXCEPT ![s].buf = x, ![s].pending = y, ![s].sealed = m,
                          ![s].up = "write"]
      /\ UNCHANGED <<zero_rtt, failures>>
  BY <1>2, <1>4, <1>5, <1>7, Zenon DEF UpRead, Move
<1>9. PICK e2 \in End : e2 = [e EXCEPT !.buf = x, !.pending = y, !.sealed = m,
                                       !.up = "write"]
  BY <1>2, <1>6, Zenon DEF End
<1>10. st' = [st EXCEPT ![s] = e2]
  BY <1>2, <1>8, <1>9, Zenon
<1>11. /\ e2.buf = x /\ e2.pending = y /\ e2.sealed = m /\ e2.up = "write"
       /\ Receiver(e2) = Receiver(e) /\ e2.down = e.down /\ e2.pt = e.pt
       /\ e2.written = e.written /\ e2.finIn = e.finIn /\ e2.tunnel = e.tunnel
       /\ e2.finTunnel = e.finTunnel /\ e2.finOut = e.finOut
  BY <1>2, <1>9 DEF End, Receiver
<1>12. Own(e2)
  BY <1>2, <1>3, <1>7, <1>8, <1>11 DEF Own, Unstarted, Typed
<1>13. Direction(e2, p, ok)
  BY <1>1, <1>2, <1>5, <1>7, <1>8, <1>11, SenderReads, Zenon DEF Ends
<1>14. e2.written <= MaxBytes(s)
  BY <1>1, <1>11 DEF Ends
<1> QED BY <1>1, <1>8, <1>10, <1>11, <1>12, <1>13, <1>14, SenderStep, Zenon

LEMMA UpEofStep ==
    ASSUME TunnelInv, NEW s \in Side, UpEof(s)
    PROVE  TunnelInv'
<1>1. PICK e, p, ok : Ends(s, e, p, ok)
  BY EndsOf
<1>2. /\ e \in End /\ p \in End /\ e = st[s] /\ st \in [Side -> End] /\ Own(e)
      /\ Direction(e, p, ok) /\ e.written <= MaxBytes(s)
  BY <1>1 DEF Ends
<1>3. /\ e.up = "read" /\ e.finIn /\ e.pending = <<>>
      /\ st' = [st EXCEPT ![s].up = "close"]
      /\ UNCHANGED <<zero_rtt, failures>>
  BY <1>2 DEF UpEof, Move
<1>4. PICK e2 \in End : e2 = [e EXCEPT !.up = "close"]
  BY <1>2, Zenon DEF End
<1>5. st' = [st EXCEPT ![s] = e2]
  BY <1>2, <1>3, <1>4
<1>6. /\ e2.up = "close" /\ Receiver(e2) = Receiver(e)
      /\ e2.written = e.written /\ e2.finIn = e.finIn /\ e2.pending = e.pending
      /\ e2.tunnel = e.tunnel /\ e2.buf = e.buf /\ e2.sealed = e.sealed
      /\ e2.down = e.down /\ e2.pt = e.pt
      /\ e2.finTunnel = e.finTunnel /\ e2.finOut = e.finOut
  BY <1>2, <1>4 DEF End, Receiver
<1>7. Own(e2)
  BY <1>2, <1>3, <1>6 DEF Own, Unstarted
<1>8. Direction(e2, p, ok)
  BY <1>2, <1>3, <1>6, SenderMoves
<1>9. e2.up # "accept" /\ e2.written <= MaxBytes(s)
  BY <1>2, <1>6
<1> QED BY <1>1, <1>3, <1>5, <1>6, <1>7, <1>8, <1>9, SenderStep, Zenon

LEMMA UpWriteStep ==
    ASSUME TunnelInv, NEW s \in Side, UpWrite(s)
    PROVE  TunnelInv'
<1>1. PICK e, p, ok : Ends(s, e, p, ok)
  BY EndsOf
<1>2. /\ e \in End /\ p \in End /\ e = st[s] /\ st \in [Side -> End] /\ Own(e)
      /\ Direction(e, p, ok) /\ e.written <= MaxBytes(s)
  BY <1>1 DEF Ends
<1>3. Typed(e)
  BY <1>2, EndFields
<1>4. e.up = "write"
  BY <1>2 DEF UpWrite
<1>5. PICK x : /\ x = Append(e.tunnel, DataRecord(e.sealed - 1, e.buf))
               /\ Extends(e.tunnel, DataRecord(e.sealed - 1, e.buf), x)
  BY Zenon DEF Extends
<1>6. x \in Seq(FrameSet) /\ <<>> \in Seq(Byte)
  <2>0. e.sealed \in Nat /\ e.buf \in Seq(Byte) /\ e.tunnel \in Seq(FrameSet)
    BY <1>3 DEF Typed
  <2>1. e.sealed - 1 \in Nat
    BY <1>2, <1>4, <2>0 DEF Own
  <2>2. DataRecord(e.sealed - 1, e.buf) \in FrameSet
    BY <2>0, <2>1 DEF DataRecord, FrameSet
  <2> QED BY <1>5, <2>0, <2>2, Appended
<1>7. /\ st' = [st EXCEPT ![s].tunnel = x, ![s].buf = <<>>, ![s].up = "read"]
      /\ UNCHANGED <<zero_rtt, failures>>
  BY <1>2, <1>5 DEF UpWrite, Move
<1>8. PICK e2 \in End : e2 = [e EXCEPT !.tunnel = x, !.buf = <<>>, !.up = "read"]
  BY <1>2, <1>6, Zenon DEF End
<1>9. st' = [st EXCEPT ![s] = e2]
  BY <1>2, <1>7, <1>8, Zenon
<1>10. /\ e2.tunnel = x /\ e2.buf = <<>> /\ e2.up = "read"
       /\ Receiver(e2) = Receiver(e) /\ e2.down = e.down /\ e2.pt = e.pt
       /\ e2.written = e.written /\ e2.finIn = e.finIn
       /\ e2.pending = e.pending /\ e2.sealed = e.sealed
       /\ e2.finTunnel = e.finTunnel /\ e2.finOut = e.finOut
  BY <1>2, <1>8 DEF End, Receiver
<1>11. Own(e2)
  BY <1>2, <1>4, <1>10 DEF Own, Unstarted
<1>12. Direction(e2, p, ok)
  BY <1>2, <1>4, <1>5, <1>10, SenderWrites, Zenon
<1>13. e2.up # "accept" /\ e2.written <= MaxBytes(s)
  BY <1>2, <1>10
<1> QED BY <1>1, <1>7, <1>9, <1>10, <1>11, <1>12, <1>13, SenderStep, Zenon

LEMMA UpShutdownStep ==
    ASSUME TunnelInv, NEW s \in Side, UpShutdown(s)
    PROVE  TunnelInv'
<1>1. PICK e, p, ok : Ends(s, e, p, ok)
  BY EndsOf
<1>2. /\ e \in End /\ p \in End /\ e = st[s] /\ st \in [Side -> End] /\ Own(e)
      /\ Direction(e, p, ok) /\ e.written <= MaxBytes(s)
  BY <1>1 DEF Ends
<1>3. /\ e.up = "shutdown"
      /\ st' = [st EXCEPT ![s].finTunnel = TRUE, ![s].up = "done"]
      /\ UNCHANGED <<zero_rtt, failures>>
  BY <1>2 DEF UpShutdown, Move
<1>4. PICK e2 \in End : e2 = [e EXCEPT !.finTunnel = TRUE, !.up = "done"]
  BY <1>2, Zenon DEF End
<1>5. st' = [st EXCEPT ![s] = e2]
  BY <1>2, <1>3, <1>4, Zenon
<1>6. /\ e2.up = "done" /\ Receiver(e2) = Receiver(e) /\ e2.finTunnel
      /\ e2.written = e.written /\ e2.finIn = e.finIn /\ e2.pending = e.pending
      /\ e2.tunnel = e.tunnel /\ e2.buf = e.buf /\ e2.sealed = e.sealed
      /\ e2.down = e.down /\ e2.pt = e.pt /\ e2.finOut = e.finOut
  BY <1>2, <1>4 DEF End, Receiver
<1>7. Own(e2)
  BY <1>2, <1>3, <1>6 DEF Own, Unstarted
<1>8. Direction(e2, p, ok)
  BY <1>2, <1>3, <1>6, SenderMoves
<1>9. e2.up # "accept" /\ e2.written <= MaxBytes(s)
  BY <1>2, <1>6
<1> QED BY <1>1, <1>3, <1>5, <1>6, <1>7, <1>8, <1>9, SenderStep, Zenon

\* Both tasks of a side are dropped, after a failure here or earlier.
LEMMA AbortedStep ==
    ASSUME TunnelInv, NEW s \in Side, st' = Aborted(s),
           zero_rtt' = zero_rtt, failures' \in 0 .. MaxFailures, failures' # 0
    PROVE  TunnelInv'
<1>1. PICK e, p, ok : Ends(s, e, p, ok)
  BY EndsOf
<1>2. /\ e \in End /\ p \in End /\ e = st[s] /\ st \in [Side -> End]
      /\ p = st[Peer(s)] /\ Own(p) /\ p.written <= MaxBytes(Peer(s))
      /\ Direction(e, p, ok) /\ Direction(p, e, ok) /\ e.written <= MaxBytes(s)
  BY <1>1 DEF Ends
<1>3. PICK e2 \in End :
        e2 = [e EXCEPT !.up = "aborted", !.down = "aborted", !.buf = <<>>,
                       !.pt = <<>>, !.finTunnel = TRUE, !.finOut = TRUE]
  <2>1. <<>> \in Seq(Byte)
    OBVIOUS
  <2> QED BY <1>2, <2>1, ZenonT(40) DEF End
<1>4. st' = [st EXCEPT ![s] = e2]
  BY <1>2, <1>3, Zenon DEF Aborted
<1>5. st' \in [Side -> End] /\ st'[s] = e2 /\ st'[Peer(s)] = p
  BY <1>2, <1>4, PeerStays
<1>6. /\ e2.up = "aborted" /\ e2.down = "aborted"
      /\ e2.buf = <<>> /\ e2.pt = <<>>
      /\ e2.written = e.written /\ e2.tunnel = e.tunnel
      /\ e2.out = e.out /\ e2.got = e.got
  BY <1>2, <1>3 DEF End
<1>7. Own(e2)
  BY <1>6 DEF Own, Unstarted
<1>8. Direction(e2, p, FALSE)
  BY <1>2, <1>6, SenderAborts, Zenon
<1>9. Direction(p, e2, FALSE)
  BY <1>2, <1>6, ReceiverAborts, Zenon
<1>10. HandshakeKept(st[s], e2, p) /\ HandshakeKept(st[Peer(s)], p, e2)
  BY <1>2, <1>6 DEF HandshakeKept
<1>11. FALSE \in BOOLEAN /\ (FALSE <=> failures' = 0) /\ e2.written <= MaxBytes(s)
  BY <1>2, <1>6
<1> QED BY <1>2, <1>5, <1>7, <1>8, <1>9, <1>10, <1>11, TunnelKept, Zenon

LEMMA FailStep ==
    ASSUME TunnelInv, NEW s \in Side, Fail(s)
    PROVE  TunnelInv'
<1>1. /\ st' = Aborted(s) /\ zero_rtt' = zero_rtt
      /\ failures' = failures + 1 /\ failures < MaxFailures
  BY DEF Fail
<1>2. failures \in 0 .. MaxFailures
  BY DEF TunnelInv, TypeOK
<1>3. failures' \in 0 .. MaxFailures /\ failures' # 0
  BY <1>1, <1>2, ForwardAssumption
<1> QED BY <1>1, <1>3, AbortedStep

\* A reset comes from a peer that failed.
LEMMA PeerResetFailed ==
    ASSUME TunnelInv, NEW s \in Side, st[Peer(s)].down = "aborted"
    PROVE  failures # 0
<1>1. PICK e, p, ok : Ends(s, e, p, ok)
  BY EndsOf
<1>2. ~ok
  BY <1>1 DEF Ends, Direction, Complete
<1> QED BY <1>1, <1>2 DEF Ends

LEMMA PeerResetStep ==
    ASSUME TunnelInv, NEW s \in Side, PeerReset(s)
    PROVE  TunnelInv'
<1>1. /\ st' = Aborted(s) /\ zero_rtt' = zero_rtt /\ failures' = failures
      /\ failures # 0
  BY PeerResetFailed DEF PeerReset, Move
<1>2. failures' \in 0 .. MaxFailures
  BY <1>1 DEF TunnelInv, TypeOK
<1> QED BY <1>1, <1>2, AbortedStep

\* The peer is gone while up is not finished: something has failed.
LEMMA GoneFailed ==
    ASSUME TunnelInv, NEW s \in Side, st[s].up \in {"write", "close"},
           Gone(Peer(s))
    PROVE  failures # 0
<1>1. PICK e, p, ok : Ends(s, e, p, ok)
  BY EndsOf
<1>2. p.down \in {"done", "aborted"} /\ e.up \in {"write", "close"}
  BY <1>1 DEF Ends, Gone
<1>3. ~ok
  BY <1>1, <1>2 DEF Ends, Direction, Complete
<1> QED BY <1>1, <1>3 DEF Ends

LEMMA UpWriteGoneStep ==
    ASSUME TunnelInv, NEW s \in Side, UpWriteGone(s)
    PROVE  TunnelInv'
<1>1. PICK e, p, ok : Ends(s, e, p, ok)
  BY EndsOf
<1>2. /\ e \in End /\ p \in End /\ e = st[s] /\ st \in [Side -> End] /\ Own(e)
      /\ p = st[Peer(s)] /\ ok \in BOOLEAN
      /\ Direction(e, p, ok) /\ e.written <= MaxBytes(s)
  BY <1>1 DEF Ends
<1>3. e.up = "write" /\ p.down \in {"done", "aborted"}
  BY <1>2 DEF UpWriteGone, Gone
<1>4. CASE Move(Aborted(s))
  <2>1. st' = Aborted(s) /\ zero_rtt' = zero_rtt /\ failures' = failures
    BY <1>4 DEF Move
  <2>2. failures # 0
    BY GoneFailed DEF UpWriteGone
  <2>3. failures' \in 0 .. MaxFailures /\ failures' # 0
    BY <2>1, <2>2 DEF TunnelInv, TypeOK
  <2> QED BY <2>1, <2>3, AbortedStep
<1>5. CASE Move([st EXCEPT ![s].buf = <<>>, ![s].up = "read"])
  <2>1. /\ st' = [st EXCEPT ![s].buf = <<>>, ![s].up = "read"]
        /\ UNCHANGED <<zero_rtt, failures>> /\ <<>> \in Seq(Byte)
    BY <1>5 DEF Move
  <2>2. PICK e2 \in End : e2 = [e EXCEPT !.buf = <<>>, !.up = "read"]
    BY <1>2, <2>1, Zenon DEF End
  <2>3. st' = [st EXCEPT ![s] = e2]
    BY <1>2, <2>1, <2>2, Zenon
  <2>4. /\ e2.up = "read" /\ e2.buf = <<>> /\ Receiver(e2) = Receiver(e)
        /\ e2.written = e.written /\ e2.finIn = e.finIn
        /\ e2.pending = e.pending /\ e2.tunnel = e.tunnel
        /\ e2.sealed = e.sealed /\ e2.down = e.down /\ e2.pt = e.pt
        /\ e2.finTunnel = e.finTunnel /\ e2.finOut = e.finOut
    BY <1>2, <2>2 DEF End, Receiver
  <2>5. Own(e2)
    BY <1>2, <1>3, <2>4 DEF Own, Unstarted
  <2>6. Direction(e2, p, ok)
    <3>1. Unfinished(e)
      BY <1>3 DEF Unfinished
    <3> QED BY <1>2, <1>3, <2>4, <3>1, SenderUnheard, ZenonT(40)
  <2>7. e2.up # "accept" /\ e2.written <= MaxBytes(s)
    BY <1>2, <2>4
  <2> QED BY <1>1, <2>1, <2>3, <2>4, <2>5, <2>6, <2>7, SenderStep, Zenon
<1> QED BY <1>4, <1>5 DEF UpWriteGone

LEMMA UpCloseStep ==
    ASSUME TunnelInv, NEW s \in Side, UpClose(s)
    PROVE  TunnelInv'
<1>1. PICK e, p, ok : Ends(s, e, p, ok)
  BY EndsOf
<1>2. /\ e \in End /\ p \in End /\ e = st[s] /\ st \in [Side -> End] /\ Own(e)
      /\ p = st[Peer(s)] /\ ok \in BOOLEAN
      /\ Direction(e, p, ok) /\ e.written <= MaxBytes(s)
  BY <1>1 DEF Ends
<1>3. e.up = "close"
  BY <1>2 DEF UpClose
<1>4. PICK x \in Seq(FrameSet) :
        /\ \/ Extends(e.tunnel, Signal("Close"), x)
           \/ x = e.tunnel /\ p.down \in {"done", "aborted"}
        /\ st' = [st EXCEPT ![s].tunnel = x, ![s].up = "shutdown"]
  <2>1. e.tunnel \in Seq(FrameSet)
    BY <1>2 DEF End
  <2>2. CASE Move([st EXCEPT ![s].tunnel = Append(@, Signal("Close")),
                             ![s].up = "shutdown"])
    <3>1. PICK x : /\ x = Append(e.tunnel, Signal("Close"))
                   /\ Extends(e.tunnel, Signal("Close"), x)
      BY Zenon DEF Extends
    <3>2. x \in Seq(FrameSet)
      BY <2>1, <3>1, Signals, Appended
    <3> QED BY <1>2, <2>2, <3>1, <3>2, Zenon DEF Move
  <2>3. CASE Gone(Peer(s)) /\ Move([st EXCEPT ![s].up = "shutdown"])
    <3>1. p.down \in {"done", "aborted"}
      BY <1>2, <2>3 DEF Gone
    <3>2. [st EXCEPT ![s].up = "shutdown"]
            = [st EXCEPT ![s].tunnel = e.tunnel, ![s].up = "shutdown"]
      BY <1>2, Zenon DEF End
    <3> QED BY <2>1, <2>3, <3>1, <3>2, Zenon DEF Move
  <2> QED BY <2>2, <2>3, Zenon DEF UpClose
<1>5. UNCHANGED <<zero_rtt, failures>>
  BY DEF UpClose, Move
<1>6. PICK e2 \in End : e2 = [e EXCEPT !.tunnel = x, !.up = "shutdown"]
  BY <1>2, Zenon DEF End
<1>7. st' = [st EXCEPT ![s] = e2]
  BY <1>2, <1>4, <1>6, Zenon
<1>8. /\ e2.up = "shutdown" /\ e2.tunnel = x /\ Receiver(e2) = Receiver(e)
      /\ e2.written = e.written /\ e2.finIn = e.finIn /\ e2.pending = e.pending
      /\ e2.buf = e.buf /\ e2.sealed = e.sealed
      /\ e2.down = e.down /\ e2.pt = e.pt
      /\ e2.finTunnel = e.finTunnel /\ e2.finOut = e.finOut
  BY <1>2, <1>6 DEF End, Receiver
<1>9. Own(e2)
  BY <1>2, <1>3, <1>8 DEF Own, Unstarted
<1>10. Direction(e2, p, ok)
  <2>1. CASE Extends(e.tunnel, Signal("Close"), x)
    BY <1>2, <1>3, <1>8, <2>1, SenderCloses
  <2>2. CASE x = e.tunnel /\ p.down \in {"done", "aborted"}
    <3>1. Unfinished(e)
      BY <1>3 DEF Unfinished
    <3> QED BY <1>2, <1>8, <2>2, <3>1, SenderUnheard, ZenonT(40)
  <2> QED BY <1>4, <2>1, <2>2
<1>11. e2.up # "accept" /\ e2.written <= MaxBytes(s)
  BY <1>2, <1>8
<1> QED BY <1>1, <1>5, <1>7, <1>8, <1>9, <1>10, <1>11, SenderStep, Zenon

LEMMA server_acceptStep ==
    ASSUME TunnelInv, server_accept
    PROVE  TunnelInv'
<1> DEFINE s == "server"
<1>0. s \in Side /\ Peer(s) = "client"
  BY Peers DEF Side
<1>1. PICK e, p, ok : Ends(s, e, p, ok)
  BY <1>0, EndsOf
<1>2. /\ e \in End /\ p \in End /\ e = st[s] /\ st \in [Side -> End] /\ Own(e)
      /\ Direction(e, p, ok) /\ Direction(p, e, ok) /\ e.written <= MaxBytes(s)
  BY <1>1 DEF Ends
<1>3. PICK x \in Seq(FrameSet) :
        x = IF zero_rtt THEN <<Signal("ServerAck")>> ELSE e.tunnel
  <2>1. e.tunnel \in Seq(FrameSet)
    BY <1>2 DEF End
  <2>2. \A f \in FrameSet : <<f>> \in Seq(FrameSet)
    OBVIOUS
  <2> QED BY <2>1, <2>2, Signals, Zenon
<1>4. /\ e.up = "accept"
      /\ st' = [st EXCEPT ![s].up = "connect", ![s].down = "connect",
                          ![s].tunnel = x]
      /\ UNCHANGED <<zero_rtt, failures>>
  BY <1>2, <1>3 DEF server_accept, Move
<1>5. e.down = "accept"
  BY <1>2, <1>4 DEF Own, Unstarted
<1>6. \/ x = <<Signal("ServerAck")>> /\ (Live(p) => p.down = "ack")
      \/ x = e.tunnel /\ p.down # "ack"
  <2>1. p = st["client"] /\ "client" \in Side
    BY <1>0, <1>1 DEF Ends, Side
  <2>2. CASE zero_rtt
    <3>1. p.down \in {"ack", "aborted"}
      BY <1>2, <1>4, <2>1, <2>2 DEF TunnelInv, AckExpected
    <3> QED BY <1>3, <2>2, <3>1 DEF Live, Unstarted
  <2>3. CASE ~zero_rtt
    <3>1. p.down # "ack"
      BY <2>1, <2>3 DEF TunnelInv, AckExpected
    <3> QED BY <1>3, <2>3, <3>1
  <2> QED BY <2>2, <2>3
<1>7. PICK e2 \in End :
        e2 = [e EXCEPT !.up = "connect", !.down = "connect", !.tunnel = x]
  BY <1>2, Zenon DEF End, Unstarted
<1>8. st' = [st EXCEPT ![s] = e2]
  BY <1>2, <1>4, <1>7, Zenon
<1>9. /\ e2.up = "connect" /\ e2.down = "connect" /\ e2.tunnel = x
      /\ e2.written = e.written /\ e2.finIn = e.finIn /\ e2.pending = e.pending
      /\ e2.buf = e.buf /\ e2.sealed = e.sealed /\ e2.opened = e.opened
      /\ e2.pt = e.pt /\ e2.out = e.out /\ e2.got = e.got
      /\ e2.finTunnel = e.finTunnel /\ e2.finOut = e.finOut
  BY <1>2, <1>7 DEF End
<1>10. Own(e2)
  BY <1>2, <1>4, <1>5, <1>9 DEF Own, Unstarted
<1>11. Direction(e2, p, ok)
  BY <1>2, <1>4, <1>6, <1>9, SenderAccepts, SMTT(20)
<1>12. Direction(p, e2, ok)
  <2>1. Live(e) /\ Live(e2) /\ "ack" \notin {e.down, e2.down}
    BY <1>5, <1>9 DEF Live, Unstarted
  <2> QED BY <1>2, <1>9, <2>1, ReceiverMoves
<1>13. HandshakeKept(e, e2, p) /\ e2.written <= MaxBytes(s)
  BY <1>2, <1>5, <1>9 DEF HandshakeKept
<1> HIDE DEF s
<1> QED BY <1>0, <1>1, <1>4, <1>8, <1>10, <1>11, <1>12, <1>13, SideMoves, Zenon

LEMMA ConnectTargetStep ==
    ASSUME TunnelInv, ConnectTarget
    PROVE  TunnelInv'
<1> DEFINE s == "server"
<1>0. s \in Side
  BY DEF Side
<1>1. PICK e, p, ok : Ends(s, e, p, ok)
  BY <1>0, EndsOf
<1>2. /\ e \in End /\ p \in End /\ e = st[s] /\ st \in [Side -> End] /\ Own(e)
      /\ Direction(e, p, ok) /\ Direction(p, e, ok) /\ e.written <= MaxBytes(s)
  BY <1>1 DEF Ends
<1>3. PICK pc \in {"read", "early"} :
        pc = IF e.pt = <<>> THEN "read" ELSE "early"
  OBVIOUS
<1>4. /\ e.up = "connect"
      /\ st' = [st EXCEPT ![s].up = pc, ![s].down = pc]
      /\ UNCHANGED <<zero_rtt, failures>>
  BY <1>2, <1>3 DEF ConnectTarget, Starts, Move
<1>5. e.down = "connect"
  BY <1>2, <1>4 DEF Own, Unstarted
<1>6. PICK e2 \in End : e2 = [e EXCEPT !.up = pc, !.down = pc]
  BY <1>2, <1>3, ZenonT(40) DEF End, Unstarted
<1>7. st' = [st EXCEPT ![s] = e2]
  BY <1>2, <1>4, <1>6, Zenon
<1>8. /\ e2.up = pc /\ e2.down = pc /\ e2.tunnel = e.tunnel
      /\ e2.written = e.written /\ e2.finIn = e.finIn /\ e2.pending = e.pending
      /\ e2.buf = e.buf /\ e2.sealed = e.sealed /\ e2.opened = e.opened
      /\ e2.pt = e.pt /\ e2.out = e.out /\ e2.got = e.got
      /\ e2.finTunnel = e.finTunnel /\ e2.finOut = e.finOut
  BY <1>2, <1>6 DEF End
<1>9. Own(e2)
  BY <1>2, <1>3, <1>4, <1>5, <1>8 DEF Own, Unstarted
<1>10. Direction(e2, p, ok)
  BY <1>2, <1>3, <1>4, <1>8, SenderMoves
<1>11. Direction(p, e2, ok)
  <2>1. Live(e) /\ Live(e2) /\ "ack" \notin {e.down, e2.down}
    BY <1>3, <1>5, <1>8 DEF Live, Unstarted
  <2> QED BY <1>2, <1>8, <2>1, ReceiverMoves
<1>12. HandshakeKept(e, e2, p) /\ e2.written <= MaxBytes(s)
  BY <1>2, <1>3, <1>5, <1>8 DEF HandshakeKept
<1> HIDE DEF s
<1> QED BY <1>0, <1>1, <1>4, <1>7, <1>9, <1>10, <1>11, <1>12, SideMoves, Zenon

\* write_all hands bytes to the program at s: in the early phase, and as down.
FlushOf(s, pc) ==
    /\ \/ pc = "early" /\ st[s].up = "early"
       \/ pc = "write" /\ st[s].down = "write"
    /\ \E n \in 1 .. Len(st[s].pt) : Flush(s, pc, n)

\* What Flush does to e.
Flushed(e, e2, pc, n, x) ==
    /\ Splits(e.pt, n, x, e2.pt) /\ Joins(e.out, x, e2.out)
    /\ e2.down = IF e2.pt = <<>> THEN "read" ELSE pc
    /\ e2.up = IF e2.pt = <<>> /\ e.up = "early" THEN "read" ELSE e.up
    /\ e2.written = e.written /\ e2.finIn = e.finIn /\ e2.pending = e.pending
    /\ e2.buf = e.buf /\ e2.sealed = e.sealed /\ e2.tunnel = e.tunnel
    /\ e2.finTunnel = e.finTunnel /\ e2.opened = e.opened
    /\ e2.finOut = e.finOut /\ e2.got = e.got

LEMMA FlushUpdate ==
    ASSUME NEW s \in Side, st \in [Side -> End], NEW pc \in {"early", "write"},
           NEW n \in 1 .. Size(st[s].pt), Flush(s, pc, n)
    PROVE  \E e2, x : /\ e2 \in End /\ st' = [st EXCEPT ![s] = e2]
                      /\ Flushed(st[s], e2, pc, n, x)
<1>1. PICK e \in End : e = st[s]
  OBVIOUS
<1>2. PICK x, y : /\ x = SubSeq(e.pt, 1, n)
                  /\ y = SubSeq(e.pt, n + 1, Len(e.pt))
                  /\ Splits(e.pt, n, x, y)
  BY Zenon DEF Splits
<1>3. PICK z : z = e.out \o x /\ Joins(e.out, x, z)
  BY Zenon DEF Joins
<1>4. y \in Seq(Byte) /\ z \in Seq(Byte)
  <2>1. e.pt \in Seq(Byte) /\ e.out \in Seq(Byte)
    BY <1>1 DEF End
  <2>2. x \in Seq(Byte) /\ y \in Seq(Byte)
    BY <1>1, <1>2, <2>1, SplitTypes, Zenon
  <2> QED BY <1>3, <2>1, <2>2
<1>5. PICK d : d = IF y = <<>> THEN "read" ELSE pc
  OBVIOUS
<1>6. PICK u : u = IF y = <<>> /\ e.up = "early" THEN "read" ELSE e.up
  OBVIOUS
<1>7. st' = [st EXCEPT ![s].out = z, ![s].pt = y, ![s].down = d, ![s].up = u]
  BY <1>1, <1>2, <1>3, <1>5, <1>6, Zenon DEF Flush, WriteAll, Move
<1>8. PICK e2 \in End :
        e2 = [e EXCEPT !.out = z, !.pt = y, !.down = d, !.up = u]
  <2> DEFINE Downs == Unstarted \cup {"ack", "read", "write", "shutdown",
                                      "done", "aborted"}
             Ups == Unstarted \cup {"read", "write", "close", "shutdown",
                                    "done", "aborted"}
  <2>1. e.up \in Ups
    BY <1>1 DEF End
  <2>2. d \in Downs /\ u \in Ups
    BY <1>5, <1>6, <2>1 DEF Unstarted
  <2>3. ASSUME NEW r \in End, NEW v \in Seq(Byte), NEW w \in Seq(Byte),
               NEW j \in Downs, NEW k \in Ups
        PROVE  [r EXCEPT !.out = v, !.pt = w, !.down = j, !.up = k] \in End
    BY <2>3, ZenonT(40) DEF End
  <2> HIDE DEF Downs, Ups
  <2> QED BY <1>4, <2>2, <2>3, Zenon
<1>9. st' = [st EXCEPT ![s] = e2]
  BY <1>1, <1>7, <1>8, Zenon
<1>10. Flushed(e, e2, pc, n, x)
  <2>1. /\ e2.out = z /\ e2.pt = y /\ e2.down = d /\ e2.up = u
        /\ e2.written = e.written /\ e2.finIn = e.finIn
        /\ e2.pending = e.pending /\ e2.buf = e.buf /\ e2.sealed = e.sealed
        /\ e2.tunnel = e.tunnel /\ e2.finTunnel = e.finTunnel
        /\ e2.opened = e.opened /\ e2.finOut = e.finOut /\ e2.got = e.got
    BY <1>1, <1>8 DEF End
  <2> QED BY <1>2, <1>3, <1>5, <1>6, <2>1 DEF Flushed
<1> QED BY <1>1, <1>9, <1>10, Zenon

LEMMA FlushStep ==
    ASSUME TunnelInv, NEW s \in Side, NEW pc \in {"early", "write"},
           FlushOf(s, pc)
    PROVE  TunnelInv'
<1>1. PICK e, p, ok : Ends(s, e, p, ok)
  BY EndsOf
<1>2. /\ e \in End /\ p \in End /\ e = st[s] /\ st \in [Side -> End] /\ Own(e)
      /\ Direction(e, p, ok) /\ Direction(p, e, ok) /\ e.written <= MaxBytes(s)
  BY <1>1 DEF Ends
<1>3. PICK n \in 1 .. Size(e.pt) : Flush(s, pc, n)
  BY <1>2 DEF FlushOf, Size
<1>4. PICK e2, x : /\ e2 \in End /\ st' = [st EXCEPT ![s] = e2]
                   /\ Flushed(e, e2, pc, n, x)
  BY <1>2, <1>3, FlushUpdate
<1>5. UNCHANGED <<zero_rtt, failures>>
  BY <1>3 DEF Flush, Move
<1>6. \/ pc = "early" /\ e.up = "early" /\ e.down = "early"
      \/ pc = "write" /\ e.down = "write" /\ e.up \notin Unstarted
  BY <1>2, Zenon DEF FlushOf, Own, Unstarted
<1>7. /\ e2 \in End
      /\ e2.down \in {"read", pc} /\ e2.written = e.written
      /\ e2.opened = e.opened /\ e2.got = e.got
      /\ Splits(e.pt, n, x, e2.pt) /\ Joins(e.out, x, e2.out)
  BY <1>4 DEF Flushed
<1>8. Live(e) /\ Live(e2) /\ "ack" \notin {e.down, e2.down}
  BY <1>6, <1>7 DEF Live, Unstarted
<1>9. Own(e2)
  BY <1>2, <1>4, <1>6 DEF Own, Unstarted, Flushed
<1>10. Direction(p, e2, ok)
  BY <1>2, <1>7, <1>8, ReceiverFlushes
<1>11. Direction(e2, p, ok)
  <2>1. CASE e.up = "early"
    BY <1>2, <1>4, <2>1, SenderMoves DEF Flushed
  <2>2. CASE e.up # "early"
    <3>1. Sender(e2) = Sender(e)
      BY <1>4, <2>2 DEF Sender, Flushed
    <3> QED BY <1>2, <3>1, DirectionKept
  <2> QED BY <2>1, <2>2
<1>12. HandshakeKept(e, e2, p) /\ e2.written <= MaxBytes(s)
  BY <1>2, <1>4, <1>6 DEF HandshakeKept, Flushed
<1> QED BY <1>1, <1>4, <1>5, <1>9, <1>10, <1>11, <1>12, SideMoves, Zenon

\* The stream of a side ends without a frame that says so: its peer failed.
LEMMA StreamCut ==
    ASSUME TunnelInv, NEW s \in Side, st[s].down \in {"ack", "read"},
           InboundEnds(s)
    PROVE  failures # 0
<1>1. PICK e, p, ok : Ends(s, e, p, ok)
  BY EndsOf
<1>2. /\ e = st[s] /\ p = st[Peer(s)] /\ Own(p) /\ Direction(p, e, ok)
      /\ ok \in BOOLEAN /\ (ok <=> failures = 0) /\ e \in End /\ p \in End
  BY <1>1 DEF Ends
<1>3. p.tunnel = <<>> /\ p.finTunnel
  BY <1>2 DEF InboundEnds, Inbound
<1>4. PICK e2 \in End : e2 = [e EXCEPT !.down = "done"]
  BY <1>2, Zenon DEF End
<1>5. e2.down = "done" /\ e2.pt = e.pt /\ e2.out = e.out /\ e2.got = e.got
  BY <1>2, <1>4 DEF End
<1>6. ~ok
  BY <1>2, <1>3, <1>5, ReceiverEnds
<1> QED BY <1>2, <1>6

LEMMA DownAckEofStep ==
    ASSUME TunnelInv, NEW s \in Side, DownAckEof(s)
    PROVE  TunnelInv'
<1>1. PICK e, p, ok : Ends(s, e, p, ok)
  BY EndsOf
<1>2. /\ e \in End /\ p \in End /\ e = st[s] /\ st \in [Side -> End] /\ Own(e)
      /\ p = st[Peer(s)] /\ ok \in BOOLEAN /\ Own(p) /\ Direction(p, e, ok)
  BY <1>1 DEF Ends
<1>3. /\ e.down = "ack" /\ p.tunnel = <<>> /\ p.finTunnel
      /\ st' = [st EXCEPT ![s].down = "done", ![s].finOut = TRUE]
      /\ UNCHANGED <<zero_rtt, failures>>
  BY <1>2 DEF DownAckEof, InboundEnds, Inbound, Move
<1>4. PICK e2 \in End : e2 = [e EXCEPT !.down = "done", !.finOut = TRUE]
  BY <1>2, Zenon DEF End
<1>5. st' = [st EXCEPT ![s] = e2]
  BY <1>2, <1>3, <1>4, Zenon
<1>6. /\ e2.down = "done" /\ e2.finOut /\ Sender(e2) = Sender(e)
      /\ e2.finIn = e.finIn /\ e2.up = e.up /\ e2.pending = e.pending
      /\ e2.tunnel = e.tunnel /\ e2.buf = e.buf /\ e2.sealed = e.sealed
      /\ e2.pt = e.pt /\ e2.out = e.out /\ e2.got = e.got
      /\ e2.finTunnel = e.finTunnel
  BY <1>2, <1>4 DEF End, Sender
<1>7. Own(e2)
  BY <1>2, <1>3, <1>6 DEF Own, Unstarted
<1>8. HandshakeKept(e, e2, p)
  BY <1>2, <1>3, <1>6 DEF HandshakeKept, Own
<1>9. Direction(p, e2, ok)
  BY <1>2, <1>3, <1>6, ReceiverEnds
<1> QED BY <1>1, <1>3, <1>5, <1>6, <1>7, <1>8, <1>9, ReceiverStep, Zenon

LEMMA DownEofStep ==
    ASSUME TunnelInv, NEW s \in Side, DownEof(s)
    PROVE  TunnelInv'
<1>1. PICK e, p, ok : Ends(s, e, p, ok)
  BY EndsOf
<1>2. /\ e \in End /\ p \in End /\ e = st[s] /\ st \in [Side -> End] /\ Own(e)
      /\ p = st[Peer(s)] /\ ok \in BOOLEAN /\ Own(p) /\ Direction(p, e, ok)
  BY <1>1 DEF Ends
<1>3. /\ e.down = "read" /\ p.tunnel = <<>> /\ p.finTunnel
      /\ st' = [st EXCEPT ![s].down = "shutdown"]
      /\ UNCHANGED <<zero_rtt, failures>>
  BY <1>2 DEF DownEof, InboundEnds, Inbound, Move
<1>4. PICK e2 \in End : e2 = [e EXCEPT !.down = "shutdown"]
  BY <1>2, Zenon DEF End
<1>5. st' = [st EXCEPT ![s] = e2]
  BY <1>2, <1>3, <1>4
<1>6. /\ e2.down = "shutdown" /\ Sender(e2) = Sender(e)
      /\ e2.finIn = e.finIn /\ e2.up = e.up /\ e2.pending = e.pending
      /\ e2.tunnel = e.tunnel /\ e2.buf = e.buf /\ e2.sealed = e.sealed
      /\ e2.pt = e.pt /\ e2.out = e.out /\ e2.got = e.got
      /\ e2.finTunnel = e.finTunnel /\ e2.finOut = e.finOut
  BY <1>2, <1>4 DEF End, Sender
<1>7. Own(e2) /\ HandshakeKept(e, e2, p)
  BY <1>2, <1>3, <1>6 DEF Own, Unstarted, HandshakeKept
<1>8. Direction(p, e2, ok)
  BY <1>2, <1>3, <1>6, ReceiverEnds
<1> QED BY <1>1, <1>3, <1>5, <1>6, <1>7, <1>8, ReceiverStep, Zenon

LEMMA DownShutdownStep ==
    ASSUME TunnelInv, NEW s \in Side, DownShutdown(s)
    PROVE  TunnelInv'
<1>1. PICK e, p, ok : Ends(s, e, p, ok)
  BY EndsOf
<1>2. /\ e \in End /\ p \in End /\ e = st[s] /\ st \in [Side -> End] /\ Own(e)
      /\ Direction(p, e, ok)
  BY <1>1 DEF Ends
<1>3. /\ e.down = "shutdown"
      /\ st' = [st EXCEPT ![s].finOut = TRUE, ![s].down = "done"]
      /\ UNCHANGED <<zero_rtt, failures>>
  BY <1>2 DEF DownShutdown, Move
<1>4. PICK e2 \in End : e2 = [e EXCEPT !.finOut = TRUE, !.down = "done"]
  BY <1>2, Zenon DEF End
<1>5. st' = [st EXCEPT ![s] = e2]
  BY <1>2, <1>3, <1>4, Zenon
<1>6. /\ e2.down = "done" /\ Sender(e2) = Sender(e)
      /\ e2.finIn = e.finIn /\ e2.up = e.up /\ e2.pending = e.pending
      /\ e2.tunnel = e.tunnel /\ e2.buf = e.buf /\ e2.sealed = e.sealed
      /\ e2.pt = e.pt /\ e2.out = e.out /\ e2.got = e.got
      /\ e2.opened = e.opened /\ e2.finTunnel = e.finTunnel
  BY <1>2, <1>4 DEF End, Sender
<1>7. Own(e2) /\ HandshakeKept(e, e2, p)
  BY <1>2, <1>3, <1>6 DEF Own, Unstarted, HandshakeKept
<1>8. Direction(p, e2, ok)
  BY <1>2, <1>3, <1>6, ReceiverMoves
<1> QED BY <1>1, <1>3, <1>5, <1>6, <1>7, <1>8, ReceiverStep, Zenon

\* What Take does to the sides e and p.
Took(e, p, e2, p2, pc, bytes) ==
    /\ Drops(p.tunnel, p2.tunnel) /\ SameSender(p, p2)
    /\ Receiver(p2) = Receiver(p) /\ p2.finIn = p.finIn /\ p2.down = p.down
    /\ p2.pt = p.pt /\ p2.finTunnel = p.finTunnel /\ p2.finOut = p.finOut
    /\ e2.down = pc /\ e2.pt = bytes
    /\ e2.opened = IF pc = "write" THEN e.opened + 1 ELSE e.opened
    /\ Sender(e2) = Sender(e) /\ e2.finIn = e.finIn /\ e2.up = e.up
    /\ e2.written = e.written /\ e2.pending = e.pending /\ e2.buf = e.buf
    /\ e2.sealed = e.sealed /\ e2.tunnel = e.tunnel
    /\ e2.finTunnel = e.finTunnel /\ e2.finOut = e.finOut
    /\ e2.out = e.out /\ e2.got = e.got

LEMMA TakeUpdate ==
    ASSUME NEW s \in Side, st \in [Side -> End],
           NEW pc \in {"read", "write", "shutdown"}, NEW bytes \in Seq(Byte),
           Inbound(s) # <<>>, Take(s, pc, bytes)
    PROVE  \E e2 \in End, p2 \in End :
              /\ st' \in [Side -> End] /\ st'[s] = e2 /\ st'[Peer(s)] = p2
              /\ Took(st[s], st[Peer(s)], e2, p2, pc, bytes)
<1>1. PICK e \in End, p \in End : e = st[s] /\ p = st[Peer(s)]
  BY Peers
<1>2. PICK x : x = Tail(p.tunnel) /\ Drops(p.tunnel, x)
  BY <1>1, Zenon DEF Drops, Inbound
<1>3. x \in Seq(FrameSet)
  <2>1. p.tunnel \in Seq(FrameSet)
    BY <1>1 DEF End
  <2> QED BY <1>2, <2>1, Dropped, Zenon
<1>4. PICK m \in Nat : m = IF pc = "write" THEN e.opened + 1 ELSE e.opened
  <2>1. e.opened \in Nat
    BY <1>1 DEF End
  <2>2. e.opened + 1 \in Nat
    BY <2>1
  <2> QED BY <2>1, <2>2
<1>5. st' = [st EXCEPT ![Peer(s)].tunnel = x, ![s].down = pc, ![s].pt = bytes,
                       ![s].opened = m]
  BY <1>1, <1>2, <1>4, Peers DEF Take, Move
<1>6. PICK e2 \in End :
        e2 = [e EXCEPT !.down = pc, !.pt = bytes, !.opened = m]
  BY <1>1, Zenon DEF End
<1>7. PICK p2 \in End : p2 = [p EXCEPT !.tunnel = x]
  BY <1>1, <1>3, ZenonT(40) DEF End
<1>8. st'[s] = e2 /\ st'[Peer(s)] = p2
  BY <1>1, <1>5, <1>6, <1>7, Peers, Zenon
<1>9. st' \in [Side -> End]
  <2>1. st' = [t \in Side |-> st'[t]]
    BY <1>5, Zenon
  <2>2. \A t \in Side : st'[t] \in End
    BY <1>8, Peers
  <2> QED BY <2>1, <2>2
<1>10. /\ p2.tunnel = x /\ SameSender(p, p2) /\ Receiver(p2) = Receiver(p)
       /\ p2.finIn = p.finIn /\ p2.down = p.down /\ p2.pt = p.pt
       /\ p2.finTunnel = p.finTunnel /\ p2.finOut = p.finOut
  BY <1>1, <1>7 DEF End, SameSender, Receiver
<1>11. /\ e2.down = pc /\ e2.pt = bytes /\ e2.opened = m
       /\ Sender(e2) = Sender(e) /\ e2.finIn = e.finIn /\ e2.up = e.up
       /\ e2.written = e.written /\ e2.pending = e.pending /\ e2.buf = e.buf
       /\ e2.sealed = e.sealed /\ e2.tunnel = e.tunnel
       /\ e2.finTunnel = e.finTunnel /\ e2.finOut = e.finOut
       /\ e2.out = e.out /\ e2.got = e.got
  BY <1>1, <1>6 DEF End, Sender
<1>12. Took(e, p, e2, p2, pc, bytes)
  BY <1>2, <1>4, <1>10, <1>11 DEF Took
<1> QED BY <1>1, <1>8, <1>9, <1>12

\* Take keeps what holds of the two sides by themselves, and the direction
\* out of e.
LEMMA TookKeeps ==
    ASSUME NEW e, NEW p, NEW e2, NEW p2, NEW pc, NEW bytes, NEW ok,
           Took(e, p, e2, p2, pc, bytes), Own(e), Own(p),
           e.down \in {"ack", "read"}, pc \in {"read", "write", "shutdown"},
           pc # "write" => bytes = <<>>, Direction(e, p, ok)
    PROVE  /\ Own(e2) /\ Own(p2) /\ Direction(e2, p2, ok)
           /\ HandshakeKept(e, e2, p2) /\ HandshakeKept(p, p2, e2)
           /\ e2.written = e.written /\ p2.written = p.written
<1>1. p.tunnel # <<>> /\ SameSender(p, p2)
  BY Zenon DEF Took, Drops
<1>2. /\ p2.finIn = p.finIn /\ p2.down = p.down /\ p2.pt = p.pt
      /\ p2.finTunnel = p.finTunnel /\ p2.finOut = p.finOut
      /\ Receiver(p2) = Receiver(p)
  BY Zenon DEF Took
<1>3. /\ p2.up = p.up /\ p2.written = p.written /\ p2.pending = p.pending
      /\ p2.buf = p.buf /\ p2.sealed = p.sealed
  BY <1>1, Zenon DEF SameSender
<1>4. /\ e2.down = pc /\ e2.pt = bytes /\ e2.finIn = e.finIn /\ e2.up = e.up
      /\ e2.pending = e.pending /\ e2.buf = e.buf /\ e2.sealed = e.sealed
      /\ e2.tunnel = e.tunnel /\ e2.finTunnel = e.finTunnel
      /\ e2.finOut = e.finOut /\ e2.written = e.written
      /\ Sender(e2) = Sender(e)
  BY Zenon DEF Took
<1>5. Own(e2)
  BY <1>4 DEF Own, Unstarted
<1>6. p.up # "accept"
  BY <1>1, Zenon DEF Own
<1>7. Own(p2)
  BY <1>2, <1>3, <1>6 DEF Own
<1>8. Direction(e2, p2, ok)
  BY <1>2, <1>4, DirectionKept, Zenon
<1>9. HandshakeKept(e, e2, p2)
  BY <1>3, <1>4, <1>6 DEF HandshakeKept
<1>10. HandshakeKept(p, p2, e2)
  BY <1>2, <1>3, <1>6, Zenon DEF HandshakeKept
<1> QED BY <1>3, <1>4, <1>5, <1>7, <1>8, <1>9, <1>10

\* down takes a frame: what is left to show is the direction it comes from.
LEMMA TakeStep ==
    ASSUME TunnelInv, NEW s \in Side, NEW e, NEW p, NEW ok, Ends(s, e, p, ok),
           NEW e2 \in End, NEW p2 \in End, NEW pc, NEW bytes,
           Took(e, p, e2, p2, pc, bytes),
           st' \in [Side -> End], st'[s] = e2, st'[Peer(s)] = p2,
           UNCHANGED <<zero_rtt, failures>>,
           e.down \in {"ack", "read"}, pc \in {"read", "write", "shutdown"},
           pc # "write" => bytes = <<>>,
           Direction(p2, e2, ok)
    PROVE  TunnelInv'
<1>1. /\ e = st[s] /\ p = st[Peer(s)]
      /\ Own(e) /\ Own(p) /\ Direction(e, p, ok)
      /\ e.written <= MaxBytes(s) /\ p.written <= MaxBytes(Peer(s))
      /\ ok \in BOOLEAN /\ (ok <=> failures = 0)
  BY Zenon DEF Ends
<1>2. /\ Own(e2) /\ Own(p2) /\ Direction(e2, p2, ok)
      /\ HandshakeKept(e, e2, p2) /\ HandshakeKept(p, p2, e2)
      /\ e2.written = e.written /\ p2.written = p.written
  BY <1>1, TookKeeps
<1>3. e2.written <= MaxBytes(s) /\ p2.written <= MaxBytes(Peer(s))
  BY <1>1, <1>2, Zenon
<1>4. failures' \in 0 .. MaxFailures /\ zero_rtt' = zero_rtt
  BY Zenon DEF TunnelInv, TypeOK
<1>5. ok <=> failures' = 0
  BY <1>1, Zenon
<1> QED BY <1>1, <1>2, <1>3, <1>4, <1>5, TunnelKept, Zenon

\* A frame down cannot use never arrives.
LEMMA FrameExpected ==
    ASSUME TunnelInv, NEW s \in Side, Inbound(s) # <<>>
    PROVE  /\ st[s].down = "ack" => Head(Inbound(s)).type = "ServerAck"
           /\ st[s].down = "read" =>
                 \/ /\ Head(Inbound(s)).type = "DataRecord"
                    /\ Head(Inbound(s)).seq = st[s].opened
                 \/ Head(Inbound(s)).type = "Close"
<1>1. PICK e, p, ok : Ends(s, e, p, ok)
  BY EndsOf
<1>2. /\ e \in End /\ p \in End /\ e = st[s] /\ p = st[Peer(s)]
      /\ Direction(p, e, ok)
  BY <1>1 DEF Ends
<1>3. p.tunnel = Inbound(s) /\ p.tunnel # <<>>
  BY <1>2 DEF Inbound
<1>4. Head(Inbound(s)) = p.tunnel[1]
  BY <1>3
<1>5. CASE e.down \in {"ack", "read"}
  <2>1. /\ e.down = "ack" => p.tunnel[1].type = "ServerAck"
        /\ e.down = "read" =>
              \/ p.tunnel[1].type = "DataRecord" /\ p.tunnel[1].seq = e.opened
              \/ p.tunnel[1].type = "Close"
    BY <1>2, <1>3, <1>5, HeadFits
  <2> QED BY <1>2, <1>4, <2>1
<1> QED BY <1>2, <1>5

LEMMA DownAckStep ==
    ASSUME TunnelInv, NEW s \in Side, DownAck(s)
    PROVE  TunnelInv'
<1>1. PICK e, p, ok : Ends(s, e, p, ok)
  BY EndsOf
<1>2. /\ e \in End /\ p \in End /\ e = st[s] /\ p = st[Peer(s)]
      /\ st \in [Side -> End] /\ Own(e) /\ Direction(p, e, ok)
  BY <1>1 DEF Ends
<1>3. /\ e.down = "ack" /\ Inbound(s) # <<>>
      /\ Head(Inbound(s)).type = "ServerAck"
  BY <1>2, FrameExpected DEF DownAck
<1>4. Take(s, "read", <<>>) /\ UNCHANGED <<zero_rtt, failures>>
  BY <1>3, Zenon DEF DownAck, Take, Move
<1>5. PICK e2 \in End, p2 \in End :
        /\ st' \in [Side -> End] /\ st'[s] = e2 /\ st'[Peer(s)] = p2
        /\ Took(e, p, e2, p2, "read", <<>>)
  <2>1. <<>> \in Seq(Byte)
    OBVIOUS
  <2> QED BY <1>2, <1>3, <1>4, <2>1, TakeUpdate, Zenon
<1>6. p.tunnel[1].type = "ServerAck"
  BY <1>2, <1>3 DEF Inbound
<1>7. e.pt = <<>>
  BY <1>2, <1>3 DEF Own
<1>8. Direction(p2, e2, ok)
  <2>1. /\ Drops(p.tunnel, p2.tunnel) /\ SameSender(p, p2)
        /\ e2.down = "read" /\ e2.opened = e.opened /\ e2.pt = e.pt
        /\ e2.out = e.out /\ e2.got = e.got
    BY <1>5, <1>7 DEF Took
  <2> QED BY <1>2, <1>3, <1>5, <1>6, <2>1, TakesAck, ZenonT(40)
<1> QED BY <1>1, <1>3, <1>4, <1>5, <1>8, TakeStep

LEMMA DownReadStep ==
    ASSUME TunnelInv, NEW s \in Side, DownRead(s)
    PROVE  TunnelInv'
<1>1. PICK e, p, ok : Ends(s, e, p, ok)
  BY EndsOf
<1>2. /\ e \in End /\ p \in End /\ e = st[s] /\ p = st[Peer(s)]
      /\ st \in [Side -> End] /\ Own(e) /\ Direction(p, e, ok)
  BY <1>1 DEF Ends
<1>3. e.down = "read" /\ Inbound(s) # <<>> /\ e.pt = <<>>
  BY <1>2 DEF DownRead, Own
<1>4. PICK frame \in FrameSet : frame = Head(Inbound(s)) /\ frame = p.tunnel[1]
  <2>1. p.tunnel \in Seq(FrameSet) /\ p.tunnel = Inbound(s)
    BY <1>2 DEF End, Inbound
  <2> QED BY <1>3, <2>1
<1>5. CASE frame.type = "DataRecord" /\ frame.seq = st[s].opened
  <2>1. Take(s, "write", frame.data) /\ UNCHANGED <<zero_rtt, failures>>
    BY <1>4, <1>5, Zenon DEF DownRead, Take, Move
  <2>2. PICK e2 \in End, p2 \in End :
          /\ st' \in [Side -> End] /\ st'[s] = e2 /\ st'[Peer(s)] = p2
          /\ Took(e, p, e2, p2, "write", frame.data)
    <3>1. frame.data \in Seq(Byte)
      BY <1>4 DEF FrameSet
    <3> QED BY <1>2, <1>3, <2>1, <3>1, TakeUpdate
  <2>3. Direction(p2, e2, ok)
    <3>1. /\ Drops(p.tunnel, p2.tunnel) /\ SameSender(p, p2)
          /\ e2.down = "write" /\ e2.opened = e.opened + 1
          /\ e2.pt = p.tunnel[1].data /\ e2.out = e.out /\ e2.got = e.got
      BY <1>4, <2>2 DEF Took
    <3>2. p.tunnel[1].type = "DataRecord"
      BY <1>4, <1>5, SMTT(20)
    <3> QED BY <1>2, <1>3, <2>2, <3>1, <3>2, TakesRecord, ZenonT(40)
  <2> QED BY <1>1, <1>3, <2>1, <2>2, <2>3, TakeStep
<1>6. CASE frame.type = "Close"
  <2>1. Take(s, "shutdown", <<>>) /\ UNCHANGED <<zero_rtt, failures>>
    BY <1>4, <1>6, Zenon DEF DownRead, Take, Move
  <2>2. PICK e2 \in End, p2 \in End :
          /\ st' \in [Side -> End] /\ st'[s] = e2 /\ st'[Peer(s)] = p2
          /\ Took(e, p, e2, p2, "shutdown", <<>>)
    <3>1. <<>> \in Seq(Byte)
      OBVIOUS
    <3> QED BY <1>2, <1>3, <2>1, <3>1, TakeUpdate, Zenon
  <2>3. Direction(p2, e2, ok)
    <3>1. /\ Drops(p.tunnel, p2.tunnel) /\ SameSender(p, p2)
          /\ e2.down = "shutdown" /\ e2.pt = e.pt
          /\ e2.out = e.out /\ e2.got = e.got
      BY <1>3, <2>2 DEF Took
    <3>2. p.tunnel[1].type = "Close"
      BY <1>4, <1>6
    <3> QED BY <1>2, <1>3, <2>2, <3>1, <3>2, TakesClose, ZenonT(40)
  <2> QED BY <1>1, <1>3, <2>1, <2>2, <2>3, TakeStep
<1> QED BY <1>2, <1>3, <1>4, <1>5, <1>6, FrameExpected

-----------------------------------------------------------------------------
(* The invariant holds.                                                    *)

\* Before anything is sent.
LEMMA Fresh ==
    ASSUME NEW a \in End, NEW b \in End, NEW ok,
           a.tunnel = <<>>, a.pending = <<>>, a.buf = <<>>,
           a.up \in {"read", "accept"}, b.got = <<>>, b.out = <<>>,
           Consec(b.pt, 0), Size(b.pt) = a.written, a.sealed = b.opened,
           Live(b), b.down = "ack" => a.up = "accept"
    PROVE  Direction(a, b, ok)
<1>0. Typed(a) /\ Typed(b)
  BY EndFields
<1>1. a.written \in Nat /\ b.opened \in Nat
  BY <1>0 DEF Typed
<1>2. Size(<<>>) = 0 /\ \A lo : Consec(<<>>, lo)
  BY NoBytes
<1>3. Rcvd(b) = a.written /\ InOrder(a, b)
  <2>1. Rcvd(b) = 0 + 0 + a.written
    BY <1>2 DEF Rcvd
  <2>2. Consec(b.pt, 0 + 0)
    OBVIOUS
  <2> QED BY <1>1, <1>2, <2>1, <2>2 DEF InOrder
<1>4. Complete(a, b)
  BY DEF Complete, Live, Unstarted
<1>5. PICK bound \in [0 .. 0 -> Nat] : bound[0] = a.written
  <2> DEFINE all == [j \in 0 .. 0 |-> a.written]
  <2>1. all \in [0 .. 0 -> Nat] /\ all[0] = a.written
    BY <1>1
  <2> HIDE DEF all
  <2> QED BY <2>1
<1>6. ~AckFirst(a) /\ Acks(a) = 0
  BY DEF AckFirst, Acks
<1>7. Framed(a, b, bound)
  BY <1>1, <1>2, <1>3, <1>5, SMTT(20) DEF Framed
<1>8. Sending(a, b, bound[0])
  BY <1>1, <1>2, <1>5, <1>6 DEF Sending
<1>9. AckComesFirst(a, b)
  BY <1>6 DEF AckComesFirst
<1>10. Chain(a, b)
  BY <1>2, <1>5, <1>7, <1>8, <1>9, Zenon DEF Chain
<1> QED BY <1>3, <1>4, <1>10 DEF Direction

LEMMA TunnelInit == Init => TunnelInv
<1> SUFFICES ASSUME Init PROVE TunnelInv
  OBVIOUS
<1>1. PICK early \in 0 .. MaxEarly, pc \in {"ack", "read"} :
        st = [s \in Side |->
                [written   |-> IF s = "client" THEN early ELSE 0,
                 finIn     |-> FALSE,
                 pending   |-> <<>>,
                 up        |-> IF s = "client" THEN "read" ELSE "accept",
                 buf       |-> <<>>,
                 sealed    |-> IF s = "client" THEN 1 ELSE 0,
                 tunnel    |-> <<>>,
                 finTunnel |-> FALSE,
                 down      |-> IF s = "server" THEN "accept" ELSE pc,
                 opened    |-> IF s = "server" THEN 1 ELSE 0,
                 pt        |-> IF s = "server" THEN FirstBytes(early) ELSE <<>>,
                 out       |-> <<>>,
                 finOut    |-> FALSE,
                 got       |-> <<>>]]
        /\ (pc = "ack" <=> zero_rtt)
  <2>1. PICK pc \in {"ack", "read"} : pc = IF zero_rtt THEN "ack" ELSE "read"
    OBVIOUS
  <2> QED BY <2>1, ZenonT(40) DEF Init, EarlyRecords
<1>2. /\ "client" \in Side /\ "server" \in Side
      /\ Peer("client") = "server" /\ Peer("server") = "client"
  BY Peers DEF Side
<1>3. early \in Nat /\ early <= MaxUp /\ MaxUp \in Nat /\ MaxDown \in Nat
  BY ForwardAssumption
<1>4. PICK q \in Seq(Byte) : /\ q = FirstBytes(early)
                             /\ Size(q) = early /\ Consec(q, 0)
  <2>1. \A i \in 1 .. early : i \in Byte /\ i = 0 + i
    BY <1>3 DEF Byte
  <2>2. [i \in 1 .. early |-> i] \in Seq(Byte)
    BY <1>3, <2>1
  <2>3. Len([i \in 1 .. early |-> i]) = early
    BY <1>3
  <2> QED BY <2>1, <2>2, <2>3, Zenon DEF FirstBytes, Size, Consec
<1>5. early \in {0} \cup Byte /\ <<>> \in Seq(Byte) /\ <<>> \in Seq(FrameSet)
  BY <1>3 DEF Byte
<1>6. PICK c \in End :
        c = [written |-> early, finIn |-> FALSE, pending |-> <<>>,
             up |-> "read", buf |-> <<>>, sealed |-> 1, tunnel |-> <<>>,
             finTunnel |-> FALSE, down |-> pc, opened |-> 0, pt |-> <<>>,
             out |-> <<>>, finOut |-> FALSE, got |-> <<>>]
  BY <1>5, Zenon DEF End
<1>7. PICK v \in End :
        v = [written |-> 0, finIn |-> FALSE, pending |-> <<>>,
             up |-> "accept", buf |-> <<>>, sealed |-> 0, tunnel |-> <<>>,
             finTunnel |-> FALSE, down |-> "accept", opened |-> 1, pt |-> q,
             out |-> <<>>, finOut |-> FALSE, got |-> <<>>]
  BY <1>5, Zenon DEF End, Unstarted
<1>8. st["client"] = c /\ st["server"] = v
  BY <1>1, <1>2, <1>4, <1>6, <1>7
<1>9. st \in [Side -> End]
  <2>1. \A s \in Side : st[s] \in End
    BY <1>8 DEF Side
  <2>2. st = [s \in Side |-> st[s]]
    BY <1>1
  <2> QED BY <2>1, <2>2
<1>10. Own(c) /\ Own(v)
  BY <1>6, <1>7 DEF Own, Unstarted
<1>11. c.written <= MaxBytes("client") /\ v.written <= MaxBytes("server")
  BY <1>3, <1>6, <1>7, SMTT(20) DEF MaxBytes
<1>12. Direction(c, v, failures = 0)
  <2>1. Live(v)
    BY <1>7 DEF Live, Unstarted
  <2> QED BY <1>4, <1>6, <1>7, <2>1, Fresh, SMTT(20)
<1>13. Direction(v, c, failures = 0)
  <2>1. Live(c)
    BY <1>6 DEF Live, Unstarted
  <2> QED BY <1>6, <1>7, <2>1, NoBytes, Fresh, SMTT(20)
<1>14. TypeOK
  <2>1. zero_rtt \in BOOLEAN /\ failures \in 0 .. MaxFailures
    BY ForwardAssumption DEF Init
  <2>2. \A s \in Side :
          {st[s].up, st[s].down} \cap Unstarted # {} => st[s].up = st[s].down
    BY <1>8, <1>10 DEF Own, Side
  <2> QED BY <1>9, <2>1, <2>2, Zenon DEF TypeOK, End
<1>15. AckExpected
  BY <1>1, <1>6, <1>7, <1>8 DEF AckExpected, Side
<1>16. /\ \A s \in Side : Own(st[s]) /\ st[s].written <= MaxBytes(s)
       /\ \A s \in Side : Direction(st[Peer(s)], st[s], failures = 0)
  BY <1>2, <1>8, <1>10, <1>11, <1>12, <1>13 DEF Side
<1> QED BY <1>14, <1>15, <1>16 DEF TunnelInv

LEMMA TunnelStep == TunnelInv /\ [Next]_vars => TunnelInv'
<1> SUFFICES ASSUME TunnelInv, [Next]_vars PROVE TunnelInv'
  OBVIOUS
<1>1. CASE server_accept
  BY <1>1, server_acceptStep
<1>2. CASE ConnectTarget
  BY <1>2, ConnectTargetStep
<1>3. ASSUME NEW s \in Side, Write(s) \/ CloseWrite(s) \/ Read(s)
      PROVE  TunnelInv'
  BY <1>3, WriteStep, CloseWriteStep, ReadStep
<1>4. ASSUME NEW s \in Side, WriteEarly(s) PROVE TunnelInv'
  <2>1. FlushOf(s, "early")
    BY <1>4 DEF WriteEarly, FlushOf
  <2> QED BY <2>1, FlushStep
<1>5. ASSUME NEW s \in Side, up_task(s) PROVE TunnelInv'
  BY <1>5, UpReadStep, UpEofStep, UpWriteStep, UpWriteGoneStep, UpCloseStep,
     UpShutdownStep, SMTT(20) DEF up_task
<1>6. ASSUME NEW s \in Side, down_task(s) PROVE TunnelInv'
  <2>1. CASE DownWrite(s)
    <3>1. FlushOf(s, "write")
      BY <2>1 DEF DownWrite, FlushOf
    <3> QED BY <3>1, FlushStep
  <2> QED BY <1>6, <2>1, DownAckStep, DownAckEofStep, DownReadStep, DownEofStep,
             DownShutdownStep DEF down_task
<1>7. ASSUME NEW s \in Side, Fail(s) \/ PeerReset(s) PROVE TunnelInv'
  BY <1>7, FailStep, PeerResetStep, SMTT(20)
<1>8. CASE UNCHANGED vars
  BY <1>8 DEF vars, TunnelInv, TypeOK, AckExpected
<1> QED BY <1>1, <1>2, <1>3, <1>4, <1>5, <1>6, <1>7, <1>8 DEF Next

LEMMA TunnelHolds == Spec => []TunnelInv
BY TunnelInit, TunnelStep, PTL DEF Spec

\* TypeOK: the programs, the buffers and the tasks of both sides stay in their
\* types, in particular up and down of forward() start together.
THEOREM TypeCorrect == Spec => []TypeOK
<1>1. TunnelInv => TypeOK
  BY DEF TunnelInv
<1> QED BY <1>1, TunnelHolds, PTL

\* What has been handed to a program are the first bytes its peer wrote.
LEMMA HandedOver ==
    ASSUME NEW e \in End, NEW p \in End, InOrder(p, e)
    PROVE  /\ Size(e.got) + Size(e.out) \in Nat
           /\ Size(e.got) + Size(e.out) <= p.written
           /\ e.got \o e.out = FirstBytes(Size(e.got) + Size(e.out))
<1>1. Typed(e) /\ Typed(p)
  BY EndFields
<1>2. /\ e.got \in Seq(Byte) /\ e.out \in Seq(Byte) /\ p.written \in Nat
      /\ Size(e.got) \in Nat /\ Size(e.out) \in Nat /\ Size(e.pt) \in Nat
  BY <1>1 DEF Typed
<1>3. /\ Consec(e.got, 0) /\ Consec(e.out, 0 + Size(e.got))
      /\ Size(e.got) + Size(e.out) + Size(e.pt) <= p.written
  BY <1>2 DEF InOrder, Rcvd
<1>4. PICK x : x = e.got \o e.out /\ Joins(e.got, e.out, x)
  BY Zenon DEF Joins
<1>5. /\ x \in Seq(Byte) /\ Size(x) = Size(e.got) + Size(e.out)
      /\ Consec(x, 0)
  BY <1>2, <1>3, <1>4, ConsecJoin
<1>6. x = FirstBytes(Size(x))
  BY <1>5, ConsecFirst
<1>7. /\ Size(e.got) + Size(e.out) \in Nat
      /\ Size(e.got) + Size(e.out) <= p.written
  BY <1>2, <1>3
<1> QED BY <1>4, <1>5, <1>6, <1>7, Zenon

LEMMA DeliveredFirst ==
    ASSUME TunnelInv, NEW s \in Side
    PROVE  LET n == Size(st[s].got) + Size(st[s].out)
           IN  /\ n \in Nat /\ n <= st[Peer(s)].written
               /\ Delivered(s) = FirstBytes(n)
<1>1. PICK e, p, ok : Ends(s, e, p, ok)
  BY EndsOf
<1>2. /\ e \in End /\ p \in End /\ e = st[s] /\ p = st[Peer(s)]
      /\ InOrder(p, e)
  BY <1>1 DEF Ends, Direction
<1> QED BY <1>2, HandedOver, Zenon DEF Delivered

\* After an end without a failure, everything has been handed over.
LEMMA EndedComplete ==
    ASSUME TunnelInv, NEW s \in Side, failures = 0,
           st[s].down \in {"shutdown", "done"} \/ st[s].finOut
    PROVE  /\ st[Peer(s)].finIn
           /\ Size(st[s].got) + Size(st[s].out) = st[Peer(s)].written
<1>1. PICK e, p, ok : Ends(s, e, p, ok)
  BY EndsOf
<1>2. /\ e \in End /\ p \in End /\ e = st[s] /\ p = st[Peer(s)]
      /\ Own(e) /\ Own(p) /\ Complete(p, e)
  BY <1>1, SMTT(20) DEF Ends, Direction
<1>3. e.down \in {"shutdown", "done"}
  BY <1>2, SMTT(20) DEF Own, Complete
<1>4. p.finIn /\ Rcvd(e) = p.written /\ e.pt = <<>>
  BY <1>2, <1>3 DEF Own, Complete
<1>5. Typed(e)
  BY <1>2, EndFields
<1>6. Size(e.got) \in Nat /\ Size(e.out) \in Nat /\ Size(e.pt) = 0
  BY <1>4, <1>5, NoBytes DEF Typed
<1>7. Rcvd(e) = Size(e.got) + Size(e.out)
  BY <1>6 DEF Rcvd
<1> QED BY <1>2, <1>4, <1>7

\* EofMeansComplete: without a failure forward() ends the stream of a program
\* only after the other one closed and every byte it wrote is handed over,
\* whatever the buffers, the early data and the order of the tasks.
THEOREM EndsAreComplete == Spec => []EofMeansComplete
<1>1. TunnelInv => EofMeansComplete
  BY DeliveredFirst, EndedComplete DEF EofMeansComplete
<1> QED BY <1>1, TunnelHolds, PTL

-----------------------------------------------------------------------------
(* The tunnel implements Pipe.                                             *)

\* What the program at a side does and sees.
Seen(e) == <<e.written, e.finIn, e.got, e.out, e.finOut>>

Unseen ==
    /\ \A s \in Side : Seen(st'[s]) = Seen(st[s])
    /\ failures' = failures

LEMMA UnseenStutters == Unseen => UNCHANGED ThePipe!vars
<1> SUFFICES ASSUME Unseen PROVE UNCHANGED ThePipe!vars
  OBVIOUS
<1>1. \A s \in Side : /\ st'[s].written = st[s].written
                      /\ st'[s].finIn = st[s].finIn
                      /\ st'[s].got = st[s].got /\ st'[s].out = st[s].out
                      /\ st'[s].finOut = st[s].finOut
  BY DEF Unseen, Seen
<1>2. /\ [s \in Side |-> st[s].written]' = [s \in Side |-> st[s].written]
      /\ [s \in Side |-> st[s].finIn]' = [s \in Side |-> st[s].finIn]
      /\ [s \in Side |-> Delivered(s)]' = [s \in Side |-> Delivered(s)]
      /\ [s \in Side |-> st[s].finOut]' = [s \in Side |-> st[s].finOut]
  BY <1>1, Zenon DEF Delivered
<1>3. (failures > 0)' = (failures > 0)
  BY DEF Unseen
<1> QED BY <1>2, <1>3 DEF ThePipe!vars

\* The server before its forward(), and up.
LEMMA UpUnseen ==
    ASSUME TunnelInv, NEW s \in Side,
           \/ server_accept \/ ConnectTarget
           \/ UpRead(s) \/ UpEof(s) \/ UpWrite(s) \/ UpClose(s) \/ UpShutdown(s)
           \/ UpWriteGone(s) /\ ~Move(Aborted(s))
    PROVE  Unseen
<1>0. st \in [Side -> End]
  BY Zenon DEF TunnelInv, TypeOK, End
<1>1. CASE server_accept
  BY <1>0, <1>1, SMTT(20) DEF server_accept, Move, Unseen, Seen, End
<1>2. CASE ConnectTarget
  BY <1>0, <1>2, SMTT(20) DEF ConnectTarget, Move, Unseen, Seen, End
<1>3. CASE UpRead(s)
  <2>1. PICK x, y, m : st' = [st EXCEPT ![s].buf = x, ![s].pending = y,
                                        ![s].sealed = m, ![s].up = "write"]
    <3>1. PICK n : Move([st EXCEPT ![s].buf = SubSeq(st[s].pending, 1, n),
                                   ![s].pending = SubSeq(@, n + 1, Len(@)),
                                   ![s].sealed = @ + 1,
                                   ![s].up = "write"])
      BY <1>3, Zenon DEF UpRead
    <3> QED BY <3>1, Zenon DEF Move
  <2>2. failures' = failures
    BY <1>3, Zenon DEF UpRead, Move
  <2> QED BY <1>0, <2>1, <2>2, SMTT(20) DEF Unseen, Seen, End
<1>4. CASE UpEof(s)
  BY <1>0, <1>4, ZenonT(40) DEF UpEof, Move, Unseen, Seen, End
<1>5. CASE UpWrite(s)
  BY <1>0, <1>5, ZenonT(40) DEF UpWrite, Move, Unseen, Seen, End
<1>6. CASE UpClose(s)
  <2>1. failures' = failures
    BY <1>6 DEF UpClose, Move
  <2>2. CASE Move([st EXCEPT ![s].tunnel = Append(@, Signal("Close")),
                             ![s].up = "shutdown"])
    <3>1. PICK x : st' = [st EXCEPT ![s].tunnel = x, ![s].up = "shutdown"]
      BY <2>2, Zenon DEF Move
    <3> QED BY <1>0, <2>1, <3>1, SMTT(20) DEF Unseen, Seen, End
  <2>3. CASE Move([st EXCEPT ![s].up = "shutdown"])
    BY <1>0, <2>3, ZenonT(40) DEF Move, Unseen, Seen, End
  <2> QED BY <1>6, <2>2, <2>3 DEF UpClose
<1>7. CASE UpShutdown(s)
  BY <1>0, <1>7, SMTT(20) DEF UpShutdown, Move, Unseen, Seen, End
<1>8. CASE UpWriteGone(s) /\ ~Move(Aborted(s))
  <2>1. Move([st EXCEPT ![s].buf = <<>>, ![s].up = "read"])
    BY <1>8 DEF UpWriteGone
  <2>2. /\ st' = [st EXCEPT ![s].buf = <<>>, ![s].up = "read"]
        /\ failures' = failures
    BY <2>1, Zenon DEF Move
  <2> QED BY <1>0, <2>2 DEF Unseen, Seen, End
<1> QED BY <1>1, <1>2, <1>3, <1>4, <1>5, <1>6, <1>7, <1>8, SMTT(20)

\* down between two operations on the plain socket.
LEMMA DownUnseen ==
    ASSUME TunnelInv, NEW s \in Side, DownAck(s) \/ DownRead(s) \/ DownEof(s)
    PROVE  Unseen
<1>0. st \in [Side -> End]
  BY DEF TunnelInv, TypeOK, End
<1>1. ASSUME NEW pc, NEW bytes, Take(s, pc, bytes) PROVE Unseen
  <2>1. /\ failures' = failures
        /\ \E x, m : st' = [st EXCEPT ![Peer(s)].tunnel = x, ![s].down = pc,
                                      ![s].pt = bytes, ![s].opened = m]
    BY <1>1, Zenon DEF Take, Move
  <2>2. PICK x, m : st' = [st EXCEPT ![Peer(s)].tunnel = x, ![s].down = pc,
                                     ![s].pt = bytes, ![s].opened = m]
    BY <2>1, Zenon
  <2>3. /\ st'[s] = [st[s] EXCEPT !.down = pc, !.pt = bytes, !.opened = m]
        /\ st'[Peer(s)] = [st[Peer(s)] EXCEPT !.tunnel = x]
    BY <1>0, <2>2, Peers, Zenon
  <2>4. Seen(st'[s]) = Seen(st[s]) /\ Seen(st'[Peer(s)]) = Seen(st[Peer(s)])
    BY <1>0, <2>3, Peers, SMTT(20) DEF Seen, End
  <2> QED BY <2>1, <2>4, Peers, Zenon DEF Unseen
<1>2. CASE DownAck(s)
  BY <1>1, <1>2, FrameExpected DEF DownAck
<1>3. CASE DownRead(s)
  <2>1. st[s].down = "read" /\ Inbound(s) # <<>>
    BY <1>3 DEF DownRead
  <2>2. \/ Take(s, "write", Head(Inbound(s)).data)
        \/ Take(s, "shutdown", <<>>)
    BY <1>3, <2>1, FrameExpected DEF DownRead
  <2> QED BY <1>1, <2>2
<1>4. CASE DownEof(s)
  BY <1>0, <1>4, ZenonT(40) DEF DownEof, Move, Unseen, Seen, End
<1> QED BY <1>2, <1>3, <1>4

\* Reading moves bytes that count as handed over already.
LEMMA ReadStutters ==
    ASSUME TunnelInv, NEW s \in Side, Read(s)
    PROVE  UNCHANGED ThePipe!vars
<1>1. st \in [Side -> End]
  BY DEF TunnelInv, TypeOK, End
<1>2. PICK x : x = Delivered(s) /\ x = st[s].got \o st[s].out
  BY Zenon DEF Delivered
<1>3. x \o <<>> = x
  <2>1. st[s].got \in Seq(Byte) /\ st[s].out \in Seq(Byte)
    BY <1>1 DEF End
  <2>2. x \in Seq(Byte)
    BY <1>2, <2>1
  <2> QED BY <2>2
<1>4. st' = [st EXCEPT ![s].got = x, ![s].out = <<>>] /\ failures' = failures
  BY <1>2 DEF Read, Move
<1>5. /\ \A t \in Side : /\ st'[t].written = st[t].written
                         /\ st'[t].finIn = st[t].finIn
                         /\ st'[t].finOut = st[t].finOut
      /\ st'[s].got = x /\ st'[s].out = <<>>
      /\ \A t \in Side \ {s} : st'[t] = st[t]
  BY <1>1, <1>4, ZenonT(40) DEF End
<1>6. \A t \in Side : Delivered(t)' = Delivered(t)
  BY <1>2, <1>3, <1>5, Zenon DEF Delivered
<1>7. /\ [t \in Side |-> st[t].written]' = [t \in Side |-> st[t].written]
      /\ [t \in Side |-> st[t].finIn]' = [t \in Side |-> st[t].finIn]
      /\ [t \in Side |-> Delivered(t)]' = [t \in Side |-> Delivered(t)]
      /\ [t \in Side |-> st[t].finOut]' = [t \in Side |-> st[t].finOut]
  BY <1>5, <1>6
<1>8. (failures > 0)' = (failures > 0)
  BY <1>4
<1> QED BY <1>7, <1>8 DEF ThePipe!vars

LEMMA WriteMaps ==
    ASSUME TunnelInv, NEW s \in Side, Write(s)
    PROVE  ThePipe!Write(s)
<1>1. st \in [Side -> End]
  BY DEF TunnelInv, TypeOK, End
<1>2. PICK x, m : /\ st' = [st EXCEPT ![s].written = m, ![s].pending = x]
                  /\ m = st[s].written + 1
  <2>1. Move([st EXCEPT ![s].written = @ + 1,
                        ![s].pending = Append(@, st[s].written + 1)])
    BY DEF Write
  <2> QED BY <2>1, Zenon DEF Move
<1>3. failures' = failures /\ ~st[s].finIn
  BY DEF Write, Move
<1>4. /\ st'[s].written = m
      /\ \A t \in Side \ {s} : st'[t] = st[t]
      /\ \A t \in Side : /\ st'[t].finIn = st[t].finIn
                         /\ st'[t].got = st[t].got /\ st'[t].out = st[t].out
                         /\ st'[t].finOut = st[t].finOut
  BY <1>1, <1>2, SMTT(20) DEF End
<1>5. [t \in Side |-> st[t].written]'
        = [[t \in Side |-> st[t].written] EXCEPT ![s] = @ + 1]
  <2>1. [t \in Side |-> st[t].written][s] + 1 = m
    BY <1>2
  <2>2. [t \in Side |-> st[t].written]'
          = [[t \in Side |-> st[t].written] EXCEPT ![s] = m]
    BY <1>4, Zenon
  <2> QED BY <2>1, <2>2, Zenon
<1>6. /\ [t \in Side |-> st[t].finIn]' = [t \in Side |-> st[t].finIn]
      /\ [t \in Side |-> Delivered(t)]' = [t \in Side |-> Delivered(t)]
      /\ [t \in Side |-> st[t].finOut]' = [t \in Side |-> st[t].finOut]
  BY <1>4, Zenon DEF Delivered
<1>7. (failures > 0)' = (failures > 0)
  BY <1>3
<1> QED BY <1>3, <1>5, <1>6, <1>7 DEF ThePipe!Write

LEMMA CloseMaps ==
    ASSUME TunnelInv, NEW s \in Side, CloseWrite(s)
    PROVE  ThePipe!Close(s)
<1>1. st \in [Side -> End]
  BY DEF TunnelInv, TypeOK, End
<1>2. /\ st' = [st EXCEPT ![s].finIn = TRUE]
      /\ failures' = failures /\ ~st[s].finIn
  BY DEF CloseWrite, Move
<1>3. /\ st'[s].finIn = TRUE
      /\ \A t \in Side \ {s} : st'[t] = st[t]
      /\ \A t \in Side : /\ st'[t].written = st[t].written
                         /\ st'[t].got = st[t].got /\ st'[t].out = st[t].out
                         /\ st'[t].finOut = st[t].finOut
  BY <1>1, <1>2, SMTT(20) DEF End
<1>4. [t \in Side |-> st[t].finIn]'
        = [[t \in Side |-> st[t].finIn] EXCEPT ![s] = TRUE]
  BY <1>3, Zenon
<1>5. /\ [t \in Side |-> st[t].written]' = [t \in Side |-> st[t].written]
      /\ [t \in Side |-> Delivered(t)]' = [t \in Side |-> Delivered(t)]
      /\ [t \in Side |-> st[t].finOut]' = [t \in Side |-> st[t].finOut]
  BY <1>3, Zenon DEF Delivered
<1>6. (failures > 0)' = (failures > 0)
  BY <1>2, SMTT(20)
<1> QED BY <1>2, <1>4, <1>5, <1>6, SMTT(20) DEF ThePipe!Close

\* Without a failure the end is seen after everything, with one whenever.
LEMMA EndMaps ==
    ASSUME TunnelInv, NEW s \in Side, DownShutdown(s) \/ DownAckEof(s)
    PROVE  ThePipe!End(s, Peer(s))
<1>1. st \in [Side -> End] /\ failures \in 0 .. MaxFailures
  BY DEF TunnelInv, TypeOK, End
<1>2. /\ st' = [st EXCEPT ![s].down = "done", ![s].finOut = TRUE]
      /\ failures' = failures
  <2>1. CASE DownAckEof(s)
    BY <2>1 DEF DownAckEof, Move
  <2>2. CASE DownShutdown(s)
    BY <1>1, <2>2, Zenon DEF DownShutdown, Move
  <2> QED BY <2>1, <2>2
<1>3. ~st[s].finOut
  <2>1. Own(st[s]) /\ st[s].down \in {"ack", "shutdown"}
    BY DEF TunnelInv, DownShutdown, DownAckEof
  <2> QED BY <2>1 DEF Own
<1>4. \/ st[Peer(s)].finIn /\ Len(Delivered(s)) = st[Peer(s)].written
      \/ failures > 0
  <2>1. CASE failures = 0
    <3>1. DownShutdown(s)
      BY <2>1, StreamCut DEF DownAckEof
    <3>2. /\ st[Peer(s)].finIn
          /\ Size(st[s].got) + Size(st[s].out) = st[Peer(s)].written
      BY <2>1, <3>1, EndedComplete DEF DownShutdown
    <3>3. /\ st[Peer(s)].written \in Nat
          /\ Delivered(s) = FirstBytes(st[Peer(s)].written)
      BY <3>2, DeliveredFirst
    <3> QED BY <3>2, <3>3 DEF FirstBytes
  <2>2. CASE failures # 0
    BY <1>1, <2>2, ForwardAssumption
  <2> QED BY <2>1, <2>2
<1>5. /\ st'[s].finOut = TRUE
      /\ \A t \in Side \ {s} : st'[t] = st[t]
      /\ \A t \in Side : /\ st'[t].written = st[t].written
                         /\ st'[t].finIn = st[t].finIn
                         /\ st'[t].got = st[t].got /\ st'[t].out = st[t].out
  BY <1>1, <1>2, SMTT(20) DEF End
<1>6. [t \in Side |-> st[t].finOut]'
        = [[t \in Side |-> st[t].finOut] EXCEPT ![s] = TRUE]
  BY <1>5, Zenon
<1>7. /\ [t \in Side |-> st[t].written]' = [t \in Side |-> st[t].written]
      /\ [t \in Side |-> st[t].finIn]' = [t \in Side |-> st[t].finIn]
      /\ [t \in Side |-> Delivered(t)]' = [t \in Side |-> Delivered(t)]
  BY <1>5, Zenon DEF Delivered
<1>8. (failures > 0)' = (failures > 0)
  BY <1>2
<1>9. Peer(s) \in Side
  BY Peers, SMTT(20)
<1>10. /\ [t \in Side |-> st[t].finOut][s] = st[s].finOut
       /\ [t \in Side |-> st[t].finIn][Peer(s)] = st[Peer(s)].finIn
       /\ [t \in Side |-> st[t].written][Peer(s)] = st[Peer(s)].written
       /\ [t \in Side |-> Delivered(t)][s] = Delivered(s)
  BY <1>9, Zenon
<1> QED BY <1>3, <1>4, <1>6, <1>7, <1>8, <1>10, Zenon DEF ThePipe!End

\* Whatever drops the tasks of a side comes with or after a failure.
LEMMA BreakMaps ==
    ASSUME TunnelInv, NEW s \in Side, st' = Aborted(s), failures' > 0
    PROVE  ThePipe!Break
<1>1. st \in [Side -> End]
  BY DEF TunnelInv, TypeOK, End
<1>2. /\ st'[s].finOut = TRUE
      /\ \A t \in Side \ {s} : st'[t] = st[t]
      /\ \A t \in Side : /\ st'[t].written = st[t].written
                         /\ st'[t].finIn = st[t].finIn
                         /\ st'[t].got = st[t].got /\ st'[t].out = st[t].out
  BY <1>1, SMTT(20) DEF End, Aborted
<1>3. \A t \in Side : st[t].finOut \in BOOLEAN
  BY <1>1 DEF End
<1>4. \E S \in SUBSET Side :
        [t \in Side |-> st[t].finOut]'
          = [t \in Side |-> [u \in Side |-> st[u].finOut][t] \/ t \in S]
  <2>1. {s} \in SUBSET Side
    OBVIOUS
  <2>2. \A t \in Side : st'[t].finOut = (st[t].finOut \/ t \in {s})
    <3>1. \A t \in Side \ {s} : st'[t].finOut = st[t].finOut
      BY <1>2
    <3> QED BY <1>2, <1>3, <3>1, Zenon
  <2>3. [t \in Side |-> st[t].finOut]'
          = [t \in Side |-> [u \in Side |-> st[u].finOut][t] \/ t \in {s}]
    BY <2>2
  <2> QED BY <2>1, <2>3, Zenon
<1>5. /\ [t \in Side |-> st[t].written]' = [t \in Side |-> st[t].written]
      /\ [t \in Side |-> st[t].finIn]' = [t \in Side |-> st[t].finIn]
      /\ [t \in Side |-> Delivered(t)]' = [t \in Side |-> Delivered(t)]
      /\ (failures > 0)' = TRUE
  BY <1>2, Zenon DEF Delivered
<1> QED BY <1>4, <1>5, SMTT(20) DEF ThePipe!Break

\* write_all hands the next bytes over.
LEMMA FlushMaps ==
    ASSUME TunnelInv, NEW s \in Side, NEW pc \in {"early", "write"},
           FlushOf(s, pc)
    PROVE  ThePipe!Deliver(s, Peer(s))
<1>1. PICK e, p, ok : Ends(s, e, p, ok)
  BY EndsOf
<1>2. /\ e \in End /\ p \in End /\ e = st[s] /\ st \in [Side -> End] /\ Own(e)
      /\ Direction(p, e, ok) /\ p = st[Peer(s)]
  BY <1>1 DEF Ends
<1>3. PICK n \in 1 .. Size(e.pt) : Flush(s, pc, n)
  BY <1>2 DEF FlushOf, Size
<1>4. PICK e2, x : /\ e2 \in End /\ st' = [st EXCEPT ![s] = e2]
                   /\ Flushed(e, e2, pc, n, x)
  BY <1>2, <1>3, FlushUpdate
<1>5. failures' = failures
  BY <1>3 DEF Flush, Move
<1>6. e.down \in {"early", "write"}
  BY <1>2, Zenon DEF FlushOf, Own, Unstarted
<1>7. /\ e2 \in End
      /\ e2.down \in {"read", pc} /\ e2.written = e.written
      /\ e2.opened = e.opened /\ e2.got = e.got
      /\ Splits(e.pt, n, x, e2.pt) /\ Joins(e.out, x, e2.out)
      /\ e2.finIn = e.finIn /\ e2.finOut = e.finOut
  BY <1>4 DEF Flushed
<1>8. Live(e) /\ Live(e2) /\ "ack" \notin {e.down, e2.down}
  BY <1>6, <1>7 DEF Live, Unstarted
<1>9. Direction(p, e2, ok) /\ Size(e2.out) = Size(e.out) + n
  <2>1. Direction(p, e2, ok)
    BY <1>2, <1>7, <1>8, ReceiverFlushes
  <2>2. Grows(e, e2, n)
    BY <1>2, <1>7, <1>8, ReceiverFlushes, Zenon
  <2> QED BY <2>1, <2>2 DEF Grows
<1>10. InOrder(p, e) /\ InOrder(p, e2)
  BY <1>2, <1>9 DEF Direction
<1>11. PICK k \in Nat : /\ k = Size(e.got) + Size(e.out)
                        /\ e.got \o e.out = FirstBytes(k)
  BY <1>2, <1>10, HandedOver, Zenon
<1>12. PICK k2 \in Nat : /\ k2 = Size(e2.got) + Size(e2.out)
                         /\ k2 <= p.written
                         /\ e2.got \o e2.out = FirstBytes(k2)
  BY <1>2, <1>7, <1>10, HandedOver, Zenon
<1>13. k2 \in Len(e.got \o e.out) + 1 .. p.written
  <2>1. Size(e.got) \in Nat /\ Size(e.out) \in Nat /\ p.written \in Nat
        /\ Size(e.pt) \in Nat
    <3>1. Typed(e) /\ Typed(p)
      BY <1>2, EndFields, SMTT(20)
    <3> QED BY <3>1 DEF Typed
  <2>2. k2 = k + n
    <3>1. Size(e2.got) = Size(e.got) /\ Size(e2.out) = Size(e.out) + n
      BY <1>7, <1>9, Zenon
    <3>2. n \in Nat
      BY <2>1
    <3> QED BY <1>11, <1>12, <2>1, <3>1, <3>2, SMTT(20)
  <2>3. Len(FirstBytes(k)) = k
    BY DEF FirstBytes
  <2>4. Len(e.got \o e.out) = k
    BY <1>11, <2>3, SMTT(20)
  <2> QED BY <1>12, <2>1, <2>2, <2>4, SMTT(20)
<1>14. ~e.finOut
  BY <1>2, <1>6 DEF Own
<1>15. st'[s] = e2 /\ \A t \in Side \ {s} : st'[t] = st[t]
  BY <1>2, <1>4, SMTT(20)
<1>16. \A t \in Side : /\ st'[t].written = st[t].written
                       /\ st'[t].finIn = st[t].finIn
                       /\ st'[t].finOut = st[t].finOut
  BY <1>2, <1>7, <1>15
<1>17. [t \in Side |-> Delivered(t)]'
         = [[t \in Side |-> Delivered(t)] EXCEPT ![s] = [i \in 1 .. k2 |-> i]]
  <2>1. Delivered(s)' = [i \in 1 .. k2 |-> i]
    BY <1>12, <1>15, Zenon DEF Delivered, FirstBytes
  <2>2. \A t \in Side \ {s} : Delivered(t)' = Delivered(t)
    BY <1>15, Zenon DEF Delivered
  <2> QED BY <2>1, <2>2, Zenon
<1>18. [t \in Side |-> Delivered(t)][s] = e.got \o e.out
  BY <1>2, Zenon DEF Delivered
<1>19. /\ [t \in Side |-> st[t].written]' = [t \in Side |-> st[t].written]
       /\ [t \in Side |-> st[t].finIn]' = [t \in Side |-> st[t].finIn]
       /\ [t \in Side |-> st[t].finOut]' = [t \in Side |-> st[t].finOut]
  BY <1>16
<1>20. (failures > 0)' = (failures > 0)
  BY <1>5
<1>21. /\ [t \in Side |-> st[t].written][Peer(s)] = p.written
       /\ ~[t \in Side |-> st[t].finOut][s]
  BY <1>2, <1>14, Peers
<1> QED BY <1>13, <1>17, <1>18, <1>19, <1>20, <1>21, ZenonT(40)
     DEF ThePipe!Deliver

LEMMA PipeInit == Init => ThePipe!Init
<1> SUFFICES ASSUME Init PROVE ThePipe!Init
  OBVIOUS
<1>1. TunnelInv
  BY TunnelInit, SMTT(20)
<1>2. st \in [Side -> End]
  BY <1>1, SMTT(20) DEF TunnelInv, TypeOK, End
<1>3. \A s \in Side : /\ st[s].written \in Nat
                      /\ st[s].finIn = FALSE /\ st[s].finOut = FALSE
                      /\ st[s].got = <<>> /\ st[s].out = <<>>
  <2>1. \A s \in Side : st[s].written \in Nat
    <3>1. \A s \in Side : Typed(st[s])
      BY <1>2, EndFields
    <3> QED BY <3>1 DEF Typed
  <2> QED BY <2>1 DEF Init
<1>4. \A s \in Side : Delivered(s) = <<>>
  <2>1. <<>> \o <<>> = <<>>
    OBVIOUS
  <2> QED BY <1>3, <2>1 DEF Delivered
<1>5. (failures > 0) = FALSE
  BY DEF Init
<1> QED BY <1>3, <1>4, <1>5, Zenon DEF ThePipe!Init

LEMMA PipeStep == TunnelInv /\ [Next]_vars => [ThePipe!Next]_(ThePipe!vars)
<1> SUFFICES ASSUME TunnelInv, [Next]_vars
             PROVE  ThePipe!Next \/ UNCHANGED ThePipe!vars
  OBVIOUS
<1>0. \A s \in Side : Peer(s) \in Side /\ s # Peer(s)
  BY Peers, SMTT(20)
<1>1. failures \in 0 .. MaxFailures /\ "client" \in Side /\ MaxFailures \in Nat
  BY ForwardAssumption DEF TunnelInv, TypeOK, Side
<1>2. ASSUME NEW s \in Side, st' = Aborted(s), failures' > 0
      PROVE  ThePipe!Next
  BY <1>2, BreakMaps DEF ThePipe!Next
<1>3. CASE server_accept \/ ConnectTarget
  BY <1>1, <1>3, UpUnseen, UnseenStutters
<1>4. ASSUME NEW s \in Side, Write(s) \/ CloseWrite(s) \/ Read(s)
      PROVE  ThePipe!Next \/ UNCHANGED ThePipe!vars
  BY <1>4, WriteMaps, CloseMaps, ReadStutters DEF ThePipe!Next
<1>5. ASSUME NEW s \in Side, WriteEarly(s) PROVE ThePipe!Next
  <2>1. FlushOf(s, "early")
    BY <1>5 DEF WriteEarly, FlushOf
  <2>2. ThePipe!Deliver(s, Peer(s))
    BY <2>1, FlushMaps
  <2> QED BY <1>0, <2>2 DEF ThePipe!Next
<1>6. ASSUME NEW s \in Side, up_task(s)
      PROVE  ThePipe!Next \/ UNCHANGED ThePipe!vars
  <2>1. CASE UpWriteGone(s) /\ Move(Aborted(s))
    <3>1. st' = Aborted(s) /\ failures' = failures
      BY <2>1 DEF Move
    <3>2. failures # 0
      BY <2>1, GoneFailed DEF UpWriteGone
    <3>3. failures' > 0
      BY <1>1, <3>1, <3>2
    <3> QED BY <1>2, <3>1, <3>3
  <2>2. CASE ~(UpWriteGone(s) /\ Move(Aborted(s)))
    <3>1. Unseen
      BY <1>6, <2>2, UpUnseen DEF up_task
    <3> QED BY <3>1, UnseenStutters
  <2> QED BY <2>1, <2>2
<1>7. ASSUME NEW s \in Side, down_task(s)
      PROVE  ThePipe!Next \/ UNCHANGED ThePipe!vars
  <2>1. CASE DownWrite(s)
    <3>1. FlushOf(s, "write")
      BY <2>1 DEF DownWrite, FlushOf
    <3>2. ThePipe!Deliver(s, Peer(s))
      BY <3>1, FlushMaps
    <3> QED BY <1>0, <3>2 DEF ThePipe!Next
  <2>2. CASE DownShutdown(s) \/ DownAckEof(s)
    <3>1. ThePipe!End(s, Peer(s))
      BY <2>2, EndMaps
    <3> QED BY <1>0, <3>1 DEF ThePipe!Next
  <2>3. CASE DownAck(s) \/ DownRead(s) \/ DownEof(s)
    BY <2>3, DownUnseen, UnseenStutters
  <2> QED BY <1>7, <2>1, <2>2, <2>3 DEF down_task
<1>8. ASSUME NEW s \in Side, Fail(s) \/ PeerReset(s)
      PROVE  ThePipe!Next
  <2>1. st' = Aborted(s)
    BY <1>8 DEF Fail, PeerReset, Move
  <2>2. failures' > 0
    <3>1. CASE Fail(s)
      BY <1>1, <3>1 DEF Fail
    <3>2. CASE PeerReset(s)
      <4>1. failures' = failures /\ failures # 0
        BY <3>2, PeerResetFailed DEF PeerReset, Move
      <4> QED BY <1>1, <4>1
    <3> QED BY <1>8, <3>1, <3>2
  <2> QED BY <1>2, <2>1, <2>2
<1>9. CASE UNCHANGED vars
  <2>1. Unseen
    BY <1>9 DEF vars, Unseen
  <2> QED BY <2>1, UnseenStutters
<1> QED BY <1>3, <1>4, <1>5, <1>6, <1>7, <1>8, <1>9, SMTT(20) DEF Next

\* PipeSpec: with early data, the ack, half-closes, the bounded buffers and
\* the failures in between, the two programs at the ends of forward() see what
\* a pair of byte streams shows them; in particular every byte that is handed
\* over is the next one its peer wrote.
THEOREM TunnelIsAPipe == Spec => PipeSpec
<1>1. Spec => ThePipe!Init
  BY PipeInit, PTL DEF Spec
<1>2. Spec => [][ThePipe!Next]_(ThePipe!vars)
  BY PipeStep, TunnelHolds, PTL DEF Spec
<1> QED BY <1>1, <1>2, PTL DEF PipeSpec, ThePipe!Spec
=============================================================================
