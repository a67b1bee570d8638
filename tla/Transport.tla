----------------------------- MODULE Transport ------------------------------
(***************************************************************************)
(* ort-net/src/transport.rs over ort-proto/src/frame.rs: a FramedWriter    *)
(* and a FramedReader at the two ends of one direction of a TCP            *)
(* connection.  The connection delivers the bytes in order, in fragments   *)
(* of any size; it ends after what was written, or inside the last frame   *)
(* when the writing task is dropped in write_all, or fails.  A byte is the *)
(* number of the frame it belongs to; the prefix of frame k says size[k].  *)
(***************************************************************************)
EXTENDS Integers, Sequences, FiniteSets

CONSTANTS
    Size,                \* the body sizes that are written
    MAX_FRAME,           \* the largest size parse_len admits
    PrefixLen,           \* bytes of the length prefix
    MaxFrames            \* bound on the number of frames written

ASSUME SizeAssumption ==
    /\ Size \subseteq Nat
    /\ MAX_FRAME \in Nat
    /\ PrefixLen \in Nat \ {0}
    /\ MaxFrames \in Nat

VARIABLES
    size,                \* the body sizes of the frames written so far
    wire,                \* the bytes the connection carries
    arrived,             \* how many of them the reader can see
    closed,              \* no more bytes will come
    consumed,            \* how many bytes the reader has taken
    pc,                  \* "prefix", "body", or how the reader ended:
                         \* "none", "invalid", "eof" or "error"
    need,                \* the length of the body being read
    bodies               \* the frame bodies read_frame has returned

vars == <<size, wire, arrived, closed, consumed, pc, need, bodies>>

Init ==
    /\ size = <<>>
    /\ wire = <<>>
    /\ arrived = 0
    /\ closed = FALSE
    /\ consumed = 0
    /\ pc = "prefix"
    /\ need = 0
    /\ bodies = <<>>

-----------------------------------------------------------------------------
\* encode_framed: prefix and body of frame k, as bytes.
encode_framed(k, n) == [i \in 1 .. PrefixLen + n |-> k]

\* write_frame: the whole frame is handed to the connection.  The writer does
\* not compare the size with MAX_FRAME.
write_frame(n) ==
    /\ ~closed
    /\ Len(size) < MaxFrames
    /\ size' = Append(size, n)
    /\ wire' = wire \o encode_framed(Len(size) + 1, n)
    /\ UNCHANGED <<arrived, closed, consumed, pc, need, bodies>>

\* FramedWriter::shutdown, or the writer is dropped: what was written still
\* arrives.
shutdown ==
    /\ ~closed
    /\ closed' = TRUE
    /\ UNCHANGED <<size, wire, arrived, consumed, pc, need, bodies>>

\* The writing task is dropped while write_all is handing over the last
\* frame: the stream ends inside it, after the bytes that have arrived.
Cut ==
    /\ ~closed
    /\ size # <<>>
    /\ closed' = TRUE
    /\ \E n \in arrived .. Len(wire) - 1 :
          /\ Len(wire) - n <= PrefixLen + size[Len(size)]
          /\ wire' = SubSeq(wire, 1, n)
    /\ UNCHANGED <<size, arrived, consumed, pc, need, bodies>>

\* TCP: some more bytes become readable.
Arrive ==
    /\ \E n \in arrived + 1 .. Len(wire) : arrived' = n
    /\ UNCHANGED <<size, wire, closed, consumed, pc, need, bodies>>

-----------------------------------------------------------------------------
Available == arrived - consumed

AtEof == closed /\ arrived = Len(wire)

\* Faulty variant: the size is not compared with MAX_FRAME.
parse_len_unchecked(k) == TRUE

\* parse_len of the prefix of frame k returns Ok.
parse_len(k) == size[k] <= MAX_FRAME

\* read_exact fills len_buf.
ReadPrefix ==
    /\ pc = "prefix"
    /\ Available >= PrefixLen
    /\ LET k == wire[consumed + 1]
       IN  IF parse_len(k)
             THEN pc' = "body" /\ need' = size[k]
             ELSE pc' = "invalid" /\ need' = 0
    /\ consumed' = consumed + PrefixLen
    /\ UNCHANGED <<size, wire, arrived, closed, bodies>>

\* Faulty variant: the end of the stream is tested before what is still
\* buffered is read.
ReadPrefixEofEarly ==
    /\ pc = "prefix"
    /\ closed
    /\ pc' = "none"
    /\ UNCHANGED <<size, wire, arrived, closed, consumed, need, bodies>>

\* read_exact meets the end of the stream with fewer than PrefixLen bytes
\* left: read_frame returns Ok(None), however many there are.
ReadPrefixEof ==
    /\ pc = "prefix"
    /\ AtEof
    /\ Available < PrefixLen
    /\ pc' = "none"
    /\ UNCHANGED <<size, wire, arrived, closed, consumed, need, bodies>>

\* Faulty variant: a single read instead of read_exact, which may return
\* fewer bytes than asked for.
ReadBodyShort ==
    /\ pc = "body"
    /\ Available > 0
    /\ LET n == IF Available < need THEN Available ELSE need
       IN  /\ bodies' = Append(bodies, SubSeq(wire, consumed + 1, consumed + n))
           /\ consumed' = consumed + n
    /\ pc' = "prefix"
    /\ need' = 0
    /\ UNCHANGED <<size, wire, arrived, closed>>

\* read_exact fills the body.
ReadBody ==
    /\ pc = "body"
    /\ Available >= need
    /\ bodies' = Append(bodies, SubSeq(wire, consumed + 1, consumed + need))
    /\ consumed' = consumed + need
    /\ pc' = "prefix"
    /\ need' = 0
    /\ UNCHANGED <<size, wire, arrived, closed>>

\* Faulty variant: a read of no bytes inside the body is tried again.
ReadBodyEofRetries ==
    /\ pc = "body"
    /\ AtEof
    /\ Available < need
    /\ UNCHANGED vars

\* read_exact meets the end of the stream inside the body: Err.
ReadBodyEof ==
    /\ pc = "body"
    /\ AtEof
    /\ Available < need
    /\ pc' = "eof"
    /\ UNCHANGED <<size, wire, arrived, closed, consumed, need, bodies>>

read_frame == ReadPrefix \/ ReadPrefixEof \/ ReadBody \/ ReadBodyEof

\* read_exact fails with another error, a reset for instance: Err.
ReadError ==
    /\ pc \in {"prefix", "body"}
    /\ pc' = "error"
    /\ UNCHANGED <<size, wire, arrived, closed, consumed, need, bodies>>

Next ==
    \/ \E n \in Size : write_frame(n)
    \/ shutdown
    \/ Cut
    \/ Arrive
    \/ read_frame
    \/ ReadError

\* The kernel delivers what it has, and the reading task is scheduled again
\* when it can make progress.  Nothing forces the writer to write or close.
Spec == Init /\ [][Next]_vars /\ WF_vars(Arrive) /\ WF_vars(read_frame)

-----------------------------------------------------------------------------
\* Type invariant of the transport.
TypeOK ==
    /\ size \in Seq(Size)
    /\ wire \in Seq(1 .. MaxFrames)
    /\ arrived \in 0 .. Len(wire)
    /\ closed \in BOOLEAN
    /\ consumed \in 0 .. arrived
    /\ pc \in {"prefix", "body", "none", "invalid", "eof", "error"}
    /\ need \in {0} \cup {n \in Size : n <= MAX_FRAME}
    /\ bodies \in Seq(Seq(1 .. MaxFrames))

\* The first n bytes of the stream hold this many bytes of frame k.
BytesOf(k, n) == Cardinality({i \in 1 .. n : wire[i] = k})

\* Whatever the fragmentation and wherever the stream is cut, the bodies
\* read_frame returns are the bodies written, in order and complete.
BodiesIntact ==
    \A k \in DOMAIN bodies : bodies[k] = [i \in 1 .. size[k] |-> k]

\* When read_frame returns None, no frame of which at least the prefix came
\* through is missing: a stream cut in a body is an error, never an end.
NoneHidesNoPrefix ==
    pc = "none" =>
        \A k \in DOMAIN size :
            k > Len(bodies) => BytesOf(k, Len(wire)) < PrefixLen

\* read_frame returns None only "on a clean end-of-stream": no byte of an
\* unfinished frame is left over.
NoneOnlyWhenClean ==
    pc = "none" =>
        \A k \in DOMAIN size :
            k > Len(bodies) => BytesOf(k, Len(wire)) = 0

\* A frame that has arrived completely, behind frames parse_len admits, is
\* returned, even if the stream stays open or is cut after it, unless the
\* connection fails.
ArrivedIsReturned ==
    \A k \in 1 .. MaxFrames :
        (/\ k <= Len(size)
         /\ \A j \in 1 .. k : size[j] <= MAX_FRAME
         /\ BytesOf(k, arrived) = PrefixLen + size[k])
            ~> (Len(bodies) >= k \/ pc = "error")

\* Once the stream is closed the reader comes to an end.
ReaderEnds == closed ~> pc \in {"none", "invalid", "eof", "error"}
=============================================================================
