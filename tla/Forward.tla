------------------------------- MODULE Forward ------------------------------
(***************************************************************************)
(* ort-net/src/forward.rs: the two forward() calls of one tunnel, the      *)
(* client's between the local program and the tunnel, the server's between *)
(* the tunnel and the target, with the end of server_accept and the        *)
(* connect of run_server before the latter.  Each runs an up task (plain   *)
(* to tunnel) and a down task (tunnel to plain) under try_join!, and a     *)
(* step goes from one socket operation to the next: the futures of a       *)
(* try_join! are polled in turn, so between two of them nothing else of    *)
(* the same forward() runs.  Sockets are bounded FIFO buffers with an      *)
(* end-of-stream mark, and frames come out whole (Transport).  Of the      *)
(* record layer the model keeps the counters: a record opens when it is    *)
(* the one the receiver's pool has reached (RecordLayer, NextRecordOpens). *)
(***************************************************************************)
EXTENDS Integers, Sequences

CONSTANTS
    CHUNK,               \* the size of the read buffer
    PlainCap, TunnelCap, \* what the kernel buffers of a plain socket (bytes)
                         \* and of one tunnel direction (frames) hold
    MaxEarly,            \* bounds: the early data, what the programs at the
    MaxUp, MaxDown,      \* client and at the server write in all, failures
    MaxFailures

ASSUME ForwardAssumption ==
    /\ {CHUNK, PlainCap, TunnelCap} \subseteq Nat \ {0}
    /\ {MaxEarly, MaxUp, MaxDown, MaxFailures} \subseteq Nat
    /\ MaxEarly <= MaxUp

Side == {"client", "server"}

VARIABLES
    zero_rtt,            \* the client opened with 0-RTT and expects the ack
    st,                  \* the two ends of the tunnel, see Init
    failures             \* how many failures happened

vars == <<zero_rtt, st, failures>>

Peer(s) == CHOOSE p \in Side : p # s

MaxBytes(s) == IF s = "client" THEN MaxUp ELSE MaxDown

FirstBytes(n) == [i \in 1 .. n |-> i]

DataRecord(n, bytes) == [type |-> "DataRecord", seq |-> n, data |-> bytes]
Signal(t) == [type |-> t, seq |-> 0, data |-> <<>>]

\* Faulty variant: empty early data is not sealed.
EarlyRecordsIfAny(early) == IF early = 0 THEN 0 ELSE 1

\* The handshake seals the early data, be it empty, as record 0 of the
\* client's direction: the pool forward() starts from has moved on by one.
EarlyRecords(early) == 1

\* early_to_plain is what the client passed as early data; run_client passes
\* none, other callers of client_open may.
Init ==
    /\ zero_rtt \in BOOLEAN
    /\ \E early \in 0 .. MaxEarly :
       st = [s \in Side |->
         [written   |-> IF s = "client" THEN early ELSE 0,
          finIn     |-> FALSE,     \* the program closed its sending half
          pending   |-> <<>>,      \* written and not yet read by up
          up        |-> IF s = "client" THEN "read" ELSE "accept",
          buf       |-> <<>>,      \* the bytes up holds
          sealed    |-> IF s = "client" THEN 1 ELSE 0,
          tunnel    |-> <<>>,      \* frames sent and not yet read
          finTunnel |-> FALSE,
          down      |-> IF s = "server" THEN "accept"
                        ELSE IF zero_rtt THEN "ack" ELSE "read",
          opened    |-> IF s = "server" THEN EarlyRecords(early) ELSE 0,
          pt        |-> IF s = "server" THEN FirstBytes(early) ELSE <<>>,
          out       |-> <<>>,      \* written to the plain socket
          finOut    |-> FALSE,
          got       |-> <<>>]]     \* what the program has read
    /\ failures = 0

Move(new) == st' = new /\ UNCHANGED <<zero_rtt, failures>>

-----------------------------------------------------------------------------
(* The programs at the two ends.                                           *)

Connected(s) == st[s].up \notin {"accept", "connect"}

\* Both halves of the sockets of side s have been dropped.
Gone(s) == {st[s].up, st[s].down} \subseteq {"done", "aborted"}

Write(s) ==
    /\ Connected(s) /\ ~Gone(s) /\ ~st[s].finIn
    /\ st[s].written < MaxBytes(s)
    /\ Len(st[s].pending) < PlainCap
    /\ Move([st EXCEPT ![s].written = @ + 1,
                       ![s].pending = Append(@, st[s].written + 1)])

CloseWrite(s) ==
    /\ Connected(s) /\ ~st[s].finIn
    /\ Move([st EXCEPT ![s].finIn = TRUE])

Read(s) ==
    /\ st[s].out # <<>>
    /\ Move([st EXCEPT ![s].got = @ \o st[s].out, ![s].out = <<>>])

-----------------------------------------------------------------------------
(* How a forward() or the task around it ends early.                       *)

\* One task returned Err: try_join! drops the other one, and dropping the
\* write halves ends both outgoing streams after what they hold.
Aborted(s) == [st EXCEPT ![s].up = "aborted", ![s].down = "aborted",
                         ![s].buf = <<>>, ![s].pt = <<>>,
                         ![s].finTunnel = TRUE, ![s].finOut = TRUE]

\* An error no other action stands for: an I/O error of a socket, a rejected
\* handshake, a failed connect to the target, the end of the process.
Fail(s) ==
    /\ ~Gone(s)
    /\ failures < MaxFailures
    /\ failures' = failures + 1
    /\ st' = Aborted(s)
    /\ UNCHANGED zero_rtt

\* The peer closed its socket before reading all of it: a reset.
PeerReset(s) == ~Gone(s) /\ st[Peer(s)].down = "aborted" /\ Move(Aborted(s))

-----------------------------------------------------------------------------
(* The server before its forward().                                        *)

\* server_accept returns, after it wrote the ack of a 0-RTT handshake.
server_accept ==
    /\ st["server"].up = "accept"
    /\ Move([st EXCEPT !["server"].up = "connect",
                       !["server"].down = "connect",
                       !["server"].tunnel =
                            IF zero_rtt THEN <<Signal("ServerAck")>> ELSE @])

\* Faulty variant: down starts while the early data is still being written.
StartsAtOnce(s) == [up |-> IF st[s].pt = <<>> THEN "read" ELSE "early",
                    down |-> "read"]

\* forward() starts its two tasks once the early data is written.
Starts(s) == LET pc == IF st[s].pt = <<>> THEN "read" ELSE "early"
             IN  [up |-> pc, down |-> pc]

\* TcpStream::connect(target) succeeds and forward() is called.
ConnectTarget ==
    /\ st["server"].up = "connect"
    /\ Move([st EXCEPT !["server"].up = Starts("server").up,
                       !["server"].down = Starts("server").down])

-----------------------------------------------------------------------------
(* plain -> tunnel                                                         *)

\* Faulty variant: the mutex guard lives until the write is done.
RecordHeldWhileWriting(s) == "write" \notin {st[s].up, st[s].down}

\* record.lock().await returns: the guard is only held inside blocks without
\* an await, so no task is ever found holding it.
RecordFree(s) == TRUE

\* pr.read returns n > 0 bytes, which are sealed as the next record.
UpRead(s) ==
    /\ st[s].up = "read"
    /\ RecordFree(s)
    /\ \E n \in 1 .. Len(st[s].pending) :
          /\ n <= CHUNK
          /\ Move([st EXCEPT ![s].buf = SubSeq(st[s].pending, 1, n),
                             ![s].pending = SubSeq(@, n + 1, Len(@)),
                             ![s].sealed = @ + 1,
                             ![s].up = "write"])

\* pr.read returns 0.
UpEof(s) ==
    /\ st[s].up = "read"
    /\ st[s].finIn /\ st[s].pending = <<>>
    /\ Move([st EXCEPT ![s].up = "close"])

Room(s) == ~Gone(Peer(s)) /\ Len(st[s].tunnel) < TunnelCap

\* write_frame waits for room.
UpWrite(s) ==
    /\ st[s].up = "write"
    /\ Room(s)
    /\ Move([st EXCEPT
         ![s].tunnel = Append(@, DataRecord(st[s].sealed - 1, st[s].buf)),
         ![s].buf = <<>>,
         ![s].up = "read"])

\* The peer's socket is closed: the frame is lost, with or without an error.
UpWriteGone(s) ==
    /\ st[s].up = "write"
    /\ Gone(Peer(s))
    /\ \/ Move([st EXCEPT ![s].buf = <<>>, ![s].up = "read"])
       \/ Move(Aborted(s))

\* The Close frame; an error is ignored.
UpClose(s) ==
    /\ st[s].up = "close"
    /\ \/ /\ Room(s)
          /\ Move([st EXCEPT ![s].tunnel = Append(@, Signal("Close")),
                             ![s].up = "shutdown"])
       \/ /\ Gone(Peer(s))
          /\ Move([st EXCEPT ![s].up = "shutdown"])

UpShutdown(s) ==
    /\ st[s].up = "shutdown"
    /\ Move([st EXCEPT ![s].finTunnel = TRUE, ![s].up = "done"])

up_task(s) ==
    \/ UpRead(s) \/ UpEof(s) \/ UpWrite(s) \/ UpWriteGone(s)
    \/ UpClose(s) \/ UpShutdown(s)

-----------------------------------------------------------------------------
(* tunnel -> plain                                                         *)

\* Faulty variant: write instead of write_all; what did not fit is dropped.
WriteOnce(s, n) == <<>>

\* write_all keeps what the socket has not taken yet.
WriteAll(s, n) == SubSeq(st[s].pt, n + 1, Len(st[s].pt))

\* n bytes of pt fit into the plain socket; the task is at pc until none is
\* left.
Flush(s, pc, n) ==
    /\ n <= PlainCap - Len(st[s].out)
    /\ Move([st EXCEPT
         ![s].out = @ \o SubSeq(st[s].pt, 1, n),
         ![s].pt = WriteAll(s, n),
         ![s].down = IF WriteAll(s, n) = <<>> THEN "read" ELSE pc,
         ![s].up = IF WriteAll(s, n) = <<>> /\ @ = "early" THEN "read" ELSE @])

\* pw.write_all(&early_to_plain), before the two tasks start.
WriteEarly(s) ==
    /\ st[s].up = "early"
    /\ \E n \in 1 .. Len(st[s].pt) : Flush(s, "early", n)

\* pw.write_all(&pt)
DownWrite(s) ==
    /\ st[s].down = "write"
    /\ \E n \in 1 .. Len(st[s].pt) : Flush(s, "write", n)

Inbound(s) == st[Peer(s)].tunnel
InboundEnds(s) == Inbound(s) = <<>> /\ st[Peer(s)].finTunnel

\* read_frame returns a frame, the task goes on at pc holding bytes.
Take(s, pc, bytes) ==
    Move([st EXCEPT ![Peer(s)].tunnel = Tail(@),
                    ![s].down = pc, ![s].pt = bytes,
                    ![s].opened = IF pc = "write" THEN @ + 1 ELSE @])

\* The first frame of a 0-RTT client must be the ServerAck.
DownAck(s) ==
    /\ st[s].down = "ack"
    /\ Inbound(s) # <<>>
    /\ IF Head(Inbound(s)).type = "ServerAck" THEN Take(s, "read", <<>>)
                                              ELSE Move(Aborted(s))

\* The stream ends before the ack: down returns, and pw is dropped.
DownAckEof(s) ==
    /\ st[s].down = "ack"
    /\ InboundEnds(s)
    /\ Move([st EXCEPT ![s].down = "done", ![s].finOut = TRUE])

\* A record that is not the next one does not open, and any frame but a
\* record or a Close is unexpected.
DownRead(s) ==
    /\ st[s].down = "read"
    /\ Inbound(s) # <<>>
    /\ LET frame == Head(Inbound(s))
       IN  CASE frame.type = "DataRecord" /\ frame.seq = st[s].opened ->
                    RecordFree(s) /\ Take(s, "write", frame.data)
             [] frame.type = "Close" -> Take(s, "shutdown", <<>>)
             [] OTHER -> Move(Aborted(s))

\* Faulty variant: None is taken for "no frame yet", and the loop goes on.
DownEofRetries(s) ==
    /\ st[s].down = "read"
    /\ InboundEnds(s)
    /\ UNCHANGED vars

\* read_frame returns None: treated like a Close.
DownEof(s) ==
    /\ st[s].down = "read"
    /\ InboundEnds(s)
    /\ Move([st EXCEPT ![s].down = "shutdown"])

DownShutdown(s) ==
    /\ st[s].down = "shutdown"
    /\ Move([st EXCEPT ![s].finOut = TRUE, ![s].down = "done"])

down_task(s) ==
    \/ DownAck(s) \/ DownAckEof(s) \/ DownRead(s) \/ DownEof(s)
    \/ DownWrite(s) \/ DownShutdown(s)

-----------------------------------------------------------------------------
Next ==
    \/ server_accept \/ ConnectTarget
    \/ \E s \in Side :
          \/ Write(s) \/ CloseWrite(s) \/ Read(s)
          \/ WriteEarly(s) \/ up_task(s) \/ down_task(s)
          \/ Fail(s) \/ PeerReset(s)

\* The runtime polls a task that can go on, both tasks of a try_join! in
\* particular.  Nothing makes a program read, write or close, and nothing
\* makes a failure happen.
Fairness ==
    /\ WF_vars(server_accept) /\ WF_vars(ConnectTarget)
    /\ \A s \in Side : /\ WF_vars(WriteEarly(s))
                       /\ WF_vars(up_task(s))
                       /\ WF_vars(down_task(s))

Spec == Init /\ [][Next]_vars /\ Fairness

-----------------------------------------------------------------------------
Byte == 1 .. MaxUp + MaxDown
FrameSet == [type : {"DataRecord", "Close", "ServerAck"}, seq : Nat,
             data : Seq(Byte)]
Unstarted == {"accept", "connect", "early"}

\* Type invariant: in particular up and down of a side start together, after
\* the early data.
TypeOK ==
    /\ zero_rtt \in BOOLEAN
    /\ st \in [Side ->
         [written : {0} \cup Byte, finIn : BOOLEAN, pending : Seq(Byte),
          up : Unstarted \cup {"read", "write", "close", "shutdown", "done",
                               "aborted"},
          buf : Seq(Byte), sealed : Nat,
          tunnel : Seq(FrameSet), finTunnel : BOOLEAN,
          down : Unstarted \cup {"ack", "read", "write", "shutdown", "done",
                                 "aborted"},
          opened : Nat, pt : Seq(Byte),
          out : Seq(Byte), finOut : BOOLEAN, got : Seq(Byte)]]
    /\ \A s \in Side :
          {st[s].up, st[s].down} \cap Unstarted # {} => st[s].up = st[s].down
    /\ failures \in 0 .. MaxFailures

\* What has been handed to the program at s.
Delivered(s) == st[s].got \o st[s].out

\* forward() ends the stream of a program only after every byte the other
\* program wrote, and after that one closed: a stream cut short is the work
\* of a failure, also when one side has long finished sending, when the ack
\* is outstanding, or when Close and the end of the stream race.
EofMeansComplete ==
    \A s \in Side :
        (st[s].finOut /\ failures = 0) =>
            /\ st[Peer(s)].finIn
            /\ Delivered(s) = FirstBytes(st[Peer(s)].written)

\* The program at s keeps reading.
KeepsReading(s) == []<>(st[s].out = <<>>)

\* Every byte written reaches a program that keeps reading, whatever the
\* other direction does: full, stalled by a program that does not read, or
\* closed.
EveryByteArrives ==
    \A s \in Side : KeepsReading(s) => \A n \in 1 .. MaxBytes(Peer(s)) :
        (st[Peer(s)].written >= n) ~> (Len(st[s].got) >= n \/ failures > 0)

\* When the programs read, and the program at s has closed, and the other
\* one too or the other end is gone, forward() at s returns: no task and no
\* socket is left behind.
ForwardReturns ==
    (\A s \in Side : KeepsReading(s)) =>
    \A s \in Side :
        (st[s].finIn /\ (st[Peer(s)].finIn \/ Gone(Peer(s)))) ~> Gone(s)

ThePipe == INSTANCE Pipe
    WITH written <- [s \in Side |-> st[s].written],
         closed <- [s \in Side |-> st[s].finIn],
         got <- [s \in Side |-> Delivered(s)],
         ended <- [s \in Side |-> st[s].finOut], broken <- (failures > 0)

\* The tunnel is a pipe: with try_join!, half-closes, early data and the
\* bounded buffers in between, the two programs see what Pipe allows.
PipeSpec == ThePipe!Spec
=============================================================================
