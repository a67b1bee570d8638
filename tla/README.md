# ORT in TLA+

ORT tunnels TCP connections between `ortc` (client, next to the local program)
and `ortd` (server, next to the target) with a post-quantum handshake of zero or
one round trips. This directory holds TLA+ models of the parts of ORT whose
correctness depends on order, time or failure, TLC configurations that check
them on small instances, and TLAPS proofs of the central ones for all instances.

## The system

| part | source (`src/crates/`) | state | operations |
|---|---|---|---|
| replay gate | `ort-core` `handshake/server.rs`, `replay.rs`, `time.rs` | strike cache (tag, arrival time), clock | `process_payload` = address, window, signature, strike cache, open |
| handshake payload | `ort-core` `handshake/client.rs`, `connmeta.rs`, `kdf.rs` | none | `build_payload`, binding signature, key derivation |
| record layer | `ort-core` `record.rs`, `pool.rs` | per peer and direction: hash state, counter | `seal`, `open` |
| framed transport | `ort-net` `transport.rs`, `ort-proto` `frame.rs` | byte stream position | `write_frame`, `read_frame`, `shutdown` |
| forwarding | `ort-net` `forward.rs` | two tasks per side, socket buffers, record mutex | the `up` and `down` loops, `try_join!` |
| session driver | `ort-net` `session.rs`, `cert.rs` | two tasks per connection | `client_open`, `server_accept`, `verify` |
| daemons | `ort-net` `run.rs` | the shared pin, the shared strike cache | `run_client`, `run_server` |
| key files | `ortd` `main.rs`, `ortc` `main.rs`, `ort-cli` | four files of `ortd`, one of `ortc` | `gen-key`, `gen-cert`, `run`, start of `ortc` |
| wire codec | `ort-proto` `codec.rs`, `messages.rs` | none | `encode`, `decode` |
| cipher suite | `ort-core` `suite/` | none | KEM, signature, AEAD, KDF, hash |

How they interact. `run_client` spawns a task per local connection: it connects
to `ortd`, reads the pin, runs `client_open`, stores the pin if there is none and
enters `forward`. `run_server` spawns a task per tunnel connection: it runs
`server_accept`, which calls `process_payload` under the strike mutex shared by
all tasks, connects to the target and enters `forward`. Both `forward` calls use
the record layer of the session over the framed transport.

What is hard to test here: flights that are duplicated, late or altered while
other tasks evict the cache; eviction and admission that use different clocks;
restarts that lose the cache or change the key while clients hold a pin; records
that fail to open; streams that end inside a frame; four tasks over six bounded
buffers with half-closes; a task that is dropped between two awaits; commands
that stop between two file writes, or run while a daemon starts; two first
starts on one key file; frames whose length fields and bytes disagree.
`PROJECT.json` lists these hazards with the lines where they bite and the
properties that watch them.

## Modules

| module | models | kind |
|---|---|---|
| `Time` | `check_window`, saturating milliseconds | operators |
| `StrikeCache` | `StrikeCache` | state and operations |
| `Payload` | payload, binding, key schedule over ideal primitives | operators |
| `ServerPayload` | `process_payload`; extends the three above | state machine |
| `AtMostOnce` | what the gate promises | abstract specification |
| `MCServerPayload` | the flights TLC uses | instance |
| `ServerPayloadProofs` | theorems on `ServerPayload` | proofs |
| `ServerTasks` | the connection tasks around the strike mutex; extends `ServerPayload` and implements it | state machine |
| `MCServerTasks` | the flights TLC uses | instance |
| `ServerTasksProofs` | theorems on `ServerTasks` | proofs |
| `RecordLayer` | `RecordLayer`, `EntropyPool`, `DirPool` of both peers | state machine |
| `FifoChannel` | what the record layer promises | abstract specification |
| `RecordLayerProofs` | theorems on `RecordLayer` | proofs |
| `Transport` | `FramedReader`, `FramedWriter` | state machine |
| `TransportProofs` | theorems on `Transport` | proofs |
| `Codec` | `Writer`, `Reader`, `Frame::encode`, `Frame::decode` | operators, and a wire that damages them |
| `MCCodec` | widths and field values | instance |
| `CodecProofs` | theorems on `Codec` | proofs |
| `Forward` | both `forward` calls, sockets, programs | state machine |
| `Pipe` | what the tunnel promises the two programs | abstract specification |
| `ForwardDirection` | the invariant of one direction of `Forward`, and that `up` and `down` keep it | proofs |
| `ForwardProofs` | theorems on `Forward` | proofs |
| `ServerVerifier` | `ServerVerifier`, certificates | operators |
| `Session` | `client_open`, `server_accept`, pin, addresses, the ends of both daemons; extends `Payload` and `ServerVerifier` | state machine |
| `MCSession` | keys, certificates, options and addresses | instance |
| `KeyFiles` | `gen-key`, `gen-cert`, `run`, start of `ortc` on their files; extends `ServerVerifier` | state machine |
| `DaemonProofs` | theorems on `Session` and on `KeyFiles` | proofs |

Definitions have the names of the functions they model where there is one. An
operator marked *Faulty variant* stands before the definition it would replace;
it is not part of the model and shows that a property depends on that definition.

**ServerPayload.** One call of `process_payload` is one step: the caller holds the
strike mutex and the clock is read inside the call (`ServerTasks` shows that this
loses nothing). Checks that fail before the
strike cache change nothing and are no steps; `RejectReplay`,
`RejectUndecryptable` and `Accept` are the other outcomes. `Tick` and `SetBack`
move the wall clock, `Restart` is a new process with an empty cache. `accepted`
records when each flight was admitted by the running process, and `unopened` the
flights it recorded in the cache and then could not open. The flights are a
constant, and nothing is assumed of them but that their timestamps are times: in the
runs genuine ones built with `build_payload`, altered copies, and flights another
client signed around the nonce and early data of a genuine one, since `replay_tag`
covers neither the client's key nor the ciphertext. Any of them arrives any number of
times, from any address, at any time.

**ServerTasks.** The same state with the tasks that call: a task reads a frame with a
flight (`Receive`) or without one (`ReceiveHello`) and queues on the mutex. A hello is
answered with the mutex held and the cache left alone (`Greet`); with a flight the task
reads the clock once it holds the mutex (`Enter`) and goes through the checks, the strike cache and the opening as separate steps, between which
the clock moves, other flights arrive and the daemon may end. tokio's mutex is fair,
so the queue is first in, first out. The refinement mapping lets a call take effect
when it reads the clock.

**RecordLayer.** Ciphertexts are numbered and `ledger` says what went into each,
so that the hash state of a pool is the sequence of numbers it absorbed; all of them are
ciphertexts that were sealed, which is part of `TypeOK`. Any
number, including 0 for foreign bytes, may be presented to `open` at any time.

**Transport.** A byte is the number of its frame. `Arrive` makes any number of
further bytes visible, `Cut` ends the stream inside the last frame, which is what
dropping a task in `write_all` does, and `ReadError` is any other error.

**Codec.** `Written` and `Expected` are the layouts `encode` and `decode` use, kept
apart because the code writes them down twice; `Write` and `Read` are the `Writer` and
`Reader` calls of a field. A byte is a digit of a small base and the widths of the
integers and arrays are parameters; assumed of them are that a byte holds every
`FrameType`, that a `u8` is one byte, and that no field is longer than its prefix can
say, which `bytes16` asserts. The numbers of the frame types are there twice as well, as the
enum `encode` writes from (`FrameType`) and as the match `decode` uses (`from_u8`). A layout is written from, and read into, the sequence of its
values, and `Named` builds the fields of the frame from it. A frame is encoded and then
cut, run on or altered.

**Forward.** A step goes from one socket operation to the next; the statements in
between, the lock of the record mutex included, cannot be interrupted by the other
task of the same `try_join!`, which polls them in turn. `Aborted` is what `try_join!`
does when one task fails: both futures and with them all socket halves are dropped.
`Fail` stands for every error that no action derives, including a rejected handshake
and a failed connect to the target. Of the record layer the model keeps the counters,
starting with the record the handshake has used for the early data; that a record
opens exactly when it is the next one is what `RecordLayer` shows, and that frames
come out whole is shown by `Transport`.

**Session.** Connections race for one pin. Either daemon may end at any point (an error
of `accept` ends it, and so does a kill), which drops its connections; a new `ortd` may
come with any key and certificate, a new `ortc` has no pin. Addresses are modelled in
the form a socket reports them, because the flight is bound to the client's view of its
address and checked against the server's: directly over IPv4 to a dual-stack listener,
through an address translator, and with a socket that cannot tell. Timestamp and
strike cache are the business of `ServerPayload` and appear as `Refuse`.

**ServerVerifier.** A certificate is the record of what `verify` looks at: whether it
parses and is valid today, who signed it, and the key in its extension. The runs of
`Session` have servers with a certificate that is valid, expired, or of another key.

**KeyFiles.** `gen-key` and `gen-cert` run one at a time; each file is truncated, then
filled, and the command may stop in between. An `ortd` reads its key and its
certificate in two steps, at any time. Several `ortc`s may start on one key file
together: each looks whether it exists, and if not draws a key, truncates the file and
fills it, as steps of its own. `raced` records that two of them found no file before
either had written it; then each goes on with the key it drew, and `ClientKeyKept`
promises nothing. The n-th command draws key n.

## Runs

| run | configuration | shows |
|---|---|---|
| `gate_skew` | `ServerPayload_skew` | `NoReplayWithinWindow`, `OnceUnlessAhead`, `AcceptanceBound` until the clock is set back; `RefusalHasCause`, `CacheOnlyRecent` also after that |
| `gate_once` | `ServerPayload_once` | **violation** of `AcceptedAtMostOnce` |
| `server_tasks` | `ServerTasks` | tasks queueing on the strike mutex implement `ServerPayload` (`GateSpec`) and, as no skew is tolerated, `AtMostOnce` (`OnceSpec`); every flight and hello is answered |
| `record_layer` | `RecordLayer` | prefix delivery, nonce uniqueness, lock-step, finality of a failure, FIFO refinement |
| `transport` | `Transport` | frames intact, none hidden, arrived frames returned, reader ends |
| `transport_none` | `Transport_none` | **violation** of `NoneOnlyWhenClean` |
| `codec` | `Codec` | `decode` inverts `encode`; a body that is cut or runs on is refused; whatever is accepted is what `encode` makes of the result |
| `forward` | `Forward` | end of stream means complete, pipe refinement, both calls return |
| `forward_stalled` | `Forward_stalled` | a stalled direction does not stop the other |
| `session` | `Session` | key agreement, confirmation, pin and strict mode with connections racing and daemons ending; handshakes end, and succeed when nothing disturbs them |
| `key_files` | `KeyFiles` | certificates match and keys stay unless `gen-key` is used; client keys stay unless first starts of `ortc` race; `gen-cert` repairs what was left |
| `key_files_cert` | `KeyFiles_cert` | **violation** of `CertificateBindsKey` |

The three violations are disagreements between the code and what its comments
and SPEC.md say:

1. `replay.rs` evicts an entry `window_ms` after its *arrival*, while
   `check_window` admits the flight until `window_ms` after its *timestamp*, which
   may be up to `skew_ms` later. A flight stamped ahead of the server's clock can
   be admitted twice. `AcceptanceBound` says how often at most, and
   `OnceUnlessAhead` that this is the only way. With the defaults (window 2000,
   skew 1000) the bound is two.
2. `read_frame` answers `None` also after a partial length prefix.
3. After `gen-cert`, `gen-key`, `run` the server presents a certificate of its
   former key.

### Bounds

*Gate.* Time is 0..8 at most, saturating there like `u64` does at its maximum; the
window is 1 or 2 and the skew 0, 1 or 3, so that flights before, in, at the edge
of and after the window, entries at the edge of eviction, and several evictions
within one skew all occur. Two genuine flights of two clients; of one of them four
altered copies and two flights the other client signed with its nonce and early data,
one that opens and one that does not; and two server keys, one of which cannot open
any. The clock is set back at
most once while a process runs.
*Server tasks.* Two tasks, hellos, one flight that opens and one that does not, two addresses,
a window of 1 and time up to 5: a task waits while another one's call evicts, and a
copy comes after its entry was evicted.
*Record layer.* Two records sealed and three opens per direction: enough for a
reordering, a repetition, a reflection and an open after a failure.
*Transport.* Two frames with prefixes of four bytes and bodies of one, two or,
above the maximum, three bytes: every split of prefix and body occurs.
*Codec.* Base 8, a 16-bit length of one digit and a 32-bit length of two: fields that
are empty, as long as the prefix can say, and long enough to need its second digit;
one change to a body, of any byte to any other.
*Forward.* Two bytes from the client and one from the server, buffers of two bytes and
one frame, one byte of early data and one failure; in the stalled run four bytes over
buffers of one, enough to fill every buffer between a program and one that does not read.
*Session.* Two connections, two keys, five configurations of `ortd` (one with the
certificate of another key, one with an expired one), eight of `ortc`, and one trouble: a daemon that ends or a
refusal. A pin is read, changed and used by two connections, and a stale one is used
against a new `ortd`.
*Key files.* Five commands: `gen-cert` interrupted, repeated, and two starts around it;
two `ortc`s start together, one of them is interrupted, and later starts find the file.

`CHECK_DEADLOCK` is off where a system may stop: all records used up, all streams
ended, all connections finished, all commands run.

### Fairness

`Transport`: bytes that were sent arrive, and a reader that can go on is polled.
`Forward`: every task that can go on is polled (tokio wakes a future whose await is
ready, and `try_join!` polls both of its futures). Delivery and return are claimed for
programs that keep reading (`KeepsReading`, a premise of the properties).
`Session`: as long as some task can go on one is polled; no handshake has infinitely
many steps, so none starves. A dropped connection's end of stream is seen.
`ServerTasks`: each task that can go on is polled, and the mutex is handed over in
order. No program is assumed to write, close or connect, no daemon to be started
again, and no failure to happen or not to happen.

## Proofs

`ServerPayloadProofs`, for every window, skew, set of flights and range of time:

* `TypeCorrect`, and with the invariant `CacheInv` (every entry is the tag of a
  signed flight that the process admitted or could not open, and at most a window older
  than the last call) `CacheStaysRecent` and `RefusalsHaveCause` (`RefusalHasCause`).
  These hold also if the clock is set back.
* `ReplayGate` (`NoReplayWithinWindow`) and `ReplayNeedsSkew` (`OnceUnlessAhead`),
  until the clock of the running process is set back (`SteadyInv`: a set-back is
  counted, and a new process starts afresh). Neither property is inductive: what a cache that
  has evicted still knows must be said. `GateInv` adds that the clock is not behind
  any recorded time (`ClockAhead`), that the last admission of a flight is in the
  cache while it is at most a window old (`Remembered`), and that every admission
  was inside the flight's own window (`AdmittedInWindow`). A second admission then
  comes more than a window after the first (else the entry is still there) and at
  most a window after the timestamp, so the first one was before the timestamp. As
  `Remembered` is about tags, two flights with one tag keep the same distance (`Apart`).
* `AdmissionsBounded` (`AcceptanceBound`). By induction along the behaviour the i-th
  admission of a flight is at least i - 1 times `Window + 1` after the first
  (`Paced`); all of them lie in the flight's own window, which bounds i.
* `GateImplementsAtMostOnce`: with skew 0 and a clock that is never set back no admission is before the timestamp, so
  there is only one, and every step is a step of `AtMostOnce` or a stutter.

`ServerTasksProofs`, for every number of tasks: `TasksImplementGate`. The invariant
`TasksInv` says that only the head of the queue is inside a call, and that a call past
the checks has passed them at its own time. A step that reads the clock is then a step
of `ServerPayload` at that time, with the outcome the call is going to have; the other
steps of the call only catch up with it. When the daemon ends inside a call, cache and
history start anew in both. The theorems of `ServerPayloadProofs`, instantiated with
the refinement mapping, then give what holds of the gate for the tasks:
`TasksImplementAtMostOnce` (`OnceSpec`, without skew and set-backs) and
`TasksReplayGate` (`NoReplayWithinWindow`). The latter speaks of what the tasks have
recorded rather than of the mapped history, which is ahead of it by at most the
admission of the call at the head of the queue.

`RecordLayerProofs`, for every set of plaintexts and all bounds: `TypeCorrect`,
`PrefixDelivery`, `NonceUniqueness`, `IntactDirectionOpens`, `FailureIsFinal` and
`ImplementsFifo`. The inductive invariant says where every ciphertext of the ledger
stands (`Placed`: the k-th record of its direction, sealed under counter k-1 after
absorbing the k-1 before it) and, per direction, that the sealer stands at the end of that
line, that what was opened follows it, and that the opener is in lock-step until
a failure, after which its counter has left the number of ciphertexts it absorbed for good.

`TransportProofs`, for every set of body sizes, limit, length of the prefix and number
of frames: `TypeCorrect`, `FramesIntact` (`BodiesIntact`) and `NoneIsAnEnd`
(`NoneHidesNoPrefix`). `BodiesIntact` speaks of what was returned, and a step of the
reader depends on where it stands in the stream. `StreamInv` therefore says that there
are offsets at which the frames start (`Offsets`), that every byte of the stream lies
between the offsets of its own frame, also after a cut (`Laid`), and that the reader is
at the offset of the frame after those returned, or a prefix behind it (`Placed`).

`ForwardDirection` and `ForwardProofs`, for every amount of data, size of the read
buffer, of the sockets and of the early data, and any number of failures:
`TypeCorrect`, `EndsAreComplete` (`EofMeansComplete`) and `TunnelIsAPipe` (`PipeSpec`).
The end of a stream depends on a `Close` that was queued behind records that
are in the tunnel, in the buffers of two tasks and in two sockets, so the invariant
`TunnelInv` follows the bytes through all of them. It is stated of one direction, of a
sender and a receiver (`Direction`), and holds of both:

* `InOrder`: what was handed over, what is in the plain socket and what `down` holds are
  consecutive bytes, starting with the first.
* `Chain`, while the receiver still takes frames: every frame in the tunnel has bounds,
  such that its bytes are the ones between them, a record is the one the pool of the
  receiver will have reached when it comes (`Fits`), a `Close` is the last frame and
  comes after the last byte; what `up` holds and what it has not read yet continues
  behind the last bound (`Sending`).
* `Complete`, while nothing has failed: no task is aborted, and a receiver that ends its
  stream has handed over all its peer wrote.

`Own` says how the two tasks of a side go together, and `AckExpected` that the ack of a
0-RTT handshake is the first frame its client gets. An action is a step of `up` in the direction out
of its side or of `down` in the direction into it, and leaves what the other direction
speaks of alone (`DirectionKept`); `ForwardDirection` shows the two kinds of steps
and `ForwardProofs` puts them together, one lemma per action. For the refinement, a
program's `Write` and `CloseWrite` are `Write` and `Close` of `Pipe`, a `write_all` to the
plain socket is `Deliver`, the shutdown of the plain socket is `End`, everything that
aborts a side is `Break`, and every other step leaves what the programs see as it is.

`DaemonProofs`, of `Session`, for any number of connections, keys, configurations and ends of
daemons: `TypeCorrect`, `KeysAgree` (`KeyAgreement`), `StrictIsCertified`
(`StrictMeansCertified`), `ZeroRttIsConfirmed` (`ZeroRttConfirmed`) and `PinKept`
(`PinIsKept`). None of them is inductive, because what one end concludes depends on a
frame that was built under an earlier pin, by an `ortd` that may since have been
replaced. The invariant `Inv` is therefore about the frames under way as much as about the
ends. For every connection, `Good` says that at most one frame is under way in a
direction and whose turn it is (`Turns`), that a payload under way carries the keys the client derived, and
that a server holds keys only if they are those (`Agreed`), that the key used is the
pin that was read, if one was (`Pinned`), that the certificate in a `ServerHello` under
way was presented for a certified key (`Certified`), and that an ack under way is about the keys the
server derived, which no later step changes (`Confirmed`). `Globals` relates the pin and the running `ortd`
to the certified keys. `PinKept` adds that only the end of `ortc` makes a connection
forget the pin it read (`NextRemembers`).

`DaemonProofs`, of `KeyFiles`, for any number of commands: `FilesTypeCorrect`,
`CertMatches`, `ServedKey`, `ClientKey` and `GenCertRepairsDirectory`. What an `ortd` presents depends on the directory, and
that on what the running command has still to write; the invariant `FilesInv` therefore
says that a `gen-cert` past its first file writes about the stored key (`WriterOK`),
that without `gen-key` directory, starting and running `ortd` know one key at most, and
no certificate is there before its key (`OneKey`), and that after a finished
`gen-cert` key and certificate agree until the next command truncates one (`FinishedOK`).
Directory and client key file are disjoint, and a step of one leaves the other's part of
the invariant alone (`DirectoryAlone`, `ClientAlone`). Of the key file, for any number of
`ortc`s starting at a time, `ClientOK` says that unless first starts raced at most one of
them is going to write, the file holds no whole key as long as one is, and every key
used is the one in the file.

`CodecProofs`, for every base of at least eight, all widths of the integers and arrays,
every length of the fields and any number of changes to a body: `RoundTripHolds`
(`RoundTrip`), `EndIsKnownHolds` (`EndIsKnown`) and `OneEncodingHolds` (`OneEncoding`).
The functions of the codec are recursive, over digits and over the fields of a layout.
Induction is over sets of numbers: a set that has 0 and, with a number, the next one has
them all (`Induction`, from the well-foundedness of `<`), and a function defined by
recursion on `0 .. n` exists and follows its equation (`Recursion`). On these rest two
directions, each shown of an integer, a field, a layout and a frame:

* Forward (`UintWritten`, `ReadForward`, `FieldsForward`, `DecodeForward`): reading what was
  written, with anything behind it, returns the value and stops at what is behind. For
  integers this is that digits and number determine each other (`Digits`).
* Back (`UintRead`, `ReadBack`, `FieldsBack`, `OneBody`): when a read succeeds, the
  bytes it consumed are the ones the writer makes of the value it returned, whatever
  they were.

`OneReader` says that `Written` and `Expected` are the same layout for
every type of frame. Forward gives `RoundTrip` and what is reported of a body that
runs on (`DecodeBody`); back gives `OneEncoding`. For a body that is cut,
back and forward together say that no encoding is a proper beginning of another
(`NoPrefix`), so `decode` cannot succeed; the tag is there or the body is empty, and all
an error before the end can be is `Truncated` (`CutBody`). The invariant `Inv` only says
what the edits so far made of the encoded frame.

Assumed: the named assumptions on the constants, and the ideal primitives of `Payload`
and `RecordLayer`.

Only model-checked: liveness (`EveryFlightAnswered`, `ArrivedIsReturned`, `ReaderEnds`,
`ForwardReturns`, `EveryByteArrives`, `HandshakeEnds`, `UndisturbedSucceeds`), because it
needs fairness and `ENABLED`. Every other property of a passing run has a theorem.

## Not modelled

The primitives of the cipher suite (they are ideal), DER parsing and the comparison of
dates in certificates, the suite id check (both binaries have one suite), the overflow
of the 64-bit record counter, fields longer than their length prefix can say (no caller
has any), file permissions, parsing of arguments, logging and error texts. A peer that
stays connected and silent is not excluded by the code, which has no timeouts; the
liveness properties of `Session` are about peers that answer or go away. Several
commands that write to one key directory at the same time are not considered.
