------------------------------- MODULE Session ------------------------------
(***************************************************************************)
(* ort-net/src/session.rs and run.rs: client_open and server_accept over   *)
(* one TCP connection per local connection, the pin that all connection    *)
(* tasks of ortc share, and the two daemons, which end with their accept   *)
(* loops and may be started again, ortd with another key.  The transforms  *)
(* of ort-core that they call are those of Payload; timestamp window and   *)
(* strike cache are ServerPayload's and appear as a refusal that may       *)
(* happen.                                                                 *)
(***************************************************************************)
EXTENDS Integers, Sequences, Payload, ServerVerifier

CONSTANTS
    Conn,                \* the local connections ortc accepts
    ServerPk,            \* the KEM public keys ortd may run with
    ServerConfig,        \* what ortd may be started with
    Setup,               \* how ortc may be started and where it may run
    None,                \* an absent value
    MaxTroubles          \* bound on ends of daemons, refusals, failed connects

ASSUME SessionAssumption ==
    /\ None \notin ServerPk \cup ServerConfig
    /\ \A cfg \in ServerConfig : cfg.server_pk \in ServerPk
    /\ MaxTroubles \in Nat

VARIABLES
    ortc,                \* its options verifier and force_1rtt, the address of
                         \* its sockets, local, the one ortd sees, peer, and
                         \* whether these are of one host, direct
    server,              \* the ServerConfig of the running ortd, None if down
    pin,                 \* the server key all connections of ortc share
    conn,                \* the two ends of every connection, see Unused
    certified,           \* keys some ortd presented a trusted certificate for
    troubles

vars == <<ortc, server, pin, conn, certified, troubles>>

Unused ==
    [client |-> "idle", server |-> "idle",    \* where the two tasks are
     cached |-> None,                         \* what was read from pin
     used |-> None,                           \* the key it was opened with
     ckeys |-> None, skeys |-> None,          \* the keys each end derived
     c2s |-> <<>>, s2c |-> <<>>]              \* frames in flight

\* The key cfg presents a certificate for that the client's trust covers.
Presents(cfg) ==
    {pk \in {cfg.server_pk} :
        /\ cfg.certificate.parses /\ cfg.certificate.valid
        /\ cfg.certificate.extension = pk
        /\ ortc.verifier.strict =>
             SignatureVerifies(ortc.verifier.ca, cfg.certificate)}

\* main of ortc makes its verifier and force_1rtt out of its options.
Init ==
    /\ ortc \in Setup
    /\ server \in ServerConfig
    /\ certified = Presents(server)
    /\ pin = None
    /\ conn = [c \in Conn |-> Unused]
    /\ troubles = 0

\* A step of connection c that leaves everything else alone.
Step(c, new) ==
    /\ conn' = [conn EXCEPT ![c] = new]
    /\ UNCHANGED <<ortc, server, pin, certified, troubles>>

Trouble == troubles < MaxTroubles /\ troubles' = troubles + 1

-----------------------------------------------------------------------------
(* run_client and client_open.                                             *)

\* Faulty variant: an address keeps the form the socket reports it in.
ip_to_bytes_verbatim(ip) == ip

\* The canonical form: IPv4 addresses become IPv4-mapped ones, which a
\* dual-stack listener reports them as.
ip_to_bytes(ip) ==
    IF ip.version = 4 THEN [version |-> 6, octets |-> <<"mapped", ip.octets>>]
                      ELSE ip

\* local_addr failing gives sixteen zero bytes.
src_ip(local) == IF local = None THEN [version |-> 6, octets |-> <<"zero">>]
                                 ELSE ip_to_bytes(local)

peer_ip == ip_to_bytes(ortc.peer)

\* TcpStream::connect succeeds; run_server accepts and spawns the other task.
Connect(c) ==
    /\ conn[c].client = "idle"
    /\ server # None
    /\ Step(c, [conn[c] EXCEPT !.client = "connected", !.server = "first"])

ConnectFails(c) ==
    /\ conn[c].client = "idle"
    /\ server = None
    /\ Step(c, [conn[c] EXCEPT !.client = "failed"])

\* let cached = pin.lock().await.clone()
SamplePin(c) ==
    /\ conn[c].client = "connected"
    /\ Step(c, [conn[c] EXCEPT !.cached = pin, !.client = "open"])

\* build_payload with the fresh values of connection c, in a frame.
Flight(type, pk, c) ==
    [type |-> type,
     payload |-> build_payload("client_pk", pk, src_ip(ortc.local), 0, c)]

\* Faulty variant: the flight is sent again without waiting for an answer.
OpenedTwice(c, type, pk) ==
    [conn[c] EXCEPT !.c2s = @ \o <<Flight(type, pk, c), Flight(type, pk, c)>>,
                    !.ckeys = Flight(type, pk, c).payload.enc_data.keys,
                    !.used = pk, !.client = "opened"]

\* The client is established with server key pk and sent its flight.
Opened(c, type, pk) ==
    [conn[c] EXCEPT !.c2s = Append(@, Flight(type, pk, c)),
                    !.ckeys = Flight(type, pk, c).payload.enc_data.keys,
                    !.used = pk, !.client = "opened"]

ZeroRtt(c) == conn[c].cached # None /\ ~ortc.force_1rtt

client_zero_rtt(c) ==
    /\ conn[c].client = "open"
    /\ ZeroRtt(c)
    /\ Step(c, Opened(c, "ClientHelloZeroRtt", conn[c].cached))

client_one_rtt_hello(c) ==
    /\ conn[c].client = "open"
    /\ ~ZeroRtt(c)
    /\ Step(c, [conn[c] EXCEPT !.client = "hello",
                      !.c2s = Append(@, [type |-> "ClientHelloOneRtt"])])

\* The check against the cached key: none, or the same.
PinAllows(c, server_pk) == conn[c].cached \in {None, server_pk}

\* The ServerHello arrives: verify it and send the second flight, or fail.
client_one_rtt_finish(c) ==
    /\ conn[c].client = "hello"
    /\ conn[c].s2c # <<>>
    /\ LET hello == Head(conn[c].s2c)
           new   == IF /\ hello.type = "ServerHello"
                       /\ verify(ortc.verifier, hello.server_pk,
                                 hello.certificate)
                       /\ PinAllows(c, hello.server_pk)
                      THEN Opened(c, "ClientData", hello.server_pk)
                      ELSE [conn[c] EXCEPT !.client = "failed"]
       IN  Step(c, [new EXCEPT !.s2c = Tail(@)])

\* The server has dropped the connection and nothing is left to read.
ServerEnded(c) == conn[c].server = "gone" /\ conn[c].s2c = <<>>

\* Faulty variant: the end of the stream is taken for no answer yet.
ClientHelloEofWaits(c) ==
    conn[c].client = "hello" /\ ServerEnded(c) /\ UNCHANGED vars

\* The stream ends before the ServerHello: EarlyClose.
ClientHelloEof(c) ==
    /\ conn[c].client = "hello"
    /\ ServerEnded(c)
    /\ Step(c, [conn[c] EXCEPT !.client = "failed"])

\* A read or write on a connection the server has dropped fails.
ClientIoError(c) ==
    /\ conn[c].client \in {"open", "hello", "ack"}
    /\ conn[c].server = "gone"
    /\ Step(c, [conn[c] EXCEPT !.client = "failed"])

\* Faulty variant: every connection stores its key.
PinStoredAlways(pk) == pk

\* Only the first connection to get there stores its key.
PinStored(pk) == IF pin = None THEN pk ELSE pin

\* client_open returned Ok: store the pin and start forward(), which waits
\* for the ack if the connection was opened with 0-RTT.
StorePin(c) ==
    /\ conn[c].client = "opened"
    /\ pin' = PinStored(conn[c].used)
    /\ conn' = [conn EXCEPT ![c].client = IF ZeroRtt(c) THEN "ack"
                                                        ELSE "forward"]
    /\ UNCHANGED <<ortc, server, certified, troubles>>

\* The first frame of the down task: the hash of the server's key.
ReadAck(c) ==
    /\ conn[c].client = "ack"
    /\ conn[c].s2c # <<>>
    /\ LET ack == Head(conn[c].s2c)
       IN  Step(c, [conn[c] EXCEPT !.s2c = Tail(@),
                 !.client = IF /\ ack.type = "ServerAck"
                               /\ ack.ek_hash = enc_key_hash(conn[c].ckeys)
                              THEN "forward" ELSE "failed"])

\* Faulty variant: the end of the stream is taken for a confirmation.
AckEofConfirms(c) ==
    /\ conn[c].client = "ack"
    /\ ServerEnded(c)
    /\ Step(c, [conn[c] EXCEPT !.client = "forward"])

\* The stream ends before the ack: down returns without it.
AckEof(c) ==
    /\ conn[c].client = "ack"
    /\ ServerEnded(c)
    /\ Step(c, [conn[c] EXCEPT !.client = "closed"])

client_step(c) ==
    \/ SamplePin(c) \/ client_zero_rtt(c) \/ client_one_rtt_hello(c)
    \/ client_one_rtt_finish(c) \/ ClientHelloEof(c) \/ StorePin(c)
    \/ ReadAck(c) \/ AckEof(c)

\* listener.accept() of run_client fails, or ortc is killed: main returns, its
\* connections are dropped and the pin is forgotten.  Connections not yet
\* made find a new ortc.
ortc_ends ==
    /\ Trouble
    /\ pin' = None
    /\ conn' = [c \in Conn |->
                   IF conn[c].client = "idle" THEN conn[c]
                   ELSE [conn[c] EXCEPT !.client = "failed", !.cached = None,
                                        !.used = None, !.ckeys = None]]
    /\ UNCHANGED <<ortc, server, certified>>

-----------------------------------------------------------------------------
(* run_server and server_accept.                                           *)

\* process_payload under the key of the running ortd, the window and the
\* strike cache left to Refuse: established with `reply', or the task ends.
Process(c, p, reply) ==
    IF /\ p.src_ip = peer_ip
       /\ verify_client_binding(p)
       /\ Opens(server.server_pk, p)
      THEN [conn[c] EXCEPT !.skeys = Keys(server.server_pk, p),
                           !.server = "established", !.s2c = @ \o reply]
      ELSE [conn[c] EXCEPT !.server = "gone"]

server_hello ==
    [type |-> "ServerHello", server_pk |-> server.server_pk,
     certificate |-> server.certificate]

\* The first frame: 0-RTT, or the ServerHello of 1-RTT.
server_on_first(c) ==
    /\ conn[c].server = "first"
    /\ conn[c].c2s # <<>>
    /\ LET frame == Head(conn[c].c2s)
           new ==
             IF frame.type = "ClientHelloOneRtt"
               THEN [conn[c] EXCEPT !.s2c = Append(@, server_hello),
                                    !.server = "data"]
               ELSE Process(c, frame.payload,
                      <<[type |-> "ServerAck",
                         ek_hash |-> enc_key_hash(Keys(server.server_pk,
                                                       frame.payload))]>>)
       IN  Step(c, [new EXCEPT !.c2s = Tail(@)])

\* The second flight of 1-RTT.
server_on_client_data(c) ==
    /\ conn[c].server = "data"
    /\ conn[c].c2s # <<>>
    /\ LET frame == Head(conn[c].c2s)
           new   == IF frame.type = "ClientData"
                      THEN Process(c, frame.payload, <<>>)
                      ELSE [conn[c] EXCEPT !.server = "gone"]
       IN  Step(c, [new EXCEPT !.c2s = Tail(@)])

\* The client dropped the connection before the frame that is awaited.
ServerEof(c) ==
    /\ conn[c].server \in {"first", "data"}
    /\ conn[c].c2s = <<>> /\ conn[c].client = "failed"
    /\ Step(c, [conn[c] EXCEPT !.server = "gone"])

\* process_payload refuses the timestamp or a replay.
Refuse(c) ==
    /\ conn[c].server \in {"first", "data"}
    /\ conn[c].c2s # <<>> /\ Head(conn[c].c2s).type # "ClientHelloOneRtt"
    /\ Trouble
    /\ conn' = [conn EXCEPT ![c].server = "gone"]
    /\ UNCHANGED <<ortc, server, pin, certified>>

server_step(c) ==
    server_on_first(c) \/ server_on_client_data(c) \/ ServerEof(c)

\* listener.accept() of run_server fails, or ortd is killed: main returns and
\* its connections end.  What it had sent may still arrive.
ortd_ends ==
    /\ server # None
    /\ Trouble
    /\ server' = None
    /\ conn' = [c \in Conn |-> IF conn[c].server = "idle" THEN conn[c]
                               ELSE [conn[c] EXCEPT !.server = "gone"]]
    /\ UNCHANGED <<ortc, pin, certified>>

\* ortd is started again, with the same or another key directory.
ortd_starts ==
    /\ server = None
    /\ server' \in ServerConfig
    /\ certified' = certified \cup Presents(server')
    /\ UNCHANGED <<ortc, pin, conn, troubles>>

-----------------------------------------------------------------------------
Next ==
    \/ \E c \in Conn : \/ Connect(c) \/ ConnectFails(c)
                       \/ client_step(c) \/ ClientIoError(c)
                       \/ server_step(c) \/ Refuse(c)
    \/ ortc_ends \/ ortd_ends \/ ortd_starts

\* As long as tasks can go on one of them is polled.  Nothing makes a local
\* program connect, and nothing starts ortd again.
Spec ==
    /\ Init /\ [][Next]_vars
    /\ WF_vars(\E c \in Conn : client_step(c) \/ server_step(c))

-----------------------------------------------------------------------------
ClientState == {"idle", "connected", "open", "hello", "opened", "ack",
                "forward", "failed", "closed"}
ServerState == {"idle", "first", "data", "established", "gone"}

\* Type invariant of the session; never more than one frame is in flight.
TypeOK ==
    /\ ortc \in Setup
    /\ server \in ServerConfig \cup {None}
    /\ certified \subseteq ServerPk
    /\ pin \in ServerPk \cup {None}
    /\ \A c \in Conn :
          /\ conn[c].client \in ClientState
          /\ conn[c].server \in ServerState
          /\ {conn[c].cached, conn[c].used} \subseteq ServerPk \cup {None}
          /\ Len(conn[c].c2s) <= 1 /\ Len(conn[c].s2c) <= 1
    /\ troubles \in 0 .. MaxTroubles

\* When both ends of a connection have established it, they hold the same
\* keys, whatever pin the client used and however often ortd changed its key.
KeyAgreement ==
    \A c \in Conn :
        (conn[c].skeys # None /\ conn[c].ckeys # None)
            => conn[c].skeys = conn[c].ckeys

\* A 0-RTT client that delivers data to its program has been told by a server
\* holding the same keys: a stale pin or a dropped connection ends in "failed"
\* or "closed".
ZeroRttConfirmed ==
    \A c \in Conn :
        (conn[c].client = "forward" /\ ZeroRtt(c))
            => conn[c].skeys = conn[c].ckeys

\* While one ortc runs its pin never changes, however many connections that
\* found none race to store theirs, and a connection that found one is opened
\* with that key or not at all, in 0-RTT and in forced 1-RTT.
PinIsKept ==
    [][pin # None =>
        /\ pin' \in {pin, None}
        /\ \A c \in Conn : conn[c].cached # None
                             => conn'[c].used \in {None, pin}]_vars

\* A strict client opens connections only with, and pins only, a key that
\* some ortd presented a trusted certificate for.
StrictMeansCertified ==
    ortc.verifier.strict =>
        /\ pin \in certified \cup {None}
        /\ \A c \in Conn : conn[c].used \in certified \cup {None}

\* Neither end of a handshake waits for ever on the other one, also when one
\* of the daemons ends in the middle of it.
HandshakeEnds ==
    \A c \in Conn :
        (conn[c].client # "idle") ~>
            /\ conn[c].client \in {"forward", "failed", "closed"}
            /\ conn[c].server \in {"idle", "established", "gone"}

\* Without troubles every connection of a client that the server's certificate
\* suits is established at both ends, in either mode, over IPv4 to a
\* dual-stack listener, and with any number of them racing for the pin.
UndisturbedSucceeds ==
    \A c \in Conn :
        (/\ conn[c].client = "connected"
         /\ ortc.direct
         /\ server # None
         /\ verify(ortc.verifier, server.server_pk, server.certificate))
            ~> (\/ conn[c].client = "forward" /\ conn[c].server = "established"
                \/ troubles > 0)
=============================================================================
