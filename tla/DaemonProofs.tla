---------------------------- MODULE DaemonProofs ----------------------------
(***************************************************************************)
(* Safety of the daemons: of their handshakes (Session), for any number of *)
(* connections, keys, configurations and ends of daemons, and of the keys  *)
(* they are started with (KeyFiles), for any number of commands.  The two  *)
(* share ServerVerifier and are proved one after the other.                *)
(*                                                                         *)
(* The inductive invariant of Session is one predicate on a connection,    *)
(* Good, and what the pin and the running ortd have to do with the         *)
(* certified keys.                                                         *)
(***************************************************************************)
EXTENDS Session, KeyFiles, TLAPS

PkOrNone == ServerPk \cup {None}

\* The payloads of clients, the keys anyone derives from them, and frames.
PayloadSet == {build_payload("client_pk", pk, src_ip(o.local), 0, c) :
                  pk \in ServerPk, o \in Setup, c \in Conn}
KeyOrNone == {Keys(pk, p) : pk \in ServerPk, p \in PayloadSet} \cup {None}
ClientFrame ==
    {[type |-> "ClientHelloOneRtt"]} \cup
    {[type |-> t, payload |-> p] :
        t \in {"ClientHelloZeroRtt", "ClientData"}, p \in PayloadSet}
ServerFrame ==
    {[type |-> "ServerHello", server_pk |-> cfg.server_pk,
      certificate |-> cfg.certificate] : cfg \in ServerConfig} \cup
    {[type |-> "ServerAck", ek_hash |-> enc_key_hash(k)] : k \in KeyOrNone}

ConnSet ==
    [client : ClientState, server : ServerState,
     cached : PkOrNone, used : PkOrNone, ckeys : KeyOrNone, skeys : KeyOrNone,
     c2s : Seq(ClientFrame), s2c : Seq(ServerFrame)]

Hello(frame) == frame.type = "ClientHelloOneRtt"

\* A ServerHello that passes the verifier of o shows a key of S.
ShowsCertified(frame, o, S) ==
    (/\ frame.type = "ServerHello"
     /\ o.verifier.strict
     /\ verify(o.verifier, frame.server_pk, frame.certificate))
        => frame.server_pk \in S

Trusted(pk, o, S) == o.verifier.strict => pk \in S \cup {None}

\* At most one frame is in flight, in the direction the handshake is at.
Turns(r) ==
    /\ Len(r.c2s) <= 1 /\ Len(r.s2c) <= 1
    /\ r.client \in {"idle", "connected", "open"}
          => r.c2s = <<>> /\ r.s2c = <<>>
    /\ r.client = "hello" => r.c2s = <<>> \/ r.s2c = <<>>
    /\ r.server \in {"idle", "first"} => r.s2c = <<>>

\* Until the client sends its flight neither end has keys; the flight is
\* sealed with the client's keys; what the server established are these.
Agreed(r) ==
    /\ r.client \in {"idle", "connected", "open", "hello"} =>
          /\ r.used = None /\ r.ckeys = None /\ r.skeys = None
          /\ r.c2s # <<>> => Hello(Head(r.c2s))
    /\ (r.c2s # <<>> /\ ~Hello(Head(r.c2s)) /\ r.ckeys # None)
          => Head(r.c2s).payload.enc_data.keys = r.ckeys
    /\ (r.skeys # None /\ r.ckeys # None) => r.skeys = r.ckeys

\* What was read from the pin p is still there, and is the key that is used.
Pinned(r, p) ==
    /\ r.client = "idle" => r.cached = None
    /\ r.cached \in {None, p}
    /\ r.cached # None => r.used \in {None, r.cached}

Certified(r, o, S) ==
    /\ Trusted(r.cached, o, S) /\ Trusted(r.used, o, S)
    /\ r.s2c # <<>> => ShowsCertified(Head(r.s2c), o, S)

\* An ack under way is about the keys the server holds; a 0-RTT client goes
\* on only after one that matched, and nothing changes the keys after it.
Answered(r) == r.server \in {"established", "gone"}
Confirmed(r, o) ==
    /\ (r.s2c # <<>> /\ Head(r.s2c).type = "ServerAck") =>
          Answered(r) /\ Head(r.s2c).ek_hash = enc_key_hash(r.skeys)
    /\ (r.client = "forward" /\ r.cached # None /\ ~o.force_1rtt) =>
          Answered(r) /\ r.skeys = r.ckeys

Good(r, o, p, S) ==
    /\ r \in ConnSet
    /\ Turns(r) /\ Agreed(r) /\ Pinned(r, p) /\ Certified(r, o, S)
    /\ Confirmed(r, o)

Globals ==
    /\ ortc \in Setup
    /\ server \in ServerConfig \cup {None}
    /\ certified \subseteq ServerPk
    /\ pin \in PkOrNone
    /\ Trusted(pin, ortc, certified)
    /\ server # None => Presents(server) \subseteq certified
    /\ troubles \in 0 .. MaxTroubles

Inv ==
    /\ Globals
    /\ conn \in [Conn -> ConnSet]
    /\ \A c \in Conn : Good(conn[c], ortc, pin, certified)
    /\ \A c \in Conn : conn[c].server \in {"first", "data"} => server # None

-----------------------------------------------------------------------------
(* Payloads.                                                               *)

\* A flight is sealed with the keys its own server key derives from it.
LEMMA FlightKeys ==
    ASSUME NEW pk \in ServerPk, NEW ip, NEW c, NEW k
    PROVE  LET p == build_payload(k, pk, ip, 0, c)
           IN  p.enc_data.keys = Keys(pk, p)
<1> DEFINE kem  == kem_encapsulate(pk, c)
           keys == derive_session_keys(kem.shared, kem.ciphertext)
           body == [client_pk |-> k, ciphertext |-> kem.ciphertext,
                    src_ip |-> ip, ts_millis |-> 0, nonce |-> c,
                    enc_data |-> SealedEarlyData(keys, c), client_sig |-> 0]
           sig  == sign_client_binding(k, body)
           p    == build_payload(k, pk, ip, 0, c)
<1>1. p = [body EXCEPT !.client_sig = sig]
  BY DEF build_payload
<1>2. body.ciphertext = kem.ciphertext /\ body.enc_data.keys = keys
  BY DEF SealedEarlyData
<1>3. body \in [client_pk : {k}, ciphertext : {kem.ciphertext}, src_ip : {ip},
                ts_millis : {0}, nonce : {c},
                enc_data : {SealedEarlyData(keys, c)}, client_sig : {0}]
  OBVIOUS
<1>4. kem.shared = kem_decapsulate(pk, kem.ciphertext)
  BY DEF kem_encapsulate
<1> HIDE DEF body, sig, p, kem
<1>5. p.ciphertext = body.ciphertext /\ p.enc_data = body.enc_data
  BY <1>1, <1>3
<1>6. p.enc_data.keys = Keys(pk, p)
  BY <1>2, <1>4, <1>5 DEF Keys
<1> QED BY <1>6 DEF p

\* A flight that opens is sealed with the keys of the server.
LEMMA OpensWithSame ==
    ASSUME NEW pk, NEW p, Opens(pk, p)
    PROVE  p.enc_data.keys = Keys(pk, p)
BY DEF Opens, SealedEarlyData

LEMMA FlightTyped ==
    ASSUME NEW t \in {"ClientHelloZeroRtt", "ClientData"}, NEW pk \in ServerPk,
           NEW c \in Conn, ortc \in Setup
    PROVE  /\ Flight(t, pk, c) \in ClientFrame
           /\ Flight(t, pk, c).payload.enc_data.keys \in KeyOrNone
           /\ ~Hello(Flight(t, pk, c))
<1> DEFINE p == build_payload("client_pk", pk, src_ip(ortc.local), 0, c)
<1>1. p \in PayloadSet
  BY DEF PayloadSet
<1>2. p.enc_data.keys = Keys(pk, p)
  BY FlightKeys
<1>3. Flight(t, pk, c) = [type |-> t, payload |-> p]
  BY DEF Flight
<1> HIDE DEF p
<1> QED BY <1>1, <1>2, <1>3 DEF ClientFrame, KeyOrNone, Hello

-----------------------------------------------------------------------------
(* Steps of one connection.                                                *)

LEMMA StepInv ==
    ASSUME Inv, NEW c \in Conn, NEW new, Step(c, new),
           Good(new, ortc, pin, certified),
           \/ server # None
           \/ new.server \in {conn[c].server, "established", "gone"}
    PROVE  Inv'
<1>1. conn' \in [Conn -> ConnSet]
  BY DEF Inv, Step, Good
<1>4. \A d \in Conn : conn'[d].server \in {"first", "data"} => server' # None
  BY DEF Inv, Step
<1>2. ASSUME NEW d \in Conn PROVE Good(conn'[d], ortc', pin', certified')
  <2>1. CASE d = c
    BY <2>1 DEF Inv, Step
  <2>2. CASE d # c
    BY <2>2 DEF Inv, Step
  <2> QED BY <2>1, <2>2
<1>3. Globals'
  BY DEF Inv, Step, Globals, Presents
<1> QED BY <1>1, <1>2, <1>3, <1>4 DEF Inv

LEMMA ConnGood ==
    ASSUME Inv, NEW c \in Conn
    PROVE  /\ Good(conn[c], ortc, pin, certified)
           /\ conn[c] \in ConnSet
           /\ None \in PkOrNone /\ None \in KeyOrNone
BY DEF Inv, PkOrNone, KeyOrNone

LEMMA ConnectInv ==
    ASSUME Inv, NEW c \in Conn, Connect(c)
    PROVE  Inv'
<1> DEFINE new == [conn[c] EXCEPT !.client = "connected", !.server = "first"]
<1>1. Good(new, ortc, pin, certified)
  BY ConnGood, Zenon DEF Connect, Good, ConnSet, ClientState, ServerState, Turns,
     Agreed, Pinned, Certified, Confirmed, Answered
<1> QED BY <1>1, StepInv DEF Connect

LEMMA ConnectFailsInv ==
    ASSUME Inv, NEW c \in Conn, ConnectFails(c)
    PROVE  Inv'
<1> DEFINE new == [conn[c] EXCEPT !.client = "failed"]
<1>1. Good(new, ortc, pin, certified)
  BY ConnGood DEF ConnectFails, Good, ConnSet, ClientState, Turns, Agreed,
     Pinned, Certified, Confirmed, Answered
<1>2. new.server = conn[c].server
  BY ConnGood DEF ConnSet
<1> QED BY <1>1, <1>2, StepInv, Zenon DEF ConnectFails

LEMMA SamplePinInv ==
    ASSUME Inv, NEW c \in Conn, SamplePin(c)
    PROVE  Inv'
<1> DEFINE new == [conn[c] EXCEPT !.cached = pin, !.client = "open"]
<1>0. pin \in PkOrNone /\ Trusted(pin, ortc, certified)
  BY DEF Inv, Globals
<1>1. Good(new, ortc, pin, certified)
  BY <1>0, ConnGood, Zenon DEF SamplePin, Good, ConnSet, ClientState, Turns, Agreed,
     Pinned, Certified, Confirmed, Answered
<1>2. new.server = conn[c].server
  BY ConnGood DEF ConnSet
<1> QED BY <1>1, <1>2, StepInv, Zenon DEF SamplePin

LEMMA OneFrame ==
    ASSUME NEW S, NEW f \in S, NEW q \in Seq(S)
    PROVE  /\ q = <<>> => Append(q, f) = <<f>>
           /\ q = <<>> => q \o <<f>> = <<f>>
           /\ q \o <<>> = q
           /\ <<f>> \in Seq(S) /\ Len(<<f>>) = 1 /\ Head(<<f>>) = f
           /\ <<f>> # <<>>
<1>1. q = <<>> => Append(q, f) = <<f>>
  OBVIOUS
<1>2. q = <<>> => q \o <<f>> = <<f>>
  OBVIOUS
<1>3. q \o <<>> = q
  OBVIOUS
<1>4. <<f>> \in Seq(S) /\ Len(<<f>>) = 1 /\ Head(<<f>>) = f /\ <<f>> # <<>>
  OBVIOUS
<1> QED BY <1>1, <1>2, <1>3, <1>4

LEMMA LastFrame ==
    ASSUME NEW S, NEW q \in Seq(S), q # <<>>, Len(q) <= 1
    PROVE  Tail(q) = <<>> /\ Head(q) \in S /\ <<>> \in Seq(S) /\ Len(<<>>) = 0
<1>1. Head(q) \in S /\ Tail(q) \in Seq(S) /\ Len(Tail(q)) = Len(q) - 1
  OBVIOUS
<1>2. Len(q) \in Nat /\ Len(q) # 0 /\ Len(Tail(q)) \in Nat
  BY <1>1
<1>3. Tail(q) = <<>>
  BY <1>1, <1>2
<1> QED BY <1>1, <1>3

\* Sending the flight: what Opened makes of a connection whose outgoing
\* queue is empty.
LEMMA OpenedGood ==
    ASSUME Inv, NEW c \in Conn, NEW r, Good(r, ortc, pin, certified),
           NEW t \in {"ClientHelloZeroRtt", "ClientData"}, NEW pk \in ServerPk,
           r.client \in {"open", "hello"}, r.c2s = <<>>,
           Trusted(pk, ortc, certified), r.cached \in {None, pk},
           NEW new, new = [r EXCEPT !.c2s = Append(@, Flight(t, pk, c)),
                    !.ckeys = Flight(t, pk, c).payload.enc_data.keys,
                    !.used = pk, !.client = "opened"]
    PROVE  Good(new, ortc, pin, certified)
<1> DEFINE f == Flight(t, pk, c)
<1>1. f \in ClientFrame /\ f.payload.enc_data.keys \in KeyOrNone /\ ~Hello(f)
  BY FlightTyped DEF Inv, Globals
<1>2. r \in ConnSet
  BY DEF Good
<1> HIDE DEF f
<1>3. Append(r.c2s, f) = <<f>> /\ <<f>> \in Seq(ClientFrame)
      /\ Len(<<f>>) = 1 /\ Head(<<f>>) = f
  BY <1>1, <1>2, OneFrame DEF ConnSet
<1>4. /\ new = [r EXCEPT !.c2s = <<f>>,
                         !.ckeys = f.payload.enc_data.keys,
                         !.used = pk, !.client = "opened"]
  BY <1>2, <1>3 DEF f, ConnSet
<1>5. new \in ConnSet
  BY <1>1, <1>2, <1>3, <1>4, Zenon DEF ConnSet, PkOrNone, ClientState
<1>6. Turns(new)
  BY <1>2, <1>3, <1>4 DEF Good, Turns, ConnSet
<1>7. Agreed(new)
  BY <1>1, <1>2, <1>3, <1>4 DEF Good, Agreed, ConnSet
<1>8. Pinned(new, pin)
  BY <1>2, <1>4 DEF Good, Pinned, ConnSet
<1>9. Certified(new, ortc, certified)
  BY <1>2, <1>4 DEF Good, Certified, ConnSet
<1>10. Confirmed(new, ortc)
  BY <1>2, <1>4 DEF Good, Confirmed, Answered, ConnSet
<1> QED BY <1>5, <1>6, <1>7, <1>8, <1>9, <1>10 DEF Good

LEMMA ZeroRttInv ==
    ASSUME Inv, NEW c \in Conn, client_zero_rtt(c)
    PROVE  Inv'
<1> DEFINE new == Opened(c, "ClientHelloZeroRtt", conn[c].cached)
<1>1. /\ conn[c].cached \in ServerPk
      /\ conn[c].client = "open" /\ conn[c].c2s = <<>>
      /\ Trusted(conn[c].cached, ortc, certified)
  BY ConnGood DEF client_zero_rtt, ZeroRtt, Good, ConnSet, PkOrNone, Turns,
     Certified
<1>2. Good(new, ortc, pin, certified)
  BY <1>1, ConnGood, OpenedGood, Zenon DEF Opened
<1>3. new.server = conn[c].server
  BY ConnGood DEF ConnSet, Opened
<1> QED BY <1>2, <1>3, StepInv DEF client_zero_rtt

LEMMA HelloInv ==
    ASSUME Inv, NEW c \in Conn, client_one_rtt_hello(c)
    PROVE  Inv'
<1> DEFINE r == conn[c]
           f == [type |-> "ClientHelloOneRtt"]
           new == [r EXCEPT !.client = "hello", !.c2s = Append(@, f)]
<1>1. r \in ConnSet /\ Good(r, ortc, pin, certified)
  BY ConnGood
<1>2. f \in ClientFrame /\ Hello(f)
  BY DEF ClientFrame, Hello
<1>3. r.client = "open" /\ Step(c, new)
  BY DEF client_one_rtt_hello
<1> HIDE DEF f, r
<1>a. r.c2s = <<>> /\ r.s2c = <<>> /\ r.c2s \in Seq(ClientFrame)
  BY <1>1, <1>3 DEF ConnSet, Good, Turns
<1>4. Append(r.c2s, f) = <<f>> /\ <<f>> \in Seq(ClientFrame)
      /\ Len(<<f>>) = 1 /\ Head(<<f>>) = f
  BY <1>a, <1>2, OneFrame
<1>5. new = [r EXCEPT !.client = "hello", !.c2s = <<f>>]
  BY <1>1, <1>4 DEF ConnSet
<1> HIDE DEF new
<1>6. new \in ConnSet
  BY <1>1, <1>3, <1>4, <1>5, Zenon DEF ConnSet, ClientState
<1>b. Turns(new)
  BY <1>1, <1>3, <1>4, <1>5, <1>a DEF ConnSet, Good, Turns
<1>7. Agreed(new) /\ Pinned(new, pin) /\ Certified(new, ortc, certified)
  BY <1>1, <1>2, <1>3, <1>4, <1>5 DEF ConnSet, Good, Agreed, Pinned, Certified
<1>c. Confirmed(new, ortc)
  BY <1>1, <1>5 DEF ConnSet, Good, Confirmed, Answered
<1>8. new.server = r.server
  BY <1>1, <1>5 DEF ConnSet
<1> QED BY <1>3, <1>6, <1>b, <1>7, <1>8, <1>c, StepInv DEF Good, r

\* Once past the hello a client may go anywhere but back, and forward if it
\* did not open with 0-RTT or has the keys of the server.
LEMMA ClientMoves ==
    ASSUME NEW o, NEW p, NEW S, NEW r, Good(r, o, p, S),
           NEW x \in {"opened", "ack", "forward", "failed", "closed"},
           (x = "forward" /\ r.cached # None /\ ~o.force_1rtt)
               => Answered(r) /\ r.skeys = r.ckeys
    PROVE  Good([r EXCEPT !.client = x], o, p, S)
BY DEF Good, ConnSet, ClientState, Turns, Agreed, Pinned, Certified, Confirmed,
       Answered

LEMMA ServerEnds ==
    ASSUME NEW o, NEW p, NEW S, NEW r, Good(r, o, p, S)
    PROVE  Good([r EXCEPT !.server = "gone"], o, p, S)
BY DEF Good, ConnSet, ServerState, Turns, Agreed, Pinned, Certified, Confirmed,
       Answered

\* The client takes the frame it was sent.
LEMMA ClientTakes ==
    ASSUME NEW o, NEW p, NEW S, NEW r, Good(r, o, p, S), r.s2c # <<>>
    PROVE  Good([r EXCEPT !.s2c = Tail(@)], o, p, S)
<1>1. r \in ConnSet /\ r.s2c \in Seq(ServerFrame) /\ Len(r.s2c) <= 1
  BY DEF Good, ConnSet, Turns
<1>2. Tail(r.s2c) = <<>> /\ <<>> \in Seq(ServerFrame) /\ Len(<<>>) = 0
  BY <1>1, LastFrame
<1> DEFINE new == [r EXCEPT !.s2c = <<>>]
<1>3. new = [r EXCEPT !.s2c = Tail(@)]
  BY <1>1, <1>2 DEF ConnSet
<1>4. new \in ConnSet
  BY <1>1, <1>2, Zenon DEF ConnSet
<1>5. Turns(new)
  BY <1>1, <1>2 DEF Good, ConnSet, Turns
<1>6. Agreed(new) /\ Pinned(new, p) /\ Certified(new, o, S)
  BY <1>1 DEF Good, ConnSet, Agreed, Pinned, Certified
<1>7. Confirmed(new, o)
  BY <1>1 DEF Good, ConnSet, Confirmed, Answered
<1> QED BY <1>3, <1>4, <1>5, <1>6, <1>7 DEF Good

\* The server takes the frame it was sent.
LEMMA ServerTakes ==
    ASSUME NEW o, NEW p, NEW S, NEW r, Good(r, o, p, S), r.c2s # <<>>
    PROVE  Good([r EXCEPT !.c2s = Tail(@)], o, p, S)
<1>1. r \in ConnSet /\ r.c2s \in Seq(ClientFrame) /\ Len(r.c2s) <= 1
  BY DEF Good, ConnSet, Turns
<1>2. Tail(r.c2s) = <<>> /\ <<>> \in Seq(ClientFrame) /\ Len(<<>>) = 0
  BY <1>1, LastFrame
<1> DEFINE new == [r EXCEPT !.c2s = <<>>]
<1>3. new = [r EXCEPT !.c2s = Tail(@)]
  BY <1>1, <1>2 DEF ConnSet
<1>4. new \in ConnSet
  BY <1>1, <1>2, Zenon DEF ConnSet
<1>5. Turns(new)
  BY <1>1, <1>2 DEF Good, ConnSet, Turns
<1>6. Agreed(new) /\ Pinned(new, p) /\ Certified(new, o, S)
  BY <1>1 DEF Good, ConnSet, Agreed, Pinned, Certified
<1>7. Confirmed(new, o)
  BY <1>1 DEF Good, ConnSet, Confirmed, Answered
<1> QED BY <1>3, <1>4, <1>5, <1>6, <1>7 DEF Good

LEMMA FinishInv ==
    ASSUME Inv, NEW c \in Conn, client_one_rtt_finish(c)
    PROVE  Inv'
<1> DEFINE r     == conn[c]
           hello == Head(r.s2c)
           ok    == /\ hello.type = "ServerHello"
                    /\ verify(ortc.verifier, hello.server_pk, hello.certificate)
                    /\ PinAllows(c, hello.server_pk)
           new   == IF ok THEN Opened(c, "ClientData", hello.server_pk)
                          ELSE [r EXCEPT !.client = "failed"]
<1>1. /\ r.client = "hello" /\ r.s2c # <<>>
      /\ Step(c, [new EXCEPT !.s2c = Tail(@)])
  BY Zenon DEF client_one_rtt_finish
<1>2. r \in ConnSet /\ Good(r, ortc, pin, certified) /\ r.c2s = <<>>
  BY <1>1, ConnGood, Zenon DEF Good, Turns
<1>3. Good(new, ortc, pin, certified) /\ new.s2c # <<>>
  <2>1. CASE ok
    <3>1. hello \in ServerFrame
      BY <1>1, <1>2, LastFrame, Zenon DEF ConnSet, Good, Turns
    <3>2. hello.server_pk \in ServerPk
      BY <2>1, <3>1, SessionAssumption, SMTT(20) DEF ServerFrame
    <3>3. Trusted(hello.server_pk, ortc, certified)
      BY <1>1, <1>2, <2>1 DEF Good, Certified, ShowsCertified, Trusted
    <3>4. r.cached \in {None, hello.server_pk}
      BY <2>1 DEF PinAllows
    <3>5. Good(new, ortc, pin, certified)
      BY <1>1, <1>2, <2>1, <3>2, <3>3, <3>4, OpenedGood, Zenon DEF Opened
    <3>6. new.s2c = r.s2c
      BY <1>2, <2>1 DEF Opened, ConnSet
    <3> QED BY <1>1, <3>5, <3>6, Zenon
  <2>2. CASE ~ok
    BY <1>1, <1>2, <2>2, ClientMoves, Zenon DEF ConnSet
  <2> QED BY <2>1, <2>2
<1>4. new.server = r.server
  BY <1>2 DEF Opened, ConnSet
<1> HIDE DEF new
<1>5. Good([new EXCEPT !.s2c = Tail(@)], ortc, pin, certified)
  BY <1>3, ClientTakes
<1>6. [new EXCEPT !.s2c = Tail(@)].server = r.server
  BY <1>3, <1>4 DEF Good, ConnSet
<1> QED BY <1>1, <1>5, <1>6, StepInv, Zenon

LEMMA ClientEndInv ==
    ASSUME Inv, NEW c \in Conn,
           ClientHelloEof(c) \/ ClientIoError(c) \/ AckEof(c)
    PROVE  Inv'
<1>1. PICK x \in {"failed", "closed"} : Step(c, [conn[c] EXCEPT !.client = x])
  BY DEF ClientHelloEof, ClientIoError, AckEof
<1>2. Good([conn[c] EXCEPT !.client = x], ortc, pin, certified)
  BY ConnGood, ClientMoves, Zenon
<1>3. [conn[c] EXCEPT !.client = x].server = conn[c].server
  BY ConnGood DEF ConnSet
<1> QED BY <1>1, <1>2, <1>3, StepInv, Zenon

LEMMA ReadAckInv ==
    ASSUME Inv, NEW c \in Conn, ReadAck(c)
    PROVE  Inv'
<1> DEFINE r == conn[c]
           x == IF /\ Head(r.s2c).type = "ServerAck"
                   /\ Head(r.s2c).ek_hash = enc_key_hash(r.ckeys)
                  THEN "forward" ELSE "failed"
           taken == [r EXCEPT !.s2c = Tail(@)]
<1>1. r.s2c # <<>> /\ Step(c, [r EXCEPT !.s2c = Tail(@), !.client = x])
  BY DEF ReadAck
<1>2. r \in ConnSet /\ Good(r, ortc, pin, certified)
  BY ConnGood
<1>3. Good(taken, ortc, pin, certified)
  BY <1>1, <1>2, ClientTakes
<1>7. x = "forward" => Answered(taken) /\ taken.skeys = taken.ckeys
  <2>1. x = "forward" => Answered(r) /\ enc_key_hash(r.skeys) = enc_key_hash(r.ckeys)
    BY <1>1, <1>2 DEF Good, Confirmed
  <2>2. enc_key_hash(r.skeys) = enc_key_hash(r.ckeys) => r.skeys = r.ckeys
    BY DEF enc_key_hash, hash512
  <2> QED BY <1>2, <2>1, <2>2 DEF ConnSet, Answered
<1> HIDE DEF x, taken
<1>8. x \in {"forward", "failed"}
  BY DEF x
<1>4. Good([taken EXCEPT !.client = x], ortc, pin, certified)
  BY <1>3, <1>7, <1>8, ClientMoves, Zenon
<1> USE DEF taken
<1>5. [taken EXCEPT !.client = x] = [r EXCEPT !.s2c = Tail(@), !.client = x]
  BY <1>2 DEF ConnSet
<1>6. [taken EXCEPT !.client = x].server = r.server
  BY <1>2 DEF ConnSet
<1> QED BY <1>1, <1>4, <1>5, <1>6, StepInv, Zenon

LEMMA StorePinInv ==
    ASSUME Inv, NEW c \in Conn, StorePin(c)
    PROVE  Inv'
<1> DEFINE r == conn[c]
           x == IF ZeroRtt(c) THEN "ack" ELSE "forward"
           new == [r EXCEPT !.client = x]
<1>1. /\ pin' = PinStored(r.used) /\ conn' = [conn EXCEPT ![c] = new]
      /\ UNCHANGED <<ortc, server, certified, troubles>>
  BY DEF StorePin, Inv
<1>2. Good(new, ortc, pin, certified)
  BY ConnGood, ClientMoves, Zenon DEF ZeroRtt
<1>3. ASSUME NEW q, Good(q, ortc, pin, certified)
      PROVE  Good(q, ortc, pin', certified)
  BY <1>1, <1>3 DEF Good, Pinned, PinStored
<1>4. r.used \in PkOrNone /\ Trusted(r.used, ortc, certified)
  BY ConnGood DEF Good, ConnSet, Certified
<1>8. new.server = r.server
  BY ConnGood DEF ConnSet
<1>9. \A d \in Conn : conn'[d].server \in {"first", "data"} => server' # None
  BY <1>1, <1>8 DEF Inv
<1> HIDE DEF new
<1>5. \A d \in Conn : Good(conn'[d], ortc', pin', certified')
  BY <1>1, <1>2, <1>3 DEF Inv
<1>6. conn' \in [Conn -> ConnSet]
  BY <1>1, <1>2 DEF Inv, Good
<1>7. Globals'
  BY <1>1, <1>4 DEF Inv, Globals, PinStored, Presents
<1> QED BY <1>5, <1>6, <1>7, <1>9 DEF Inv

-----------------------------------------------------------------------------
(* Steps of the server.                                                    *)

LEMMA ServerEndInv ==
    ASSUME Inv, NEW c \in Conn, ServerEof(c)
    PROVE  Inv'
<1>1. Good([conn[c] EXCEPT !.server = "gone"], ortc, pin, certified)
  BY ConnGood, ServerEnds
<1>2. [conn[c] EXCEPT !.server = "gone"].server = "gone"
  BY ConnGood DEF ConnSet
<1> QED BY <1>1, <1>2, StepInv, Zenon DEF ServerEof

LEMMA RefuseInv ==
    ASSUME Inv, NEW c \in Conn, Refuse(c)
    PROVE  Inv'
<1> DEFINE new == [conn[c] EXCEPT !.server = "gone"]
<1>1. Good(new, ortc, pin, certified)
  BY ConnGood, ServerEnds
<1>2. /\ conn' = [conn EXCEPT ![c] = new]
      /\ UNCHANGED <<ortc, server, pin, certified>>
      /\ troubles' \in 0 .. MaxTroubles
  BY SessionAssumption DEF Refuse, Trouble, Inv, Globals
<1>6. new.server = "gone"
  BY ConnGood DEF ConnSet
<1>7. \A d \in Conn : conn'[d].server \in {"first", "data"} => server' # None
  BY <1>2, <1>6 DEF Inv
<1> HIDE DEF new
<1>3. \A d \in Conn : Good(conn'[d], ortc', pin', certified')
  BY <1>1, <1>2 DEF Inv
<1>4. conn' \in [Conn -> ConnSet]
  BY <1>1, <1>2 DEF Inv, Good
<1>5. Globals'
  BY <1>2 DEF Inv, Globals, Presents
<1> QED BY <1>3, <1>4, <1>5, <1>7 DEF Inv

\* process_payload on the flight p of a connection whose queue to the client
\* is empty or is left alone.
LEMMA ProcessGood ==
    ASSUME Inv, NEW c \in Conn, server # None,
           conn[c].c2s # <<>>, ~Hello(Head(conn[c].c2s)),
           conn[c].server \in {"first", "data"},
           NEW reply \in Seq(ServerFrame),
           \/ reply = <<>>
           \/ /\ conn[c].s2c = <<>>
              /\ LET k == Keys(server.server_pk, Head(conn[c].c2s).payload)
                 IN  reply = <<[type |-> "ServerAck",
                                ek_hash |-> enc_key_hash(k)]>>
    PROVE  LET new == Process(c, Head(conn[c].c2s).payload, reply)
           IN  Good(new, ortc, pin, certified) /\ new.c2s = conn[c].c2s
<1> DEFINE r    == conn[c]
           p    == Head(r.c2s).payload
           pk   == server.server_pk
           ok   == /\ p.src_ip = peer_ip
                   /\ verify_client_binding(p)
                   /\ Opens(pk, p)
           done == [r EXCEPT !.skeys = Keys(pk, p), !.server = "established",
                             !.s2c = @ \o reply]
           gone == [r EXCEPT !.server = "gone"]
<1>1. r \in ConnSet /\ Good(r, ortc, pin, certified)
  BY ConnGood
<1>2. Process(c, p, reply) = IF ok THEN done ELSE gone
  BY DEF Process
<1>3. Good(gone, ortc, pin, certified) /\ gone.c2s = r.c2s
  BY <1>1, ServerEnds DEF ConnSet
<1>4. ASSUME ok PROVE Good(done, ortc, pin, certified) /\ done.c2s = r.c2s
  <2>1. Head(r.c2s) \in ClientFrame
    BY <1>1, LastFrame DEF ConnSet, Good, Turns
  <2>2. p \in PayloadSet
    BY <2>1 DEF ClientFrame, Hello
  <2>3. pk \in ServerPk
    BY SessionAssumption DEF Inv, Globals
  <2>4. Keys(pk, p) \in KeyOrNone /\ p.enc_data.keys = Keys(pk, p)
    BY <1>4, <2>2, <2>3, OpensWithSame DEF KeyOrNone
  <2>5. r.client \notin {"idle", "connected", "open", "hello"}
    BY <1>1, SMTT(20) DEF Good, Agreed
  <2> DEFINE s == r.s2c \o reply
  <2>6. /\ s \in Seq(ServerFrame) /\ Len(s) <= 1
        /\ s # <<>> => ShowsCertified(Head(s), ortc, certified)
        /\ (s # <<>> /\ Head(s).type = "ServerAck") =>
              Head(s).ek_hash = enc_key_hash(Keys(pk, p))
    <3>1. CASE reply = <<>>
      <4>1. r.s2c \in Seq(ServerFrame)
        BY <1>1 DEF ConnSet
      <4>2. s = r.s2c
        BY <3>1, <4>1
      <4> QED BY <1>1, <4>1, <4>2 DEF Good, Turns, Certified, Confirmed,
                 Answered
    <3>2. CASE reply # <<>>
      <4> DEFINE f == [type |-> "ServerAck",
                       ek_hash |-> enc_key_hash(Keys(pk, p))]
      <4>1. reply = <<f>>
        BY <3>2
      <4>2. /\ f \in ServerFrame /\ f.type # "ServerHello"
            /\ f.ek_hash = enc_key_hash(Keys(pk, p))
        BY <2>4 DEF ServerFrame
      <4>4. reply = <<f>> /\ r.s2c = <<>> /\ r.s2c \in Seq(ServerFrame)
        BY <1>1, <3>2, <4>1 DEF ConnSet
      <4> HIDE DEF f
      <4>3. s = <<f>> /\ <<f>> \in Seq(ServerFrame) /\ Len(<<f>>) = 1
            /\ Head(<<f>>) = f
        BY <4>2, <4>4, OneFrame
      <4> QED BY <4>2, <4>3 DEF ShowsCertified
    <3> QED BY <3>1, <3>2
  <2> HIDE DEF s, p, pk, r
  <2>7. done = [r EXCEPT !.skeys = Keys(pk, p), !.server = "established",
                         !.s2c = s]
    BY <1>1 DEF s, ConnSet
  <2>8. done \in ConnSet /\ done.c2s = r.c2s
    BY <1>1, <2>4, <2>6, <2>7, Zenon DEF ConnSet, ServerState
  <2>9. Turns(done)
    BY <1>1, <2>5, <2>6, <2>7, Zenon DEF ConnSet, Good, Turns
  <2>10. Agreed(done)
    BY <1>1, <2>4, <2>5, <2>7 DEF ConnSet, Good, Agreed, p, r
  <2>11. Pinned(done, pin) /\ Certified(done, ortc, certified)
    BY <1>1, <2>6, <2>7, Zenon DEF ConnSet, Good, Pinned, Certified
  <2>12. Confirmed(done, ortc)
    BY <1>1, <2>6, <2>7, Zenon DEF ConnSet, Good, Confirmed, Answered, r
  <2> QED BY <2>8, <2>9, <2>10, <2>11, <2>12 DEF Good
<1> QED BY <1>2, <1>3, <1>4, Zenon

\* The ServerHello of the running ortd shows a certified key if it verifies.
LEMMA HelloCertified ==
    ASSUME Inv, server # None
    PROVE  /\ server_hello \in ServerFrame
           /\ ShowsCertified(server_hello, ortc, certified)
<1>1. server \in ServerConfig /\ Presents(server) \subseteq certified
  BY DEF Inv, Globals
<1>2. server_hello \in ServerFrame
  BY <1>1 DEF server_hello, ServerFrame
<1>3. ASSUME ortc.verifier.strict,
             verify(ortc.verifier, server.server_pk, server.certificate)
      PROVE  server.server_pk \in Presents(server)
  BY <1>3 DEF verify, Presents, extract_bound_server_pk
<1> QED BY <1>1, <1>2, <1>3 DEF server_hello, ShowsCertified

LEMMA AnswerHello ==
    ASSUME Inv, NEW c \in Conn, server # None, conn[c].server = "first",
           conn[c].c2s # <<>>, NEW new,
           new = [conn[c] EXCEPT !.s2c = Append(@, server_hello),
                                 !.server = "data"]
    PROVE  Good([new EXCEPT !.c2s = Tail(@)], ortc, pin, certified)
<1> DEFINE r     == conn[c]
           h     == server_hello
           taken == [r EXCEPT !.c2s = Tail(@)]
           final == [taken EXCEPT !.s2c = <<h>>, !.server = "data"]
<1>1. r \in ConnSet /\ Good(r, ortc, pin, certified)
  BY ConnGood
<1>2. /\ r.s2c = <<>> /\ r.s2c \in Seq(ServerFrame)
      /\ r.client \notin {"idle", "connected", "open"}
  BY <1>1 DEF Good, Turns, ConnSet
<1>3. h \in ServerFrame /\ ShowsCertified(h, ortc, certified)
  BY HelloCertified
<1> HIDE DEF h
<1>4. Append(r.s2c, h) = <<h>> /\ <<h>> \in Seq(ServerFrame)
      /\ Len(<<h>>) = 1 /\ Head(<<h>>) = h
  BY <1>2, <1>3, OneFrame
<1>5. Good(taken, ortc, pin, certified)
  BY <1>1, ServerTakes
<1>14. h.type = "ServerHello" /\ taken.server = "first"
  BY <1>1 DEF h, server_hello, ConnSet
<1>6. taken.c2s = <<>> /\ taken.client = r.client
  <2>1. Tail(r.c2s) = <<>>
    BY <1>1, LastFrame DEF Good, Turns, ConnSet
  <2> QED BY <1>1, <2>1 DEF ConnSet
<1>7. new = [r EXCEPT !.s2c = <<h>>, !.server = "data"]
  BY <1>1, <1>4 DEF ConnSet, h
<1>8. [new EXCEPT !.c2s = Tail(@)] = final
  BY <1>1, <1>7, Zenon DEF ConnSet
<1> HIDE DEF taken, r
<1>9. final \in ConnSet
  BY <1>4, <1>5, Zenon DEF Good, ConnSet, ServerState
<1>10. Turns(final)
  BY <1>2, <1>4, <1>5, <1>6 DEF Good, ConnSet, Turns
<1>11. Agreed(final) /\ Pinned(final, pin)
  BY <1>5 DEF Good, ConnSet, Agreed, Pinned
<1>12. Certified(final, ortc, certified)
  BY <1>3, <1>4, <1>5 DEF Good, ConnSet, Certified
<1>13. Confirmed(final, ortc)
  BY <1>3, <1>4, <1>5, <1>14 DEF Good, ConnSet, Confirmed, Answered
<1> QED BY <1>8, <1>9, <1>10, <1>11, <1>12, <1>13 DEF Good

LEMMA OnFirstInv ==
    ASSUME Inv, NEW c \in Conn, server_on_first(c)
    PROVE  Inv'
<1> DEFINE r     == conn[c]
           frame == Head(r.c2s)
           ack   == [type |-> "ServerAck",
                     ek_hash |-> enc_key_hash(Keys(server.server_pk,
                                                   frame.payload))]
           new   == IF frame.type = "ClientHelloOneRtt"
                      THEN [r EXCEPT !.s2c = Append(@, server_hello),
                                     !.server = "data"]
                      ELSE Process(c, frame.payload, <<ack>>)
           final == [new EXCEPT !.c2s = Tail(@)]
<1>1. /\ r.server = "first" /\ r.c2s # <<>>
      /\ Step(c, final)
  BY Zenon DEF server_on_first
<1>2. r \in ConnSet /\ Good(r, ortc, pin, certified) /\ server # None
  BY <1>1, ConnGood DEF Inv
<1>3. Good(final, ortc, pin, certified)
  <2>1. CASE Hello(frame)
    BY <1>1, <1>2, <2>1, AnswerHello, Zenon DEF Hello
  <2>2. CASE ~Hello(frame)
    <3>1. frame \in ClientFrame /\ r.s2c = <<>>
      BY <1>1, <1>2, LastFrame, Zenon DEF Good, Turns, ConnSet
    <3>2. frame.payload \in PayloadSet
      BY <2>2, <3>1 DEF ClientFrame, Hello
    <3>3. server.server_pk \in ServerPk
      BY <1>2, SessionAssumption DEF Inv, Globals
    <3>4. Keys(server.server_pk, frame.payload) \in KeyOrNone
      BY <3>2, <3>3 DEF KeyOrNone
    <3>5. ack \in ServerFrame
      BY <3>4 DEF ServerFrame
    <3>6. <<ack>> \in Seq(ServerFrame)
      BY <3>5
    <3>7. new = Process(c, frame.payload, <<ack>>)
      BY <2>2 DEF Hello
    <3>8. Good(new, ortc, pin, certified) /\ new.c2s = r.c2s
      BY <1>1, <1>2, <2>2, <3>1, <3>4, <3>6, <3>7, ProcessGood, ZenonT(40)
    <3> QED BY <1>1, <3>8, ServerTakes, Zenon
  <2> QED BY <2>1, <2>2, Zenon
<1> QED BY <1>1, <1>2, <1>3, StepInv, Zenon

LEMMA OnDataInv ==
    ASSUME Inv, NEW c \in Conn, server_on_client_data(c)
    PROVE  Inv'
<1> DEFINE r     == conn[c]
           frame == Head(r.c2s)
           new   == IF frame.type = "ClientData"
                      THEN Process(c, frame.payload, <<>>)
                      ELSE [r EXCEPT !.server = "gone"]
           final == [new EXCEPT !.c2s = Tail(@)]
<1>1. r.server = "data" /\ r.c2s # <<>> /\ Step(c, final)
  BY DEF server_on_client_data
<1>2. r \in ConnSet /\ Good(r, ortc, pin, certified) /\ server # None
  BY <1>1, ConnGood DEF Inv
<1>3. Good(new, ortc, pin, certified) /\ new.c2s = r.c2s
  <2>1. CASE frame.type = "ClientData"
    <3>1. new = Process(c, frame.payload, <<>>) /\ <<>> \in Seq(ServerFrame)
      BY <2>1
    <3> QED BY <1>1, <1>2, <2>1, <3>1, ProcessGood, Zenon DEF Hello
  <2>2. CASE frame.type # "ClientData"
    BY <1>2, <2>2, ServerEnds DEF ConnSet
  <2> QED BY <2>1, <2>2
<1> HIDE DEF new
<1>4. Good(final, ortc, pin, certified)
  BY <1>1, <1>3, ServerTakes
<1> QED BY <1>1, <1>2, <1>4, StepInv

-----------------------------------------------------------------------------
(* The daemons.                                                            *)

LEMMA OrtcEndsInv ==
    ASSUME Inv, ortc_ends
    PROVE  Inv'
<1> DEFINE lost(c) == [conn[c] EXCEPT !.client = "failed", !.cached = None,
                                      !.used = None, !.ckeys = None]
<1>1. /\ pin' = None /\ UNCHANGED <<ortc, server, certified>>
      /\ conn' = [c \in Conn |-> IF conn[c].client = "idle" THEN conn[c]
                                                            ELSE lost(c)]
      /\ troubles' \in 0 .. MaxTroubles
  <2>1. Trouble
    BY Zenon DEF ortc_ends
  <2>2. troubles' \in 0 .. MaxTroubles
    BY <2>1, SessionAssumption DEF Trouble, Inv, Globals
  <2> QED BY <2>2, Zenon DEF ortc_ends
<1>2. ASSUME NEW c \in Conn
      PROVE  /\ Good(conn'[c], ortc, None, certified)
             /\ conn'[c].server = conn[c].server
  <2>1. CASE conn[c].client = "idle"
    BY <1>1, <2>1, ConnGood, Zenon DEF Good, Pinned
  <2>2. CASE conn[c].client # "idle"
    <3>1. conn'[c] = lost(c)
      BY <1>1, <2>2, Zenon
    <3>2. Good(lost(c), ortc, None, certified)
      BY ConnGood, Zenon DEF Good, ConnSet, ClientState, Turns, Agreed, Pinned,
         Certified, Trusted, Confirmed, Answered
    <3> QED BY <3>1, <3>2, ConnGood DEF ConnSet
  <2> QED BY <2>1, <2>2
<1>3. conn' \in [Conn -> ConnSet]
  BY <1>1, <1>2, Zenon DEF Good
<1>4. Globals'
  BY <1>1, Zenon DEF Inv, Globals, Presents, Trusted, PkOrNone
<1> QED BY <1>1, <1>2, <1>3, <1>4, Zenon DEF Inv

LEMMA OrtdEndsInv ==
    ASSUME Inv, ortd_ends
    PROVE  Inv'
<1>1. /\ server' = None /\ UNCHANGED <<ortc, pin, certified>>
      /\ conn' = [c \in Conn |-> IF conn[c].server = "idle" THEN conn[c]
                                 ELSE [conn[c] EXCEPT !.server = "gone"]]
      /\ troubles' \in 0 .. MaxTroubles
  BY SessionAssumption DEF ortd_ends, Trouble, Inv, Globals
<1>2. ASSUME NEW c \in Conn
      PROVE  /\ Good(conn'[c], ortc, pin, certified)
             /\ conn'[c].server \in {"idle", "gone"}
  <2>1. CASE conn[c].server = "idle"
    BY <1>1, <2>1, ConnGood
  <2>2. CASE conn[c].server # "idle"
    BY <1>1, <2>2, ConnGood, ServerEnds DEF ConnSet
  <2> QED BY <2>1, <2>2
<1>3. conn' \in [Conn -> ConnSet]
  BY <1>1, <1>2 DEF Good
<1>4. Globals'
  BY <1>1 DEF Inv, Globals
<1> QED BY <1>1, <1>2, <1>3, <1>4 DEF Inv

LEMMA OrtdStartsInv ==
    ASSUME Inv, ortd_starts
    PROVE  Inv'
<1>1. /\ server' \in ServerConfig
      /\ certified' = certified \cup Presents(server')
      /\ UNCHANGED <<ortc, pin, conn, troubles>>
  BY DEF ortd_starts
<1>2. ASSUME NEW c \in Conn PROVE Good(conn[c], ortc, pin, certified')
  BY <1>1, ConnGood DEF Good, Certified, Trusted, ShowsCertified
<1>3. server' # None
  BY <1>1, SessionAssumption
<1>4. Presents(server') \subseteq ServerPk /\ Presents(server)' = Presents(server')
  BY <1>1, SessionAssumption DEF Presents
<1>5. Globals'
  BY <1>1, <1>4 DEF Inv, Globals, Trusted
<1> QED BY <1>1, <1>2, <1>3, <1>5, Zenon DEF Inv

-----------------------------------------------------------------------------
LEMMA InitInv == Init => Inv
<1> SUFFICES ASSUME Init PROVE Inv
  OBVIOUS
<1>1. Unused \in ConnSet
  BY DEF Unused, ConnSet, ClientState, ServerState, PkOrNone,
     KeyOrNone
<1>2. Good(Unused, ortc, pin, certified)
  BY <1>1 DEF Unused, Good, Turns, Agreed, Pinned, Certified,
     Trusted, Confirmed
<1>3. Globals
  BY SessionAssumption DEF Init, Globals, Presents, Trusted, PkOrNone
<1>4. Unused.server = "idle"
  BY DEF Unused
<1> HIDE DEF Unused
<1> QED BY <1>1, <1>2, <1>3, <1>4 DEF Init, Inv

LEMMA NextInv == Inv /\ [Next]_vars => Inv'
<1> SUFFICES ASSUME Inv, [Next]_vars PROVE Inv'
  OBVIOUS
<1>1. CASE UNCHANGED vars
  BY <1>1 DEF vars, Inv, Globals, Presents
<1>2. ASSUME NEW c \in Conn,
             \/ Connect(c) \/ ConnectFails(c) \/ client_step(c)
             \/ ClientIoError(c) \/ server_step(c) \/ Refuse(c)
      PROVE  Inv'
  BY <1>2, ConnectInv, ConnectFailsInv, SamplePinInv, ZeroRttInv, HelloInv,
     FinishInv, ClientEndInv, ReadAckInv, StorePinInv, OnFirstInv, OnDataInv,
     ServerEndInv, RefuseInv DEF client_step, server_step
<1> QED BY <1>1, <1>2, OrtcEndsInv, OrtdEndsInv, OrtdStartsInv DEF Next

\* The inductive invariant: at every connection at most one frame is under
\* way, and what it carries agrees with the keys, the pin and the certified
\* keys of the moment.
THEOREM InvHolds == Spec => []Inv
BY InitInv, NextInv, PTL DEF Spec

\* client_open and server_accept never hold more than one frame in flight
\* and stay in their states.
THEOREM TypeCorrect == Spec => []TypeOK
<1>1. Inv => TypeOK
  BY DEF Inv, Globals, Good, ConnSet, Turns, TypeOK, PkOrNone
<1> QED BY <1>1, InvHolds, PTL

\* Both ends of an established connection hold the same keys, whatever keys
\* ortd was restarted with and whatever pin the client used.
THEOREM KeysAgree == Spec => []KeyAgreement
<1>1. Inv => KeyAgreement
  BY DEF Inv, Good, Agreed, KeyAgreement
<1> QED BY <1>1, InvHolds, PTL

\* A strict client opens connections with, and pins, certified keys only.
THEOREM StrictIsCertified == Spec => []StrictMeansCertified
<1>1. Inv => StrictMeansCertified
  BY DEF Inv, Globals, Good, Certified, Trusted, StrictMeansCertified
<1> QED BY <1>1, InvHolds, PTL

\* The down task of forward() goes on after a 0-RTT opening only if the ack it
\* read was about its own keys: the server derived the same.
THEOREM ZeroRttIsConfirmed == Spec => []ZeroRttConfirmed
<1>1. Inv => ZeroRttConfirmed
  BY DEF Inv, Good, Confirmed, ZeroRttConfirmed, ZeroRtt
<1> QED BY <1>1, InvHolds, PTL

\* Nothing but the end of ortc makes a connection forget the pin it read.
Remembers ==
    /\ pin' = pin
    /\ \A c \in Conn : conn[c].cached # None => conn'[c].cached # None

LEMMA StepRemembers ==
    ASSUME Inv, pin # None, NEW c \in Conn, NEW new,
           conn' = [conn EXCEPT ![c] = new], pin' = pin,
           new.cached \in {conn[c].cached, pin}
    PROVE  Remembers
BY DEF Inv, Remembers

LEMMA ClientRemembers ==
    ASSUME Inv, pin # None, NEW c \in Conn,
           Connect(c) \/ ConnectFails(c) \/ client_step(c) \/ ClientIoError(c)
    PROVE  Remembers
<1> DEFINE r == conn[c]
<1>1. r \in ConnSet
  BY ConnGood
<1>2. ASSUME NEW x, Step(c, [r EXCEPT !.client = x]) PROVE Remembers
  BY <1>1, <1>2, StepRemembers, Zenon DEF Step, ConnSet
<1>3. CASE \/ ConnectFails(c) \/ ClientHelloEof(c) \/ ClientIoError(c)
           \/ AckEof(c)
  BY <1>2, <1>3 DEF ConnectFails, ClientHelloEof, ClientIoError, AckEof
<1>4. CASE Connect(c)
  <2> DEFINE new == [r EXCEPT !.client = "connected", !.server = "first"]
  <2>1. new.cached = r.cached
    BY <1>1 DEF ConnSet
  <2> QED BY <1>4, <2>1, StepRemembers, Zenon DEF Connect, Step
<1>5. CASE SamplePin(c)
  <2> DEFINE new == [r EXCEPT !.cached = pin, !.client = "open"]
  <2>1. new.cached = pin
    BY <1>1 DEF ConnSet
  <2> QED BY <1>5, <2>1, StepRemembers, Zenon DEF SamplePin, Step
<1>6. ASSUME NEW t, NEW pk PROVE Opened(c, t, pk).cached = r.cached
                                 /\ [Opened(c, t, pk) EXCEPT !.s2c = Tail(@)].cached
                                      = r.cached
  BY <1>1 DEF Opened, ConnSet
<1>7. CASE client_zero_rtt(c)
  BY <1>6, <1>7, StepRemembers, Zenon DEF client_zero_rtt, Step
<1>8. CASE client_one_rtt_hello(c)
  <2> DEFINE new == [r EXCEPT !.client = "hello",
                       !.c2s = Append(@, [type |-> "ClientHelloOneRtt"])]
  <2>1. new.cached = r.cached
    BY <1>1 DEF ConnSet
  <2> QED BY <1>8, <2>1, StepRemembers, Zenon DEF client_one_rtt_hello, Step
<1>9. CASE client_one_rtt_finish(c)
  <2> DEFINE failed == [r EXCEPT !.client = "failed"]
  <2>1. [failed EXCEPT !.s2c = Tail(@)].cached = r.cached
    BY <1>1 DEF ConnSet
  <2>2. PICK new \in {Opened(c, "ClientData", Head(r.s2c).server_pk), failed} :
          Step(c, [new EXCEPT !.s2c = Tail(@)])
    BY <1>9, Zenon DEF client_one_rtt_finish
  <2>3. [new EXCEPT !.s2c = Tail(@)].cached = r.cached
    <3> HIDE DEF failed, r
    <3>1. CASE new = failed
      BY <2>1, <3>1
    <3>2. CASE new = Opened(c, "ClientData", Head(r.s2c).server_pk)
      BY <1>6, <3>2
    <3> QED BY <2>2, <3>1, <3>2
  <2> QED BY <2>2, <2>3, StepRemembers, Zenon DEF Step
<1>10. CASE ReadAck(c)
  <2>1. PICK x : Step(c, [r EXCEPT !.s2c = Tail(@), !.client = x])
    BY <1>10, Zenon DEF ReadAck
  <2> DEFINE new == [r EXCEPT !.s2c = Tail(@), !.client = x]
  <2>2. new.cached = r.cached
    BY <1>1 DEF ConnSet
  <2> QED BY <2>1, <2>2, StepRemembers, Zenon DEF Step
<1>11. CASE StorePin(c)
  <2> DEFINE x == IF ZeroRtt(c) THEN "ack" ELSE "forward"
             new == [r EXCEPT !.client = x]
  <2>1. new.cached = r.cached
    BY <1>1 DEF ConnSet
  <2>2. conn' = [conn EXCEPT ![c] = new] /\ pin' = pin
    BY <1>11 DEF StorePin, PinStored
  <2> QED BY <2>1, <2>2, StepRemembers, Zenon
<1> QED BY <1>3, <1>4, <1>5, <1>7, <1>8, <1>9, <1>10, <1>11 DEF client_step

LEMMA ServerRemembers ==
    ASSUME Inv, pin # None, NEW c \in Conn, server_step(c) \/ Refuse(c)
    PROVE  Remembers
<1> DEFINE r == conn[c]
           gone == [r EXCEPT !.server = "gone"]
<1>1. r \in ConnSet
  BY ConnGood
<1>2. gone.cached = r.cached /\ [gone EXCEPT !.c2s = Tail(@)].cached = r.cached
  BY <1>1 DEF ConnSet
<1>3. ASSUME NEW p, NEW reply
      PROVE  [Process(c, p, reply) EXCEPT !.c2s = Tail(@)].cached = r.cached
  BY <1>1, <1>2 DEF Process, ConnSet
<1>4. CASE ServerEof(c)
  BY <1>2, <1>4, StepRemembers, Zenon DEF ServerEof, Step
<1>5. CASE Refuse(c)
  BY <1>2, <1>5, StepRemembers, Zenon DEF Refuse
<1>6. CASE server_on_client_data(c)
  <2>1. PICK new \in {Process(c, Head(r.c2s).payload, <<>>), gone} :
          Step(c, [new EXCEPT !.c2s = Tail(@)])
    BY <1>6, Zenon DEF server_on_client_data
  <2>2. [new EXCEPT !.c2s = Tail(@)].cached = r.cached
    <3> HIDE DEF gone, r
    <3>1. CASE new = gone
      BY <1>2, <3>1
    <3>2. CASE new = Process(c, Head(r.c2s).payload, <<>>)
      BY <1>3, <3>2
    <3> QED BY <2>1, <3>1, <3>2
  <2> QED BY <2>1, <2>2, StepRemembers, Zenon DEF Step
<1>7. CASE server_on_first(c)
  <2> DEFINE hello == [r EXCEPT !.s2c = Append(@, server_hello),
                                !.server = "data"]
             ack == <<[type |-> "ServerAck",
                       ek_hash |-> enc_key_hash(Keys(server.server_pk,
                                                     Head(r.c2s).payload))]>>
  <2>1. PICK new \in {Process(c, Head(r.c2s).payload, ack), hello} :
          Step(c, [new EXCEPT !.c2s = Tail(@)])
    BY <1>7, Zenon DEF server_on_first
  <2>2. [hello EXCEPT !.c2s = Tail(@)].cached = r.cached
    BY <1>1 DEF ConnSet
  <2>3. [new EXCEPT !.c2s = Tail(@)].cached = r.cached
    <3> HIDE DEF hello, ack, r
    <3>1. CASE new = hello
      BY <2>2, <3>1
    <3>2. CASE new = Process(c, Head(r.c2s).payload, ack)
      BY <1>3, <3>2
    <3> QED BY <2>1, <3>1, <3>2
  <2> QED BY <2>1, <2>3, StepRemembers, Zenon DEF Step
<1> QED BY <1>4, <1>5, <1>6, <1>7 DEF server_step

LEMMA NextRemembers ==
    ASSUME Inv, Next, ~ortc_ends, pin # None
    PROVE  Remembers
<1>1. CASE ortd_ends \/ ortd_starts
  BY <1>1, ConnGood DEF ortd_ends, ortd_starts, ConnSet, Remembers
<1> QED BY <1>1, ClientRemembers, ServerRemembers DEF Next

\* The pin of a running ortc never changes, and a connection that read it is
\* opened with that key or not at all.
THEOREM PinKept == Spec => PinIsKept
<1>1. ASSUME Inv, Inv', [Next]_vars, pin # None
      PROVE  /\ pin' \in {pin, None}
             /\ \A c \in Conn : conn[c].cached # None
                                  => conn'[c].used \in {None, pin}
  <2>1. CASE UNCHANGED vars
    BY <1>1, <2>1, SMTT(20) DEF vars, Inv, Good, Pinned
  <2>2. CASE Next /\ ~ortc_ends
    BY <1>1, <2>2, NextRemembers, SMTT(20) DEF Remembers, Inv, Good, Pinned
  <2>3. CASE ortc_ends
    BY <1>1, <2>3, ConnGood, Zenon DEF ortc_ends, Good, Pinned, ConnSet
  <2> QED BY <1>1, <2>1, <2>2, <2>3, SMTT(20)
<1>2. Inv /\ Inv' /\ [Next]_vars =>
        [pin # None =>
            /\ pin' \in {pin, None}
            /\ \A c \in Conn : conn[c].cached # None
                                 => conn'[c].used \in {None, pin}]_vars
  BY <1>1
<1> QED BY <1>2, InvHolds, PTL DEF Spec, PinIsKept

-----------------------------------------------------------------------------
(* The key files.  None of their invariants is inductive alone: what an    *)
(* ortd presents depends on what is in the directory, and that on what the *)
(* running command has still to write.                                     *)

\* A running command is gen-key or gen-cert, and what gen-cert has still to
\* write is about the key that is stored.
WriterOK ==
    writer # NoWrites =>
        /\ writer.at <= writer.until
        /\ writer.until \in {SIGN_KEY_FILE, cert_signing_key}
        /\ writer.until = SIGN_KEY_FILE => rekeyed
        /\ writer.until = cert_signing_key =>
              IF writer.at = KEM_KEY_FILE THEN file[KEM_KEY_FILE] \notin Key
                                          ELSE file[KEM_KEY_FILE] = writer.key
        /\ writer.until = cert_signing_key /\ writer.at = cert_signing_key =>
              file[CERT_FILE] = writer.key

\* As long as gen-key is not used, the directory knows one key at most.
OneKey ==
    ~rekeyed =>
        /\ file[CERT_FILE] \in {Absent, Cut, file[KEM_KEY_FILE]}
        /\ file[KEM_KEY_FILE] \notin Key => file[CERT_FILE] = Absent
        /\ starting \in {Absent, file[KEM_KEY_FILE]}
        /\ served \subseteq {file[KEM_KEY_FILE]}
        /\ loaded.certificate \in {Absent, Cut, loaded.server_pk}

FinishedOK ==
    finished =>
        /\ file[KEM_KEY_FILE] \in Key
        /\ file[CERT_FILE] = file[KEM_KEY_FILE]
        /\ ~writer.open

\* Unless two first starts of ortc overlapped, one at most is to write the key
\* file, which then has no key yet, and the ortcs used the key it has.
ClientOK ==
    ~raced =>
        /\ identities \subseteq {client_key}
        /\ \A p \in Ortc : drawn[p] # NoDraw => client_key \notin Key
        /\ \A p, q \in Ortc :
              drawn[p] # NoDraw /\ drawn[q] # NoDraw => p = q

\* The types of the directory and of the key file.
DirType ==
    /\ file \in [File -> Content]
    /\ writer \in [at : File, until : File, key : Key, open : BOOLEAN]
                     \cup {NoWrites}
    /\ starting \in Key \cup {Absent}
    /\ loaded \in [server_pk : Key, certificate : Content] \cup {NotLoaded}
    /\ served \subseteq Key
    /\ finished \in BOOLEAN
    /\ rekeyed \in BOOLEAN

ClientType ==
    /\ client_key \in Content
    /\ drawn \in [Ortc -> [key : Key, open : BOOLEAN] \cup {NoDraw}]
    /\ identities \subseteq Key
    /\ raced \in BOOLEAN

\* The inductive invariant.
FilesInv ==
    /\ DirType
    /\ ClientType
    /\ commands \in 0 .. MaxCommands
    /\ WriterOK
    /\ OneKey
    /\ FinishedOK
    /\ ClientOK

-----------------------------------------------------------------------------
USE DEF KEM_KEY_FILE, SIGN_KEY_FILE, CERT_FILE, cert_signing_key

LEMMA FilesInitInv == FilesInit => FilesInv
<1> SUFFICES ASSUME FilesInit PROVE FilesInv
  OBVIOUS
<1>1. DirType /\ commands \in 0 .. MaxCommands
  <2>1. commands \in 0 .. MaxCommands
    BY MaxCommandsAssumption DEF FilesInit
  <2>2. file \in [File -> Content]
    BY DEF FilesInit, Content
  <2>3. finished \in BOOLEAN /\ rekeyed \in BOOLEAN
    BY Zenon DEF FilesInit
  <2> QED BY <2>1, <2>2, <2>3 DEF FilesInit, DirType
<1>2. \A f \in File : file[f] = Absent
  BY DEF FilesInit
<1>3. WriterOK /\ FinishedOK
  BY DEF FilesInit, WriterOK, FinishedOK
<1>4. OneKey
  BY <1>2 DEF FilesInit, OneKey, NotLoaded, File
<1>5. ClientType /\ ClientOK
  <2>1. drawn \in [Ortc -> [key : Key, open : BOOLEAN] \cup {NoDraw}]
    BY DEF FilesInit
  <2>2. raced \in BOOLEAN
    BY Zenon DEF FilesInit
  <2> QED BY <2>1, <2>2 DEF FilesInit, ClientType, ClientOK, Content
<1> QED BY <1>1, <1>3, <1>4, <1>5 DEF FilesInv

\* The key a command draws is one, and the commands stay in their bound.
LEMMA FreshKey ==
    ASSUME FilesInv, Command
    PROVE  fresh_key \in Key /\ commands' \in 0 .. MaxCommands
BY MaxCommandsAssumption DEF FilesInv, Command, fresh_key, Key

\* The commands of ortd leave the key file of the ortcs alone ...
LEMMA ClientAlone ==
    ASSUME FilesInv, UNCHANGED clientVars PROVE ClientType' /\ ClientOK'
BY DEF FilesInv, ClientType, ClientOK, clientVars

\* ... and an ortc leaves the directory alone.
LEMMA DirectoryAlone ==
    ASSUME FilesInv, UNCHANGED dirVars
    PROVE  DirType' /\ WriterOK' /\ OneKey' /\ FinishedOK'
BY DEF FilesInv, DirType, WriterOK, OneKey, FinishedOK, dirVars

LEMMA GenKeyStep == ASSUME FilesInv, gen_key PROVE FilesInv'
<1>1. fresh_key \in Key /\ commands' \in 0 .. MaxCommands
  BY FreshKey DEF gen_key
<1>2. DirType'
  BY <1>1 DEF FilesInv, DirType, gen_key, Writes, File
<1>3. WriterOK'
  BY DEF FilesInv, WriterOK, gen_key, Writes
<1>4. OneKey' /\ FinishedOK'
  BY DEF FilesInv, OneKey, FinishedOK, gen_key, Writes
<1> QED BY <1>1, <1>2, <1>3, <1>4, ClientAlone DEF FilesInv, gen_key

LEMMA GenCertStep == ASSUME FilesInv, gen_cert PROVE FilesInv'
<1>1. fresh_key \in Key /\ commands' \in 0 .. MaxCommands
  BY FreshKey DEF gen_cert
<1>2. DirType'
  BY <1>1
     DEF FilesInv, DirType, gen_cert, load_or_make_kem, Writes, File, Absent, Key
<1>3. WriterOK'
  <2>1. CASE file[KEM_KEY_FILE] \in Key
    BY <2>1 DEF FilesInv, WriterOK, gen_cert, load_or_make_kem, Writes, Absent, Key
  <2>2. CASE file[KEM_KEY_FILE] = Absent
    BY <2>2 DEF FilesInv, WriterOK, gen_cert, load_or_make_kem, Writes, Absent, Key
  <2>3. CASE file[KEM_KEY_FILE] \notin Key \cup {Absent}
    BY <2>3 DEF FilesInv, WriterOK, gen_cert, load_or_make_kem
  <2> QED BY <2>1, <2>2, <2>3
<1>4. ~writer'.open
  BY DEF gen_cert, load_or_make_kem, Writes, NoWrites
<1>5. OneKey' /\ FinishedOK'
  BY <1>4 DEF FilesInv, OneKey, FinishedOK, gen_cert
<1> QED BY <1>1, <1>2, <1>3, <1>5, ClientAlone DEF FilesInv, gen_cert

LEMMA ClientStep ==
    ASSUME FilesInv, NEW p \in Ortc, load_client_config(p) PROVE FilesInv'
<1>1. fresh_key \in Key /\ commands' \in 0 .. MaxCommands
  BY FreshKey DEF load_client_config
<1>2. client_key' = client_key /\ UNCHANGED dirVars
  BY DEF load_client_config
<1>3. CASE client_key \in Key
  <2>1. identities' = identities \cup {client_key} /\ UNCHANGED <<drawn, raced>>
    BY <1>3 DEF load_client_config, Absent, Key
  <2>2. ClientType'
    BY <1>2, <1>3, <2>1 DEF FilesInv, ClientType
  <2>3. ClientOK'
    BY <1>2, <2>1 DEF FilesInv, ClientOK
  <2> QED BY <1>1, <1>2, <2>2, <2>3, DirectoryAlone DEF FilesInv
<1>4. CASE client_key = Absent
  <2>1. /\ drawn' = [drawn EXCEPT ![p] = Draws(fresh_key)]
        /\ raced' = (raced \/ \E q \in Ortc : drawn[q] # NoDraw)
        /\ identities' = identities
    BY <1>4 DEF load_client_config, Absent, Key
  <2>2. Draws(fresh_key) \in [key : Key, open : BOOLEAN]
    BY <1>1 DEF Draws
  <2>3. raced' \in BOOLEAN
    BY <2>1, Zenon
  <2>4. drawn' \in [Ortc -> [key : Key, open : BOOLEAN] \cup {NoDraw}]
    BY <2>1, <2>2 DEF FilesInv, ClientType
  <2>5. ClientType'
    BY <1>2, <2>1, <2>3, <2>4 DEF FilesInv, ClientType
  <2>6. ASSUME ~raced' PROVE ~raced /\ \A q \in Ortc : drawn[q] = NoDraw
    BY <2>1, <2>6, Zenon
  <2>7. \A q \in Ortc : q # p => drawn'[q] = drawn[q]
    BY <2>1 DEF FilesInv, ClientType
  <2>8. client_key' \notin Key
    BY <1>2, <1>4 DEF Absent, Key
  <2>9. ClientOK'
    BY <1>2, <2>1, <2>6, <2>7, <2>8, SMTT(20) DEF FilesInv, ClientOK
  <2> QED BY <1>1, <1>2, <2>5, <2>9, DirectoryAlone DEF FilesInv
<1>5. CASE client_key \notin Key \cup {Absent}
  <2>1. UNCHANGED clientVars
    BY <1>2, <1>5 DEF load_client_config, clientVars
  <2> QED BY <1>1, <1>2, <2>1, DirectoryAlone, ClientAlone DEF FilesInv
<1> QED BY <1>3, <1>4, <1>5

LEMMA ClientWriteStep ==
    ASSUME FilesInv, NEW p \in Ortc, write_client_key(p) \/ StopClient(p)
    PROVE  FilesInv'
<1>1. UNCHANGED dirVars /\ commands' = commands
  BY DEF write_client_key, TruncateClientKey, FillClientKey, StopClient
<1>2. raced' = raced
  BY DEF write_client_key, TruncateClientKey, FillClientKey, StopClient
<1>3. drawn \in [Ortc -> [key : Key, open : BOOLEAN] \cup {NoDraw}]
  BY DEF FilesInv, ClientType
<1>4. drawn[p] # NoDraw
  BY DEF write_client_key, TruncateClientKey, FillClientKey, StopClient, NoDraw
<1>5. drawn[p] \in [key : Key, open : BOOLEAN]
  BY <1>3, <1>4
<1>6. ASSUME drawn' \in [Ortc -> [key : Key, open : BOOLEAN] \cup {NoDraw}],
             client_key' \in Content, identities' \subseteq Key, ClientOK'
      PROVE  FilesInv'
  BY <1>1, <1>2, <1>6, DirectoryAlone DEF FilesInv, ClientType
<1>7. identities \subseteq Key
  BY DEF FilesInv, ClientType
<1>8. ~raced => /\ identities = {}
                /\ \A q \in Ortc : q # p => drawn[q] = NoDraw
  BY <1>4, <1>7 DEF FilesInv, ClientOK
<1>9. \A q \in Ortc : q # p => drawn'[q] = drawn[q]
  BY <1>3 DEF write_client_key, TruncateClientKey, FillClientKey, StopClient
<1>10. CASE TruncateClientKey(p)
  <2>1. client_key' = Cut /\ identities' = identities
    BY <1>10 DEF TruncateClientKey
  <2>2. Cut \in Content /\ Cut \notin Key
    BY DEF Cut, Content, Key
  <2>3. drawn' \in [Ortc -> [key : Key, open : BOOLEAN] \cup {NoDraw}]
    BY <1>3, <1>5, <1>10 DEF TruncateClientKey
  <2>4. ClientOK'
    BY <1>2, <1>8, <1>9, <2>1, <2>2 DEF ClientOK
  <2> QED BY <1>6, <1>7, <2>1, <2>2, <2>3, <2>4
<1>11. CASE FillClientKey(p)
  <2>1. /\ client_key' = drawn[p].key
        /\ identities' = identities \cup {drawn[p].key}
        /\ drawn' = [drawn EXCEPT ![p] = NoDraw]
    BY <1>11 DEF FillClientKey
  <2>2. drawn[p].key \in Key
    BY <1>5
  <2>3. drawn' \in [Ortc -> [key : Key, open : BOOLEAN] \cup {NoDraw}]
    BY <1>3, <2>1
  <2>4. drawn'[p] = NoDraw
    BY <1>3, <2>1
  <2>5. ClientOK'
    BY <1>2, <1>8, <1>9, <2>1, <2>4 DEF ClientOK
  <2> QED BY <1>6, <1>7, <2>1, <2>2, <2>3, <2>5 DEF Content
<1>12. CASE StopClient(p)
  <2>1. /\ client_key' = client_key /\ identities' = identities
        /\ drawn' = [drawn EXCEPT ![p] = NoDraw]
    BY <1>12 DEF StopClient
  <2>2. drawn' \in [Ortc -> [key : Key, open : BOOLEAN] \cup {NoDraw}]
    BY <1>3, <2>1
  <2>3. drawn'[p] = NoDraw /\ client_key \in Content
    BY <1>3, <2>1 DEF FilesInv, ClientType
  <2>4. ClientOK'
    BY <1>2, <1>8, <1>9, <2>1, <2>3 DEF ClientOK
  <2> QED BY <1>6, <1>7, <2>1, <2>2, <2>3, <2>4
<1> QED BY <1>10, <1>11, <1>12 DEF write_client_key

\* What is known of a running command.
LEMMA WriterFacts ==
    ASSUME FilesInv, writer # NoWrites
    PROVE  /\ writer \in [at : File, until : File, key : Key, open : BOOLEAN]
           /\ writer.at \in File /\ writer.until \in File
           /\ writer.key \in Key
BY DEF FilesInv, DirType

LEMMA TruncateStep == ASSUME FilesInv, Truncate PROVE FilesInv'
<1>1. /\ writer \in [at : File, until : File, key : Key, open : BOOLEAN]
      /\ writer.at \in File /\ writer.until \in File
      /\ writer.key \in Key
  BY WriterFacts DEF Truncate
<1>2. Cut \in Content /\ Cut \notin Key /\ Cut # Absent
  BY DEF Cut, Absent, Content, Key
<1>3. \A f \in File : file'[f] = IF f = writer.at THEN Cut ELSE file[f]
  BY DEF FilesInv, DirType, Truncate
<1>4. /\ writer'.at = writer.at /\ writer'.until = writer.until
      /\ writer'.key = writer.key /\ writer'.open
  BY <1>1 DEF Truncate
<1>5. DirType'
  BY <1>1, <1>2, Zenon DEF FilesInv, DirType, Truncate
<1>6. writer' # NoWrites /\ KEM_KEY_FILE \in File /\ CERT_FILE \in File
  BY <1>4 DEF NoWrites, File
<1>7. WriterOK'
  BY <1>1, <1>2, <1>3, <1>4, <1>6
     DEF FilesInv, WriterOK, Truncate, File
<1>8. OneKey'
  BY <1>1, <1>2, <1>3, <1>6
     DEF FilesInv, DirType, WriterOK, OneKey, Truncate, File, Content
<1>9. FinishedOK'
  BY DEF FinishedOK, Truncate
<1>10. ClientType' /\ ClientOK'
  BY ClientAlone DEF Truncate
<1> QED BY <1>5, <1>7, <1>8, <1>9, <1>10 DEF FilesInv, Truncate

LEMMA FillStep == ASSUME FilesInv, Fill PROVE FilesInv'
<1>1. writer # NoWrites
  BY DEF Fill, NoWrites
<1>2. /\ writer \in [at : File, until : File, key : Key, open : BOOLEAN]
      /\ writer.at \in File /\ writer.until \in File
      /\ writer.key \in Key
  BY <1>1, WriterFacts
<1>3. \A f \in File : file'[f] = IF f = writer.at THEN writer.key ELSE file[f]
  BY DEF FilesInv, DirType, Fill
<1>4. writer.key \notin {Absent, Cut}
  BY <1>2, MaxCommandsAssumption DEF Key, Absent, Cut
<1>5. KEM_KEY_FILE \in File /\ CERT_FILE \in File
  BY DEF File
<1>6. finished' => writer.at = cert_signing_key
  BY Zenon DEF Fill
<1>7. ~writer'.open
  BY DEF Fill, NoWrites, Writes
<1>8. finished' \in BOOLEAN
  BY Zenon DEF Fill
<1>9. writer.at # writer.until => writer.at + 1 \in File
  BY <1>1, <1>2 DEF FilesInv, WriterOK, File
<1>10. DirType'
  BY <1>2, <1>8, <1>9 DEF FilesInv, DirType, Fill, Writes, Content
<1>11. WriterOK'
  <2>1. CASE writer.at = writer.until
    BY <2>1 DEF Fill, WriterOK
  <2>2. CASE writer.at # writer.until
    <3>1. /\ writer'.at = writer.at + 1 /\ writer'.until = writer.until
          /\ writer'.key = writer.key
      BY <2>2 DEF Fill, Writes
    <3> QED
      BY <1>1, <1>2, <1>3, <1>5, <2>2, <3>1 DEF FilesInv, WriterOK, Fill, File
  <2> QED BY <2>1, <2>2
<1>12. OneKey'
  BY <1>1, <1>2, <1>3, <1>4, <1>5 DEF FilesInv, DirType, WriterOK, OneKey, Fill, File
<1>13. FinishedOK'
  BY <1>1, <1>2, <1>3, <1>5, <1>6, <1>7
     DEF FilesInv, WriterOK, FinishedOK, Fill, File
<1>14. ClientType' /\ ClientOK'
  BY ClientAlone DEF Fill
<1> QED BY <1>10, <1>11, <1>12, <1>13, <1>14 DEF FilesInv, Fill

LEMMA StopStep == ASSUME FilesInv, Stop PROVE FilesInv'
<1>1. DirType' /\ WriterOK' /\ OneKey' /\ FinishedOK'
  BY DEF FilesInv, DirType, WriterOK, OneKey, FinishedOK, Stop, NoWrites
<1> QED BY <1>1, ClientAlone DEF FilesInv, Stop

LEMMA LoadStep == ASSUME FilesInv, load_server_config PROVE FilesInv'
<1>1. commands' \in 0 .. MaxCommands
  BY FreshKey DEF load_server_config, LoadKey, LoadCertificate, LoadEphemeral,
                  FilesInv
<1>2. ClientType' /\ ClientOK'
  BY ClientAlone DEF load_server_config, LoadKey, LoadCertificate, LoadEphemeral
<1>3. CASE LoadKey
  <2>1. DirType' /\ WriterOK' /\ OneKey' /\ FinishedOK'
    BY <1>3 DEF FilesInv, DirType, WriterOK, OneKey, FinishedOK, LoadKey,
                kem_secret_from_bytes
  <2> QED BY <1>1, <1>2, <2>1 DEF FilesInv
<1>4. CASE LoadCertificate
  <2>1. file[CERT_FILE] \in Content
    BY DEF FilesInv, DirType, File
  <2>2. DirType' /\ WriterOK' /\ OneKey' /\ FinishedOK'
    BY <1>4, <2>1
       DEF FilesInv, DirType, WriterOK, OneKey, FinishedOK, LoadCertificate
  <2> QED BY <1>1, <1>2, <2>2 DEF FilesInv
<1>5. CASE LoadEphemeral
  <2>1. fresh_key \in Key
    BY <1>5, FreshKey DEF LoadEphemeral
  <2>2. DirType' /\ WriterOK' /\ OneKey' /\ FinishedOK'
    BY <1>5, <2>1
       DEF FilesInv, DirType, WriterOK, OneKey, FinishedOK, LoadEphemeral, Content
  <2> QED BY <1>1, <1>2, <2>2 DEF FilesInv
<1> QED BY <1>3, <1>4, <1>5 DEF load_server_config

LEMMA FilesNextInv == FilesInv /\ [FilesNext]_FilesVars => FilesInv'
<1>1. ASSUME FilesInv, UNCHANGED FilesVars PROVE FilesInv'
  BY <1>1, ClientAlone, DirectoryAlone DEF FilesInv, FilesVars
<1>2. ASSUME FilesInv,
             NEW p \in Ortc,
             load_client_config(p) \/ write_client_key(p) \/ StopClient(p)
      PROVE  FilesInv'
  BY <1>2, ClientStep, ClientWriteStep
<1> QED
  BY <1>1, <1>2, GenKeyStep, GenCertStep, TruncateStep, FillStep, StopStep,
     LoadStep
     DEF FilesNext, write_key

\* The inductive invariant holds of every state of every behaviour.
THEOREM FilesInvHolds == FilesSpec => []FilesInv
BY FilesInitInv, FilesNextInv, PTL DEF FilesSpec

-----------------------------------------------------------------------------
\* The type invariant; every configuration load_server_config returns has a
\* key that was completely written.
THEOREM FilesTypeCorrect == FilesSpec => []FilesTypeOK
<1>1. FilesInv => FilesTypeOK
  BY DEF FilesInv, DirType, ClientType, FilesTypeOK
<1> QED BY <1>1, FilesInvHolds, PTL

\* Without gen-key no ortd presents a certificate of another key.
THEOREM CertMatches == FilesSpec => []CertMatchesUnlessRekeyed
<1>1. FilesInv => CertMatchesUnlessRekeyed
  BY DEF FilesInv, OneKey, CertMatchesUnlessRekeyed
<1> QED BY <1>1, FilesInvHolds, PTL

\* Without gen-key all ortds on a directory serve one key.
THEOREM ServedKey == FilesSpec => []ServedKeyKept
<1>1. FilesInv => ServedKeyKept
  BY DEF FilesInv, OneKey, ServedKeyKept
<1> QED BY <1>1, FilesInvHolds, PTL

\* All ortcs on a key file sign with one key, unless two first starts raced.
THEOREM ClientKey == FilesSpec => []ClientKeyKept
<1>1. FilesInv => ClientKeyKept
  BY DEF FilesInv, ClientOK, ClientKeyKept
<1> QED BY <1>1, FilesInvHolds, PTL

\* A finished gen-cert leaves a directory strict clients accept.
THEOREM GenCertRepairsDirectory == FilesSpec => []GenCertRepairs
<1>1. ASSUME NEW k
      PROVE  verify(Strict(NoCa), k, SelfSigned(k))
  BY DEF verify, Strict, NoCa, SelfSigned, Certificate, SignatureVerifies,
         extract_bound_server_pk
<1>2. FilesInv => GenCertRepairs
  BY <1>1 DEF FilesInv, FinishedOK, GenCertRepairs, CertificateOf,
              kem_secret_from_bytes
<1> QED BY <1>2, FilesInvHolds, PTL
=============================================================================
