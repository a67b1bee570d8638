--------------------------- MODULE ServerPayload ----------------------------
(***************************************************************************)
(* ort-core/src/handshake/server.rs, process_payload: the gate every       *)
(* client flight passes, in 0-RTT (server_on_first) as in 1-RTT            *)
(* (server_on_client_data).  Connection tasks call it with the strike      *)
(* mutex held and read the clock inside (ort-net/src/session.rs), so one   *)
(* call is one step.  The network delivers a flight any number of times,   *)
(* late, from any address and with fields altered; the server process may  *)
(* restart, which empties the cache.                                       *)
(***************************************************************************)
EXTENDS StrikeCache, Payload, Sequences

CONSTANTS
    Skew,                \* ServerConfig.skew_ms
    Flight,              \* the payloads that can reach the server
    Ip,                  \* peer addresses
    ServerPk,            \* server KEM keys
    MaxSetBacks          \* how often the wall clock may be set back while
                         \* one process runs

ASSUME SkewAssumption == Skew \in Millis

ASSUME MaxSetBacksAssumption == MaxSetBacks \in Nat

ASSUME FlightAssumption == \A f \in Flight : f.ts_millis \in Millis

VARIABLES
    now,                 \* the server's clock
    setbacks,            \* how often it was set back since the process started
    server_pk,           \* the key of the running process
    accepted,            \* history: when each flight established a session
                         \* since the process started
    unopened             \* history: the flights whose tag it recorded and
                         \* whose early data it could not open

vars == <<entries, last_evict, now, setbacks, server_pk, accepted, unopened>>

-----------------------------------------------------------------------------
Init ==
    /\ new
    /\ now \in Millis
    /\ setbacks = 0
    /\ server_pk \in ServerPk
    /\ accepted = [f \in Flight |-> <<>>]
    /\ unopened = {}

\* Faulty variant: the binding signature is not checked.
AuthenticUnsigned(f, peer_ip) ==
    /\ f.src_ip = peer_ip
    /\ check_window(now, f.ts_millis, Window, Skew)

\* Checks (a), (b) and (c); when one fails, process_payload returns before it
\* has changed anything.
Authentic(f, peer_ip) ==
    /\ f.src_ip = peer_ip
    /\ check_window(now, f.ts_millis, Window, Skew)
    /\ verify_client_binding(f)

\* Checks (a) to (c) pass, (d) finds the tag: Err(Replayed).
RejectReplay(f, peer_ip) ==
    /\ Authentic(f, peer_ip)
    /\ Replayed(replay_tag(f), now)
    /\ check_and_insert(replay_tag(f), now)
    /\ UNCHANGED <<now, setbacks, server_pk, accepted, unopened>>

\* Checks (a) to (d) pass, opening the early data in (e) fails; the tag stays
\* in the cache.
RejectUndecryptable(f, peer_ip) ==
    /\ Authentic(f, peer_ip)
    /\ ~Replayed(replay_tag(f), now)
    /\ ~Opens(server_pk, f)
    /\ check_and_insert(replay_tag(f), now)
    /\ unopened' = unopened \cup {f}
    /\ UNCHANGED <<now, setbacks, server_pk, accepted>>

\* Faulty variant: the clock is read before the task waits for the strike
\* mutex, so that the call may use a time other calls have already passed.
AcceptStaleClock(f, peer_ip) ==
    \E t \in 0 .. now :
        /\ f.src_ip = peer_ip
        /\ check_window(t, f.ts_millis, Window, Skew)
        /\ verify_client_binding(f)
        /\ ~Replayed(replay_tag(f), t)
        /\ Opens(server_pk, f)
        /\ check_and_insert(replay_tag(f), t)
        /\ accepted' = [accepted EXCEPT ![f] = Append(@, now)]
        /\ UNCHANGED <<now, setbacks, server_pk, unopened>>

\* Every check passes: Ok(ServerEstablished).
Accept(f, peer_ip) ==
    /\ Authentic(f, peer_ip)
    /\ ~Replayed(replay_tag(f), now)
    /\ Opens(server_pk, f)
    /\ check_and_insert(replay_tag(f), now)
    /\ accepted' = [accepted EXCEPT ![f] = Append(@, now)]
    /\ UNCHANGED <<now, setbacks, server_pk, unopened>>

process_payload(f, peer_ip) ==
    \/ RejectReplay(f, peer_ip)
    \/ RejectUndecryptable(f, peer_ip)
    \/ Accept(f, peer_ip)

Tick ==
    /\ now < MaxMillis
    /\ now' = now + 1
    /\ UNCHANGED <<entries, last_evict, setbacks, server_pk, accepted, unopened>>

\* SystemClock reads the wall clock, which an administrator or a time daemon
\* may set back.
SetBack ==
    /\ setbacks < MaxSetBacks
    /\ setbacks' = setbacks + 1
    /\ \E t \in Millis : t < now /\ now' = t
    /\ UNCHANGED <<entries, last_evict, server_pk, accepted, unopened>>

\* run_server starts with an empty cache; without a key file it also starts
\* with a new key pair.
Restart ==
    /\ server_pk' \in ServerPk
    /\ entries' = [tag \in {} |-> 0]
    /\ last_evict' = 0
    /\ accepted' = [f \in Flight |-> <<>>]
    /\ unopened' = {}
    /\ setbacks' = 0
    /\ UNCHANGED now

Next ==
    \/ Tick
    \/ SetBack
    \/ Restart
    \/ \E f \in Flight, peer_ip \in Ip : process_payload(f, peer_ip)

Spec == Init /\ [][Next]_vars

-----------------------------------------------------------------------------
Tag == {f.nonce : f \in Flight} \X {f.enc_data : f \in Flight}

\* Type invariant of the gate: the cache maps pairs of a nonce and sealed
\* early data to times.
TypeOK ==
    /\ DOMAIN entries \subseteq Tag
    /\ entries \in [DOMAIN entries -> Millis]
    /\ last_evict \in Millis
    /\ now \in Millis
    /\ setbacks \in 0 .. MaxSetBacks
    /\ server_pk \in ServerPk
    /\ accepted \in [Flight -> Seq(Millis)]
    /\ unopened \subseteq Flight

\* Admissions of one flight are more than Window milliseconds apart.
Spaced ==
    \A f \in Flight : \A i, j \in DOMAIN accepted[f] :
        i < j => accepted[f][j] > accepted[f][i] + Window

\* So are admissions of two flights with the same nonce and early data,
\* whoever signed them.
Apart ==
    \A f, g \in Flight :
        f # g /\ replay_tag(f) = replay_tag(g) =>
            \A i \in DOMAIN accepted[f], j \in DOMAIN accepted[g] :
                \/ accepted[g][j] > accepted[f][i] + Window
                \/ accepted[f][i] > accepted[g][j] + Window

\* process_payload never admits the same early data twice within Window
\* milliseconds of a run of the server, in one flight or in two that carry
\* it, whatever copies the network delivers and however the connection tasks
\* interleave, unless the clock is set back meanwhile.
NoReplayWithinWindow == setbacks = 0 => Spaced /\ Apart

\* process_payload admits a flight a second time only if the clock was still
\* behind the flight's own timestamp the first time: the flight of a client
\* whose clock is not ahead of the server's is never admitted again by the
\* running process, unless the clock is set back.
OnceUnlessAhead ==
    setbacks = 0 =>
        \A f \in Flight : \A i, j \in DOMAIN accepted[f] :
            i < j => accepted[f][i] < f.ts_millis

\* How often a run of the server can admit one flight: check_window passes it
\* for Skew + Window + 1 milliseconds, and the cache spaces the admissions.
AcceptanceBound ==
    setbacks = 0 =>
        \A f \in Flight :
            Len(accepted[f]) <= 1 + (Skew + Window) \div (Window + 1)

\* process_payload refuses a flight as a replay only if this process got a
\* signed flight with the same nonce and early data and admitted it or could
\* not open it: copies with a broken signature, from another address or from
\* outside the window never make the cache strike a flight.  A flight may
\* well be struck by another one, since the tag does not cover client_pk and
\* the ciphertext.
RefusalHasCause ==
    \A f \in Flight :
        Authentic(f, f.src_ip) /\ Replayed(replay_tag(f), now) =>
            \E g \in Flight :
                /\ verify_client_binding(g)
                /\ replay_tag(g) = replay_tag(f)
                /\ accepted[g] # <<>> \/ g \in unopened

\* The cache holds only tags of flights with a valid signature, none of them
\* older than Window at the last call: it is bounded by the authenticated
\* handshakes of one window.
CacheOnlyRecent ==
    \A tag \in DOMAIN entries :
        /\ \E f \in Flight : verify_client_binding(f) /\ replay_tag(f) = tag
        /\ entries[tag] + Window >= last_evict

\* Every flight is admitted at most once by a run of the server
\* (replay.rs: the cache "closes in-window replay").
AcceptedAtMostOnce == \A f \in Flight : Len(accepted[f]) <= 1

-----------------------------------------------------------------------------
Once == INSTANCE AtMostOnce
            WITH Item <- Flight,
                 consumed <- [f \in Flight |-> Len(accepted[f])]

\* When no skew is tolerated the gate implements the abstract one that admits
\* every flight at most once between restarts.
OnceSpec == Once!Spec
=============================================================================
