----------------------------- MODULE ServerTasks ----------------------------
(***************************************************************************)
(* The connection tasks run_server spawns (ort-net/src/run.rs), as far as  *)
(* they share the strike cache: server_accept reads a frame, waits for the *)
(* strike mutex and, when the frame has a flight, runs process_payload     *)
(* with it held.  ServerPayload takes that call for one step; here time    *)
(* passes, frames arrive and the daemon may end between any two statements *)
(* of it.                                                                  *)
(***************************************************************************)
EXTENDS ServerPayload

CONSTANT Task            \* the connections served at a time

VARIABLES
    task,                \* where each task is: its flight, the peer address
                         \* and, once process_payload runs, its `now'
    queue                \* the strike mutex: its holder, then those waiting

taskVars == <<vars, task, queue>>

Idle == [pc |-> "idle"]
Greeting == [pc |-> "greeting"]

TasksInit ==
    /\ Init
    /\ task = [k \in Task |-> Idle]
    /\ queue = <<>>

\* tokio's mutex is fair: it is handed over in the order of the requests.
Holds(k) == queue # <<>> /\ Head(queue) = k

-----------------------------------------------------------------------------
\* read_frame and decode returned; strike.lock().await is next.
Enqueue(k, r) ==
    /\ task[k] = Idle
    /\ task' = [task EXCEPT ![k] = r]
    /\ queue' = Append(queue, k)
    /\ UNCHANGED vars

\* The frame has a flight: ClientHelloZeroRtt, or ClientData after a hello.
Receive(k, f, peer_ip) ==
    Enqueue(k, [pc |-> "waiting", flight |-> f, peer_ip |-> peer_ip, now |-> now])

\* The frame has none: ClientHelloOneRtt, or a frame that is not expected.
ReceiveHello(k) == Enqueue(k, Greeting)

\* Faulty variant: the clock was read before the task waited for the mutex.
ReadEarly(k) == task[k].now

\* The time process_payload goes by is read with the mutex held.
ReadClock(k) == now

Enter(k) ==
    /\ task[k].pc = "waiting"
    /\ Holds(k)
    /\ task' = [task EXCEPT ![k].pc = "checking", ![k].now = ReadClock(k)]
    /\ UNCHANGED <<vars, queue>>

\* Faulty variant: the mutex is not released when the call returns.
LeaveLocked(k) ==
    /\ task' = [task EXCEPT ![k] = Idle]
    /\ UNCHANGED queue

\* The call returns, the guard is dropped and the handshake is over.
Leave(k) ==
    /\ task' = [task EXCEPT ![k] = Idle]
    /\ queue' = Tail(queue)

\* server_on_first answers a 1-RTT hello, or refuses the frame, and has no use
\* for the cache; the task is back at reading a frame, or over.
Greet(k) ==
    /\ task[k].pc = "greeting"
    /\ Holds(k)
    /\ Leave(k)
    /\ UNCHANGED vars

\* Checks (a), (b) and (c), at the time of the call.
Passes(r) ==
    /\ r.flight.src_ip = r.peer_ip
    /\ check_window(r.now, r.flight.ts_millis, Window, Skew)
    /\ verify_client_binding(r.flight)

Check(k) ==
    /\ task[k].pc = "checking"
    /\ IF Passes(task[k])
         THEN task' = [task EXCEPT ![k].pc = "striking"] /\ UNCHANGED queue
         ELSE Leave(k)
    /\ UNCHANGED vars

Strike(k) ==
    /\ task[k].pc = "striking"
    /\ check_and_insert(replay_tag(task[k].flight), task[k].now)
    /\ IF Replayed(replay_tag(task[k].flight), task[k].now)
         THEN Leave(k)
         ELSE task' = [task EXCEPT ![k].pc = "opening"] /\ UNCHANGED queue
    /\ UNCHANGED <<now, setbacks, server_pk, accepted, unopened>>

Open(k) ==
    /\ task[k].pc = "opening"
    /\ IF Opens(server_pk, task[k].flight)
         THEN /\ accepted' = [accepted EXCEPT ![task[k].flight] =
                                 Append(@, task[k].now)]
              /\ UNCHANGED unopened
         ELSE /\ unopened' = unopened \cup {task[k].flight}
              /\ UNCHANGED accepted
    /\ Leave(k)
    /\ UNCHANGED <<entries, last_evict, now, setbacks, server_pk>>

server_accept(k) ==
    Greet(k) \/ Enter(k) \/ Check(k) \/ Strike(k) \/ Open(k)

Time == (Tick \/ SetBack) /\ UNCHANGED <<task, queue>>

\* accept fails or the process is killed, tasks and cache are dropped, and
\* ortd is started again.
DaemonEnds ==
    /\ Restart
    /\ task' = [k \in Task |-> Idle]
    /\ queue' = <<>>

TasksNext ==
    \/ \E k \in Task :
          \/ \E f \in Flight, peer_ip \in Ip : Receive(k, f, peer_ip)
          \/ ReceiveHello(k)
          \/ server_accept(k)
    \/ Time
    \/ DaemonEnds

\* A task that can go on is polled.
TasksSpec ==
    /\ TasksInit /\ [][TasksNext]_taskVars
    /\ \A k \in Task : WF_taskVars(server_accept(k))

-----------------------------------------------------------------------------
\* Every frame that was read gets its answer, a hello as a flight: the tasks
\* never block each other for good on the strike mutex.
EveryFlightAnswered ==
    \A k \in Task :
        (task[k].pc \in {"waiting", "greeting"}) ~> (task[k].pc = "idle")

\* Refinement mapping: a call takes effect when it reads the clock.
Calling(k) == task[k].pc \in {"checking", "striking", "opening"}
InCall == queue # <<>> /\ Calling(Head(queue))
Caller == task[Head(queue)]
ToStrike ==
    InCall /\ Caller.pc \in {"checking", "striking"} /\ Passes(Caller)
ToOpen ==
    \/ InCall /\ Caller.pc = "opening"
    \/ ToStrike /\ ~Replayed(replay_tag(Caller.flight), Caller.now)
ToAdmit == ToOpen /\ Opens(server_pk, Caller.flight)

GateEntries ==
    IF ToStrike THEN Inserted(replay_tag(Caller.flight), Caller.now)
                ELSE entries
GateLastEvict == IF ToStrike THEN Caller.now ELSE last_evict
GateAccepted ==
    IF ToAdmit
      THEN [accepted EXCEPT ![Caller.flight] = Append(@, Caller.now)]
      ELSE accepted
GateUnopened ==
    IF ToOpen /\ ~ToAdmit THEN unopened \cup {Caller.flight} ELSE unopened

Gate == INSTANCE ServerPayload
            WITH entries <- GateEntries,
                 last_evict <- GateLastEvict,
                 accepted <- GateAccepted,
                 unopened <- GateUnopened

\* However the tasks interleave, and wherever in a call time passes or the
\* daemon ends, each call of process_payload is one step of ServerPayload,
\* taken at the time it reads: what holds of the gate holds of the daemon.
GateSpec == Gate!Spec
=============================================================================
