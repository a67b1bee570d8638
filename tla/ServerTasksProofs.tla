-------------------------- MODULE ServerTasksProofs -------------------------
(***************************************************************************)
(* The connection tasks implement the gate: every behaviour of ServerTasks *)
(* is one of ServerPayload under the mapping Gate, for any flights, any    *)
(* number of tasks and any window and skew.                                *)
(***************************************************************************)
EXTENDS ServerTasks, TLAPS

Call == [pc : {"waiting", "checking", "striking", "opening"},
         flight : Flight, peer_ip : Ip, now : Millis]

\* The inductive invariant: only the holder of the strike mutex is inside
\* process_payload, and it has passed the checks it is past.
TasksInv ==
    /\ now \in Millis
    /\ accepted \in [Flight -> Seq(Millis)]
    /\ queue \in Seq(Task)
    /\ task \in [Task -> Call \cup {Idle, Greeting}]
    /\ \A k \in Task :
          /\ Calling(k) => Holds(k)
          /\ task[k].pc \in {"striking", "opening"} => Passes(task[k])

-----------------------------------------------------------------------------
\* The mapped state, by where the holder of the mutex is.
LEMMA NotInCall ==
    ASSUME ~InCall
    PROVE  ~ToStrike /\ ~ToOpen /\ ~ToAdmit
BY DEF ToStrike, ToOpen, ToAdmit

LEMMA SameAuthentic ==
    ASSUME NEW f, NEW ip
    PROVE  Gate!Authentic(f, ip) <=> Authentic(f, ip)
BY DEF Gate!Authentic, Authentic, Gate!check_window, check_window,
       Gate!saturating_add, saturating_add, Gate!saturating_sub,
       saturating_sub, Gate!verify_client_binding, verify_client_binding,
       Gate!sig_verify, sig_verify, Gate!sig_sign, sig_sign,
       Gate!client_binding_msg, client_binding_msg, Gate!canonical, canonical

LEMMA SameOpens ==
    ASSUME NEW f, NEW pk
    PROVE  Gate!Opens(pk, f) <=> Opens(pk, f)
BY DEF Gate!Opens, Opens, Gate!Keys, Keys, Gate!SealedEarlyData,
       SealedEarlyData, Gate!derive_session_keys, derive_session_keys,
       Gate!kem_decapsulate, kem_decapsulate

LEMMA SameTag == ASSUME NEW f PROVE Gate!replay_tag(f) = replay_tag(f)
BY DEF Gate!replay_tag, replay_tag

LEMMA SameCache ==
    ASSUME GateEntries = entries, NEW tag, NEW t
    PROVE  /\ Gate!Replayed(tag, t) <=> Replayed(tag, t)
           /\ Gate!Inserted(tag, t) = Inserted(tag, t)
<1>1. Gate!Retained(t) = Retained(t)
  BY DEF Gate!Retained, Retained, Gate!Restrict, Restrict,
         Gate!saturating_sub, saturating_sub
<1> QED BY <1>1 DEF Gate!Replayed, Replayed, Gate!Inserted, Inserted

-----------------------------------------------------------------------------
(* The invariant.                                                          *)
LEMMA TasksInvInit == TasksInit => TasksInv
BY DEF TasksInit, Init, TasksInv, Idle, Calling

\* A task joins the queue.
LEMMA EnqueueInv ==
    ASSUME TasksInv, NEW k \in Task, NEW r \in Call \cup {Greeting},
           r.pc \in {"waiting", "greeting"}, Enqueue(k, r)
    PROVE  TasksInv'
<1>1. queue' \in Seq(Task) /\ queue' # <<>>
      /\ (queue # <<>> => Head(queue') = Head(queue))
  BY DEF TasksInv, Enqueue
<1>2. task' \in [Task -> Call \cup {Idle, Greeting}]
  BY DEF TasksInv, Enqueue
<1>3. ASSUME NEW j \in Task
      PROVE  (Calling(j) => Holds(j))'
             /\ (task[j].pc \in {"striking", "opening"} => Passes(task[j]))'
  <2>1. CASE j = k
    <3>1. task'[j] = r
      BY <2>1 DEF TasksInv, Enqueue
    <3> QED BY <3>1 DEF Calling
  <2>2. CASE j # k
    <3>1. task'[j] = task[j]
      BY <2>2 DEF TasksInv, Enqueue
    <3> QED BY <1>1, <3>1 DEF TasksInv, Calling, Holds, Passes
  <2> QED BY <2>1, <2>2
<1> QED BY <1>1, <1>2, <1>3 DEF TasksInv, Enqueue, vars

LEMMA ReceiveRecord ==
    ASSUME TasksInv, NEW f \in Flight, NEW ip \in Ip
    PROVE  [pc |-> "waiting", flight |-> f, peer_ip |-> ip, now |-> now] \in Call
BY DEF TasksInv, Call

LEMMA ReceiveInv ==
    ASSUME TasksInv, NEW k \in Task, NEW f \in Flight, NEW ip \in Ip,
           Receive(k, f, ip)
    PROVE  TasksInv'
BY ReceiveRecord, EnqueueInv DEF Receive

LEMMA ReceiveHelloInv ==
    ASSUME TasksInv, NEW k \in Task, ReceiveHello(k)
    PROVE  TasksInv'
BY EnqueueInv DEF ReceiveHello, Greeting

\* When the holder leaves, nobody is inside process_payload.
LEMMA LeaveInv ==
    ASSUME TasksInv, NEW k \in Task, Holds(k), Leave(k),
           now' \in Millis, accepted' \in [Flight -> Seq(Millis)]
    PROVE  TasksInv' /\ ~InCall'
<1>1. queue' \in Seq(Task)
  BY DEF TasksInv, Holds, Leave
<1>2. task' \in [Task -> Call \cup {Idle, Greeting}]
  BY DEF TasksInv, Leave
<1>3. ASSUME NEW j \in Task
      PROVE  ~Calling(j)'
  <2>1. CASE j = k
    BY <2>1 DEF TasksInv, Leave, Calling, Idle
  <2>2. CASE j # k
    BY <2>2 DEF TasksInv, Leave, Calling, Holds
  <2> QED BY <2>1, <2>2
<1>4. ~InCall'
  BY <1>1, <1>3 DEF InCall
<1> QED BY <1>1, <1>2, <1>3, <1>4 DEF TasksInv, Calling

\* A step that moves the holder on, with the mutex kept.
LEMMA AdvanceInv ==
    ASSUME TasksInv, NEW k \in Task, Holds(k), UNCHANGED <<now, accepted, queue>>,
           NEW r \in Call, task' = [task EXCEPT ![k] = r],
           r.pc \in {"striking", "opening"} => Passes(r)
    PROVE  TasksInv'
<1>1. task' \in [Task -> Call \cup {Idle, Greeting}]
  BY DEF TasksInv
<1>2. ASSUME NEW j \in Task
      PROVE  (Calling(j) => Holds(j))'
             /\ (task[j].pc \in {"striking", "opening"} => Passes(task[j]))'
  <2>1. CASE j = k
    BY <2>1 DEF TasksInv, Holds, Passes
  <2>2. CASE j # k
    <3>1. task'[j] = task[j]
      BY <2>2 DEF TasksInv
    <3> QED BY <3>1 DEF TasksInv, Calling, Holds, Passes
  <2> QED BY <2>1, <2>2
<1> QED BY <1>1, <1>2 DEF TasksInv

\* The record of a task that has a flight.
LEMMA CallRecord ==
    ASSUME TasksInv, NEW k \in Task, task[k] \notin {Idle, Greeting}
    PROVE  task[k] \in Call
BY DEF TasksInv

LEMMA Pcs ==
    ASSUME TasksInv, NEW k \in Task,
           task[k].pc \in {"waiting", "checking", "striking", "opening"}
    PROVE  /\ task[k] \in Call
           /\ task[k].flight \in Flight /\ task[k].peer_ip \in Ip
           /\ task[k].now \in Millis
           /\ Calling(k) => Holds(k)
BY CallRecord DEF TasksInv, Idle, Greeting, Call

LEMMA GreetInv ==
    ASSUME TasksInv, NEW k \in Task, Greet(k)
    PROVE  TasksInv'
BY LeaveInv DEF Greet, TasksInv, vars

LEMMA EnterInv ==
    ASSUME TasksInv, NEW k \in Task, Enter(k)
    PROVE  TasksInv'
<1>1. task[k] \in Call
  BY Pcs DEF Enter
<1> DEFINE r == [task[k] EXCEPT !.pc = "checking", !.now = now]
<1>2. r \in Call /\ r.pc = "checking"
  BY <1>1, Zenon DEF TasksInv, Call
<1>3. task' = [task EXCEPT ![k] = r]
  BY Zenon DEF TasksInv, Enter, ReadClock
<1> HIDE DEF r
<1> QED BY <1>2, <1>3, AdvanceInv, Zenon DEF Enter, vars

LEMMA CheckInv ==
    ASSUME TasksInv, NEW k \in Task, Check(k)
    PROVE  TasksInv'
<1>1. task[k] \in Call /\ Holds(k)
  BY Pcs DEF Check, Calling
<1>2. CASE Passes(task[k])
  <2> DEFINE r == [task[k] EXCEPT !.pc = "striking"]
  <2>1. r \in Call /\ Passes(r)
    BY <1>1, <1>2 DEF Call, Passes
  <2>2. task' = [task EXCEPT ![k] = r] /\ UNCHANGED <<queue, vars>>
    BY <1>2 DEF TasksInv, Check
  <2> HIDE DEF r
  <2> QED BY <1>1, <2>1, <2>2, AdvanceInv, Zenon DEF vars
<1>3. CASE ~Passes(task[k])
  BY <1>1, <1>3, LeaveInv DEF Check, TasksInv, vars
<1> QED BY <1>2, <1>3

LEMMA StrikeInv ==
    ASSUME TasksInv, NEW k \in Task, Strike(k)
    PROVE  TasksInv'
<1>1. task[k] \in Call /\ Holds(k) /\ Passes(task[k])
  BY Pcs DEF Strike, Calling, TasksInv
<1>2. CASE Replayed(replay_tag(task[k].flight), task[k].now)
  BY <1>1, <1>2, LeaveInv DEF Strike, TasksInv
<1>3. CASE ~Replayed(replay_tag(task[k].flight), task[k].now)
  <2> DEFINE r == [task[k] EXCEPT !.pc = "opening"]
  <2>1. r \in Call /\ Passes(r)
    BY <1>1 DEF Call, Passes
  <2>2. task' = [task EXCEPT ![k] = r] /\ UNCHANGED <<queue, now, accepted>>
    BY <1>3 DEF TasksInv, Strike
  <2> HIDE DEF r
  <2> QED BY <1>1, <2>1, <2>2, AdvanceInv, Zenon
<1> QED BY <1>2, <1>3

\* What Open leaves of the history.
LEMMA OpenType ==
    ASSUME TasksInv, NEW k \in Task, Open(k),
           task[k].flight \in Flight, task[k].now \in Millis
    PROVE  accepted' \in [Flight -> Seq(Millis)]
<1>1. accepted \in [Flight -> Seq(Millis)]
  BY DEF TasksInv
<1>2. Append(accepted[task[k].flight], task[k].now) \in Seq(Millis)
  BY <1>1
<1>3. [accepted EXCEPT ![task[k].flight] = Append(@, task[k].now)]
         \in [Flight -> Seq(Millis)]
  BY <1>1, <1>2
<1> QED BY <1>1, <1>3, Zenon DEF Open

LEMMA OpenInv ==
    ASSUME TasksInv, NEW k \in Task, Open(k)
    PROVE  TasksInv'
<1>1. Holds(k) /\ task[k].flight \in Flight /\ task[k].now \in Millis
  BY Pcs DEF Open, Calling
<1>2. accepted' \in [Flight -> Seq(Millis)]
  BY <1>1, OpenType
<1> QED BY <1>1, <1>2, LeaveInv DEF Open, TasksInv

LEMMA TasksInvStep == TasksInv /\ [TasksNext]_taskVars => TasksInv'
<1> SUFFICES ASSUME TasksInv, [TasksNext]_taskVars PROVE TasksInv'
  OBVIOUS
<1>1. CASE UNCHANGED taskVars
  BY <1>1 DEF TasksInv, taskVars, vars, Calling, Holds, Passes
<1>2. CASE Time
  <2>1. now' \in Millis
    BY <1>2, MaxMillisAssumption DEF TasksInv, Time, Tick, SetBack, Millis
  <2>2. UNCHANGED <<accepted, task, queue>>
    BY <1>2 DEF Time, Tick, SetBack
  <2> QED BY <2>1, <2>2 DEF TasksInv, Calling, Holds, Passes
<1>3. CASE DaemonEnds
  BY <1>3 DEF TasksInv, DaemonEnds, Restart, Idle, Calling
<1> QED
  BY <1>1, <1>2, <1>3, ReceiveInv, ReceiveHelloInv, GreetInv, EnterInv,
     CheckInv, StrikeInv, OpenInv
     DEF TasksNext, server_accept

-----------------------------------------------------------------------------
(* The refinement.                                                         *)
GateState == <<GateEntries, GateLastEvict, GateAccepted, GateUnopened>>

\* Between calls the gate's state is the daemon's.
LEMMA MapIdle ==
    ASSUME ~InCall
    PROVE  /\ GateEntries = entries
           /\ GateLastEvict = last_evict
           /\ GateAccepted = accepted
           /\ GateUnopened = unopened
BY NotInCall DEF GateEntries, GateLastEvict, GateAccepted, GateUnopened

LEMMA MapIdlePrimed ==
    ASSUME ~InCall'
    PROVE  /\ GateEntries' = entries'
           /\ GateLastEvict' = last_evict'
           /\ GateAccepted' = accepted'
           /\ GateUnopened' = unopened'
<1>1. ~ToStrike' /\ ~ToOpen' /\ ~ToAdmit'
  BY NotInCall, PTL
<1> QED BY <1>1 DEF GateEntries, GateLastEvict, GateAccepted, GateUnopened

\* The mapped state while k is inside, before and after its strike.
LEMMA MapCall ==
    ASSUME NEW k, Holds(k), Calling(k), task[k].pc # "opening",
           NEW f, f = task[k].flight, NEW t, t = task[k].now
    PROVE  /\ ~Passes(task[k]) =>
                 /\ GateEntries = entries
                 /\ GateLastEvict = last_evict
                 /\ GateAccepted = accepted
                 /\ GateUnopened = unopened
           /\ Passes(task[k]) =>
                 /\ GateEntries = Inserted(replay_tag(f), t)
                 /\ GateLastEvict = t
                 /\ GateAccepted =
                      IF ~Replayed(replay_tag(f), t) /\ Opens(server_pk, f)
                        THEN [accepted EXCEPT ![f] = Append(@, t)]
                        ELSE accepted
                 /\ GateUnopened =
                      IF ~Replayed(replay_tag(f), t) /\ ~Opens(server_pk, f)
                        THEN unopened \cup {f}
                        ELSE unopened
BY Zenon DEF Holds, Calling, InCall, Caller, ToStrike, ToOpen, ToAdmit,
       GateEntries, GateLastEvict, GateAccepted, GateUnopened

LEMMA MapOpening ==
    ASSUME NEW k, Holds(k), task[k].pc = "opening",
           NEW f, f = task[k].flight, NEW t, t = task[k].now
    PROVE  /\ GateEntries = entries
           /\ GateLastEvict = last_evict
           /\ GateAccepted = IF Opens(server_pk, f)
                               THEN [accepted EXCEPT ![f] = Append(@, t)]
                               ELSE accepted
           /\ GateUnopened = IF Opens(server_pk, f)
                               THEN unopened ELSE unopened \cup {f}
BY Zenon DEF Holds, Calling, InCall, Caller, ToStrike, ToOpen, ToAdmit,
       GateEntries, GateLastEvict, GateAccepted, GateUnopened

\* The same in the next state, for a step that leaves the cache alone.
LEMMA MapCallPrimed ==
    ASSUME NEW k, Holds(k)', Calling(k)', task'[k].pc # "opening",
           UNCHANGED <<entries, last_evict, accepted, unopened, server_pk>>,
           NEW f, f = task'[k].flight, NEW t, t = task'[k].now
    PROVE  /\ ~Passes(task[k])' =>
                 /\ GateEntries' = entries
                 /\ GateLastEvict' = last_evict
                 /\ GateAccepted' = accepted
                 /\ GateUnopened' = unopened
           /\ Passes(task[k])' =>
                 /\ GateEntries' = Inserted(replay_tag(f), t)
                 /\ GateLastEvict' = t
                 /\ GateAccepted' =
                      IF ~Replayed(replay_tag(f), t) /\ Opens(server_pk, f)
                        THEN [accepted EXCEPT ![f] = Append(@, t)]
                        ELSE accepted
                 /\ GateUnopened' =
                      IF ~Replayed(replay_tag(f), t) /\ ~Opens(server_pk, f)
                        THEN unopened \cup {f}
                        ELSE unopened
<1>1. Head(queue') = k /\ queue' # <<>> /\ InCall'
  BY DEF Holds, InCall
<1>2. ToStrike' <=> Passes(task[k])'
  BY <1>1 DEF Calling, ToStrike, Caller, Passes
<1>3. GateEntries' = IF ToStrike' THEN Inserted(replay_tag(f), t) ELSE entries
  BY <1>1, Zenon
     DEF GateEntries, Caller, Inserted, Replayed, Retained, replay_tag
<1>4. GateLastEvict' = IF ToStrike' THEN t ELSE last_evict
  BY <1>1 DEF GateLastEvict, Caller
<1>0. ToOpen' <=> ToStrike' /\ ~Replayed(replay_tag(f), t)
  BY <1>1, Zenon DEF ToOpen, Caller, Replayed, Retained, replay_tag
<1>5. ToAdmit' <=> ToOpen' /\ Opens(server_pk, f)
  BY <1>1, Zenon DEF ToAdmit, Caller, Opens, Keys
<1>6. GateAccepted' = IF ToAdmit' THEN [accepted EXCEPT ![f] = Append(@, t)]
                                  ELSE accepted
  BY <1>1, Zenon DEF GateAccepted, Caller
<1>7. GateUnopened' = IF ToOpen' /\ ~ToAdmit' THEN unopened \cup {f}
                                              ELSE unopened
  BY <1>1, Zenon DEF GateUnopened, Caller
<1> QED BY <1>0, <1>2, <1>3, <1>4, <1>5, <1>6, <1>7

LEMMA MapOpeningPrimed ==
    ASSUME NEW k, Holds(k)', task'[k].pc = "opening", UNCHANGED server_pk,
           NEW f, f = task'[k].flight, NEW t, t = task'[k].now
    PROVE  /\ GateEntries' = entries'
           /\ GateLastEvict' = last_evict'
           /\ GateAccepted' = IF Opens(server_pk, f)
                                THEN [accepted' EXCEPT ![f] = Append(@, t)]
                                ELSE accepted'
           /\ GateUnopened' = IF Opens(server_pk, f)
                                THEN unopened' ELSE unopened' \cup {f}
<1>1. Head(queue') = k /\ queue' # <<>> /\ InCall' /\ ~ToStrike'
      /\ ToOpen'
  BY DEF Holds, InCall, Calling, ToStrike, ToOpen, Caller
<1>2. ToAdmit' <=> Opens(server_pk, f)
  BY <1>1 DEF ToAdmit, Caller, Opens, Keys
<1> QED
  BY <1>1, <1>2, Zenon
     DEF GateEntries, GateLastEvict, GateAccepted, GateUnopened, Caller

LEMMA EnqueueMap ==
    ASSUME TasksInv, NEW k \in Task, NEW r,
           r.pc \in {"waiting", "greeting"}, Enqueue(k, r)
    PROVE  UNCHANGED GateState
<1>1. queue' # <<>> /\ queue' \in Seq(Task)
      /\ (queue # <<>> => Head(queue') = Head(queue) /\ Head(queue) \in Task)
      /\ (queue = <<>> => Head(queue') = k)
  BY DEF TasksInv, Enqueue
<1>2. CASE queue = <<>> \/ Head(queue) = k
  <2>1. ~InCall
    BY <1>2 DEF InCall, Calling, Enqueue, Idle
  <2>2. task'[k].pc \in {"waiting", "greeting"}
    BY DEF TasksInv, Enqueue
  <2>3. ~InCall'
    BY <1>1, <1>2, <2>2 DEF InCall, Calling
  <2> QED
    BY <2>1, <2>3, MapIdle, MapIdlePrimed DEF GateState, Enqueue, vars
<1>3. CASE queue # <<>> /\ Head(queue) # k
  <2>1. Caller' = Caller
    BY <1>1, <1>3 DEF TasksInv, Enqueue, Caller
  <2>2. InCall' <=> InCall
    BY <1>1, <1>3, <2>1 DEF InCall, Calling, Caller
  <2>3. UNCHANGED <<entries, last_evict, accepted, unopened, server_pk>>
    BY DEF Enqueue, vars
  <2> QED
    BY <2>1, <2>2, <2>3
       DEF GateState, GateEntries, GateLastEvict, GateAccepted, GateUnopened,
           ToStrike, ToOpen, ToAdmit, Passes, Inserted, Replayed, Retained, Opens, Keys
<1> QED BY <1>2, <1>3

LEMMA ReceiveMap ==
    ASSUME TasksInv, NEW k \in Task, NEW f \in Flight, NEW ip \in Ip,
           Receive(k, f, ip)
    PROVE  UNCHANGED GateState
<1> DEFINE r == [pc |-> "waiting", flight |-> f, peer_ip |-> ip, now |-> now]
<1>1. Enqueue(k, r) /\ r.pc \in {"waiting", "greeting"}
  BY DEF Receive
<1> HIDE DEF r
<1> QED BY <1>1, EnqueueMap

LEMMA ReceiveHelloMap ==
    ASSUME TasksInv, NEW k \in Task, ReceiveHello(k)
    PROVE  UNCHANGED GateState
<1>1. Enqueue(k, Greeting) /\ Greeting.pc \in {"waiting", "greeting"}
  BY DEF ReceiveHello, Greeting
<1> QED BY <1>1, EnqueueMap

\* A hello that is answered leaves the gate alone.
LEMMA GreetMap ==
    ASSUME TasksInv, NEW k \in Task, Greet(k)
    PROVE  UNCHANGED GateState
<1>1. ~InCall
  BY DEF Greet, Holds, InCall, Calling
<1>2. ~InCall'
  BY LeaveInv DEF Greet, TasksInv, vars
<1> QED BY <1>1, <1>2, MapIdle, MapIdlePrimed DEF GateState, Greet, vars

\* The call takes effect: one step of process_payload, or none.
LEMMA EnterMap ==
    ASSUME TasksInv, NEW k \in Task, Enter(k)
    PROVE  \/ UNCHANGED GateState
           \/ Gate!process_payload(task[k].flight, task[k].peer_ip)
<1> DEFINE f == task[k].flight
           ip == task[k].peer_ip
<1>1. Holds(k) /\ ~InCall
  BY DEF Enter, Holds, InCall, Calling
<1>2. /\ GateEntries = entries
      /\ GateLastEvict = last_evict
      /\ GateAccepted = accepted
      /\ GateUnopened = unopened
  BY <1>1, MapIdle
<1>3. task[k] \in Call
  BY Pcs DEF Enter
<1>4. /\ task'[k].pc = "checking" /\ task'[k].flight = f
      /\ task'[k].peer_ip = ip /\ task'[k].now = now
  BY <1>3 DEF TasksInv, Enter, ReadClock, Call
<1>5. /\ Holds(k)' /\ Calling(k)'
      /\ UNCHANGED <<entries, last_evict, accepted, unopened, server_pk, now,
                     setbacks>>
  BY <1>1, <1>4 DEF Enter, Holds, Calling, vars
<1>6. Passes(task[k])' <=> Authentic(f, ip)
  BY <1>4 DEF Passes, Authentic
<1>7. /\ ~Authentic(f, ip) =>
            /\ GateEntries' = entries
            /\ GateLastEvict' = last_evict
            /\ GateAccepted' = accepted
            /\ GateUnopened' = unopened
      /\ Authentic(f, ip) =>
            /\ GateEntries' = Inserted(replay_tag(f), now)
            /\ GateLastEvict' = now
            /\ GateAccepted' =
                 IF ~Replayed(replay_tag(f), now) /\ Opens(server_pk, f)
                   THEN [accepted EXCEPT ![f] = Append(@, now)]
                   ELSE accepted
            /\ GateUnopened' =
                 IF ~Replayed(replay_tag(f), now) /\ ~Opens(server_pk, f)
                   THEN unopened \cup {f}
                   ELSE unopened
  BY <1>4, <1>5, <1>6, MapCallPrimed
<1>8. CASE ~Authentic(f, ip)
  BY <1>2, <1>7, <1>8 DEF GateState
<1>9. CASE Authentic(f, ip)
  <2>1. /\ Gate!Authentic(f, ip)
        /\ Gate!Replayed(Gate!replay_tag(f), now)
              <=> Replayed(replay_tag(f), now)
        /\ Gate!Inserted(Gate!replay_tag(f), now)
              = Inserted(replay_tag(f), now)
        /\ Gate!Opens(server_pk, f) <=> Opens(server_pk, f)
    BY <1>2, <1>9, SameAuthentic, SameCache, SameTag, SameOpens
  <2>2. Gate!check_and_insert(Gate!replay_tag(f), now)
    BY <1>7, <1>9, <2>1 DEF Gate!check_and_insert
  <2> QED
    BY <1>2, <1>5, <1>7, <1>9, <2>1, <2>2
       DEF Gate!process_payload, Gate!RejectReplay, Gate!RejectUndecryptable,
           Gate!Accept
<1> QED BY <1>8, <1>9

LEMMA CheckMap ==
    ASSUME TasksInv, NEW k \in Task, Check(k)
    PROVE  UNCHANGED GateState
<1>1. task[k] \in Call /\ Holds(k) /\ Calling(k)
  BY Pcs DEF Check, Calling
<1>2. UNCHANGED <<entries, last_evict, accepted, unopened, server_pk, now>>
  BY DEF Check, vars
<1>3. CASE Passes(task[k])
  <2>1. task' = [task EXCEPT ![k].pc = "striking"] /\ UNCHANGED queue
    BY <1>3 DEF Check
  <2>2. /\ task'[k].pc = "striking" /\ task'[k].flight = task[k].flight
        /\ task'[k].peer_ip = task[k].peer_ip /\ task'[k].now = task[k].now
    BY <1>1, <2>1 DEF TasksInv, Call
  <2>3. Holds(k)' /\ Calling(k)' /\ Passes(task[k])'
    BY <1>1, <1>3, <2>1, <2>2 DEF Holds, Calling, Passes
  <2> DEFINE f == task[k].flight
             t == task[k].now
             tag == replay_tag(f)
             admitted == IF ~Replayed(tag, t) /\ Opens(server_pk, f)
                           THEN [accepted EXCEPT ![f] = Append(@, t)]
                           ELSE accepted
             failed == IF ~Replayed(tag, t) /\ ~Opens(server_pk, f)
                         THEN unopened \cup {f}
                         ELSE unopened
  <2>4. /\ GateEntries = Inserted(tag, t) /\ GateLastEvict = t
        /\ GateAccepted = admitted /\ GateUnopened = failed
    BY <1>1, <1>3, MapCall DEF Check
  <2>5. /\ GateEntries' = Inserted(tag, t) /\ GateLastEvict' = t
        /\ GateAccepted' = admitted /\ GateUnopened' = failed
    BY <1>2, <2>2, <2>3, MapCallPrimed
  <2> QED BY <2>4, <2>5 DEF GateState
<1>4. CASE ~Passes(task[k])
  <2>1. Leave(k) /\ ~InCall'
    BY <1>1, <1>2, <1>4, LeaveInv DEF Check, TasksInv
  <2> QED
    BY <1>1, <1>2, <1>4, <2>1, MapCall, MapIdlePrimed DEF GateState, Check
<1> QED BY <1>3, <1>4

LEMMA StrikeMap ==
    ASSUME TasksInv, NEW k \in Task, Strike(k)
    PROVE  UNCHANGED GateState
<1> DEFINE f == task[k].flight
           t == task[k].now
<1>1. task[k] \in Call /\ Holds(k) /\ Calling(k) /\ Passes(task[k])
  BY Pcs DEF Strike, Calling, TasksInv
<1>2. /\ entries' = Inserted(replay_tag(f), t) /\ last_evict' = t
      /\ UNCHANGED <<accepted, unopened, server_pk, now>>
  BY DEF Strike, check_and_insert
<1>3. /\ GateEntries = Inserted(replay_tag(f), t) /\ GateLastEvict = t
      /\ GateAccepted = IF ~Replayed(replay_tag(f), t) /\ Opens(server_pk, f)
                          THEN [accepted EXCEPT ![f] = Append(@, t)]
                          ELSE accepted
      /\ GateUnopened = IF ~Replayed(replay_tag(f), t) /\ ~Opens(server_pk, f)
                          THEN unopened \cup {f}
                          ELSE unopened
  BY <1>1, MapCall DEF Strike
<1>4. CASE Replayed(replay_tag(f), t)
  <2>1. ~InCall'
    BY <1>1, <1>2, <1>4, LeaveInv DEF Strike, TasksInv
  <2> QED BY <1>2, <1>3, <1>4, <2>1, MapIdlePrimed DEF GateState
<1>5. CASE ~Replayed(replay_tag(f), t)
  <2>1. task' = [task EXCEPT ![k].pc = "opening"] /\ UNCHANGED queue
    BY <1>5 DEF Strike
  <2>2. task'[k].pc = "opening" /\ task'[k].flight = f /\ task'[k].now = t
    BY <1>1, <2>1 DEF TasksInv, Call
  <2>3. Holds(k)'
    BY <1>1, <2>1 DEF Holds
  <2>4. /\ GateEntries' = entries' /\ GateLastEvict' = last_evict'
        /\ GateAccepted' = IF Opens(server_pk, f)
                             THEN [accepted' EXCEPT ![f] = Append(@, t)]
                             ELSE accepted'
        /\ GateUnopened' = IF Opens(server_pk, f)
                             THEN unopened' ELSE unopened' \cup {f}
    BY <1>2, <2>2, <2>3, MapOpeningPrimed
  <2> QED BY <1>2, <1>3, <1>5, <2>4 DEF GateState
<1> QED BY <1>4, <1>5

LEMMA OpenMap ==
    ASSUME TasksInv, NEW k \in Task, Open(k)
    PROVE  UNCHANGED GateState
<1>1. /\ Holds(k) /\ task[k].pc = "opening"
      /\ task[k].flight \in Flight /\ task[k].now \in Millis
  BY Pcs DEF Open, Calling
<1>2. now' \in Millis /\ accepted' \in [Flight -> Seq(Millis)]
  BY <1>1, OpenType, Zenon DEF TasksInv, Open
<1>3. ~InCall'
  BY <1>1, <1>2, LeaveInv DEF Open
<1> QED BY <1>1, <1>3, MapOpening, MapIdlePrimed, Zenon DEF GateState, Open

LEMMA InitMap == TasksInit => Gate!Init
<1> SUFFICES ASSUME TasksInit PROVE Gate!Init
  OBVIOUS
<1>1. ~InCall
  BY DEF TasksInit, InCall
<1> QED
  BY <1>1, MapIdle
     DEF TasksInit, Init, new, Gate!Init, Gate!new, Millis, Gate!Millis

LEMMA TimeMap ==
    ASSUME Time
    PROVE  Gate!Tick \/ Gate!SetBack
<1>1. UNCHANGED <<entries, last_evict, accepted, unopened, server_pk, task,
                  queue>>
  BY DEF Time, Tick, SetBack
<1>2. UNCHANGED GateState
  BY <1>1
     DEF GateState, GateEntries, GateLastEvict, GateAccepted, GateUnopened,
         ToStrike, ToOpen, ToAdmit, InCall, Calling, Caller, Passes, Inserted, Replayed,
         Retained, Opens, Keys
<1> QED
  BY <1>2 DEF Time, Tick, SetBack, GateState, Gate!Tick, Gate!SetBack, Millis,
              Gate!Millis

LEMMA DaemonEndsMap ==
    ASSUME DaemonEnds
    PROVE  Gate!Restart
<1>1. ~InCall'
  BY DEF DaemonEnds, InCall
<1> QED
  BY <1>1, MapIdlePrimed DEF DaemonEnds, Restart, Gate!Restart

LEMMA StepMap == TasksInv /\ [TasksNext]_taskVars => [Gate!Next]_(Gate!vars)
<1> SUFFICES ASSUME TasksInv, [TasksNext]_taskVars
             PROVE  [Gate!Next]_(Gate!vars)
  OBVIOUS
<1>1. CASE UNCHANGED taskVars
  BY <1>1
     DEF taskVars, vars, Gate!vars, GateEntries, GateLastEvict, GateAccepted,
         GateUnopened, ToStrike, ToOpen, ToAdmit, InCall, Calling, Caller, Passes, Inserted,
         Replayed, Retained, Opens, Keys
<1>2. ASSUME UNCHANGED GateState, UNCHANGED <<now, setbacks, server_pk>>
      PROVE  UNCHANGED Gate!vars
  BY <1>2 DEF GateState, Gate!vars
<1>3. ASSUME NEW k \in Task, NEW f \in Flight, NEW ip \in Ip, Receive(k, f, ip)
      PROVE  UNCHANGED Gate!vars
  BY <1>2, <1>3, ReceiveMap, Zenon DEF Receive, Enqueue, vars
<1>6. ASSUME NEW k \in Task, ReceiveHello(k)
      PROVE  UNCHANGED Gate!vars
  BY <1>2, <1>6, ReceiveHelloMap, Zenon DEF ReceiveHello, Enqueue, vars
<1>4. ASSUME NEW k \in Task, Enter(k)
      PROVE  [Gate!Next]_(Gate!vars)
  <2>1. task[k].flight \in Flight /\ task[k].peer_ip \in Ip
    BY <1>4, Pcs DEF Enter
  <2> QED BY <1>2, <1>4, <2>1, EnterMap, Zenon DEF Enter, vars, Gate!Next
<1>5. ASSUME NEW k \in Task, Greet(k) \/ Check(k) \/ Strike(k) \/ Open(k)
      PROVE  UNCHANGED Gate!vars
  BY <1>2, <1>5, GreetMap, CheckMap, StrikeMap, OpenMap
     DEF Greet, Check, Strike, Open, vars
<1> QED
  BY <1>1, <1>3, <1>4, <1>5, <1>6, TimeMap, DaemonEndsMap
     DEF TasksNext, server_accept, Gate!Next

\* However the connection tasks interleave, what they do to the strike cache
\* and which flights they admit is what the gate does: a call of
\* process_payload is atomic.
THEOREM TasksImplementGate == TasksSpec => GateSpec
BY TasksInvInit, TasksInvStep, InitMap, StepMap, PTL
   DEF TasksSpec, GateSpec, Gate!Spec

-----------------------------------------------------------------------------
(* What is proved of the gate, carried over to the tasks.                  *)
GateProofs == INSTANCE ServerPayloadProofs
                  WITH entries <- GateEntries,
                       last_evict <- GateLastEvict,
                       accepted <- GateAccepted,
                       unopened <- GateUnopened

\* The theorems on the gate rest on its named assumptions, read through the
\* mapping, which leaves the constants alone.
LEMMA GateAssumptions ==
    /\ MaxMillis \in Nat
    /\ Window \in GateProofs!Millis
    /\ Skew \in GateProofs!Millis
    /\ MaxSetBacks \in Nat
    /\ \A f \in Flight : f.ts_millis \in GateProofs!Millis
<1>1. GateProofs!Millis = Millis
  BY DEF Millis, GateProofs!Millis
<1> QED
  BY <1>1, MaxMillisAssumption, WindowAssumption, SkewAssumption,
     MaxSetBacksAssumption, FlightAssumption

\* Gate and GateProofs are one specification under one mapping.
LEMMA SameGate == Gate!Spec => GateProofs!Spec
<1>1. Gate!Init => GateProofs!Init
  BY DEF Gate!Init, GateProofs!Init, Gate!new, GateProofs!new, Gate!Millis,
         GateProofs!Millis
<1>2. ASSUME NEW f, NEW ip, Gate!process_payload(f, ip)
      PROVE  GateProofs!process_payload(f, ip)
  <2>1. GateProofs!Authentic(f, ip) <=> Gate!Authentic(f, ip)
    BY DEF Gate!Authentic, GateProofs!Authentic, Gate!check_window,
           GateProofs!check_window, Gate!saturating_add,
           GateProofs!saturating_add, Gate!saturating_sub,
           GateProofs!saturating_sub, Gate!verify_client_binding,
           GateProofs!verify_client_binding, Gate!sig_verify,
           GateProofs!sig_verify, Gate!sig_sign, GateProofs!sig_sign,
           Gate!client_binding_msg, GateProofs!client_binding_msg,
           Gate!canonical, GateProofs!canonical
  <2>2. GateProofs!Opens(server_pk, f) <=> Gate!Opens(server_pk, f)
    BY DEF Gate!Opens, GateProofs!Opens, Gate!Keys, GateProofs!Keys,
           Gate!SealedEarlyData, GateProofs!SealedEarlyData,
           Gate!derive_session_keys, GateProofs!derive_session_keys,
           Gate!kem_decapsulate, GateProofs!kem_decapsulate
  <2>3. GateProofs!replay_tag(f) = Gate!replay_tag(f)
    BY DEF Gate!replay_tag, GateProofs!replay_tag
  <2>4. ASSUME NEW t PROVE GateProofs!Retained(t) = Gate!Retained(t)
    BY DEF Gate!Retained, GateProofs!Retained, Gate!Restrict,
           GateProofs!Restrict, Gate!saturating_sub, GateProofs!saturating_sub
  <2>5. ASSUME NEW tag, NEW t
        PROVE  /\ GateProofs!Replayed(tag, t) <=> Gate!Replayed(tag, t)
               /\ GateProofs!check_and_insert(tag, t)
                     <=> Gate!check_and_insert(tag, t)
    BY <2>4 DEF Gate!Replayed, GateProofs!Replayed, Gate!Inserted,
                GateProofs!Inserted, Gate!check_and_insert,
                GateProofs!check_and_insert
  <2> QED
    BY <1>2, <2>1, <2>2, <2>3, <2>5
       DEF Gate!process_payload, GateProofs!process_payload,
           Gate!RejectReplay, GateProofs!RejectReplay,
           Gate!RejectUndecryptable, GateProofs!RejectUndecryptable,
           Gate!Accept, GateProofs!Accept
<1>3. [Gate!Next]_(Gate!vars) => [GateProofs!Next]_(GateProofs!vars)
  BY <1>2
     DEF Gate!Next, GateProofs!Next, Gate!vars, GateProofs!vars, Gate!Tick,
         GateProofs!Tick, Gate!SetBack, GateProofs!SetBack, Gate!Restart,
         GateProofs!Restart, Gate!Millis, GateProofs!Millis
<1> QED BY <1>1, <1>3, PTL DEF Gate!Spec, GateProofs!Spec

\* The invariant of the gate holds of the mapped state of the tasks.
LEMMA TasksSteady == TasksSpec => []GateProofs!SteadyInv
<1>1. GateProofs!Spec => []GateProofs!SteadyInv
  BY GateProofs!SteadyHolds, GateAssumptions
<1> QED BY <1>1, SameGate, TasksImplementGate, PTL DEF GateSpec

\* What a task has recorded the mapped history has too, at the same place.
LEMMA HistoryMapped ==
    ASSUME TasksInv, NEW f \in Flight
    PROVE  /\ DOMAIN accepted[f] \subseteq DOMAIN GateAccepted[f]
           /\ \A i \in DOMAIN accepted[f] : GateAccepted[f][i] = accepted[f][i]
<1>1. accepted[f] \in Seq(Millis)
  BY DEF TasksInv
<1>2. CASE GateAccepted[f] = accepted[f]
  BY <1>2
<1>3. CASE GateAccepted[f] # accepted[f]
  <2>1. ToAdmit /\ f = Caller.flight
    BY <1>3 DEF GateAccepted, TasksInv
  <2>2. GateAccepted[f] = Append(accepted[f], Caller.now)
    BY <2>1 DEF GateAccepted, TasksInv
  <2>3. Caller.now \in Millis
    <3>1. InCall
      BY <2>1 DEF ToAdmit, ToOpen, ToStrike
    <3>2. Head(queue) \in Task
      BY <3>1 DEF InCall, TasksInv
    <3>3. task[Head(queue)] \in Call
      BY <3>1, <3>2 DEF InCall, Calling, TasksInv, Idle, Greeting
    <3> QED BY <3>3 DEF Caller, Call
  <2> QED BY <1>1, <2>2, <2>3
<1> QED BY <1>2, <1>3

\* However the connection tasks interleave, and wherever in a call the daemon
\* ends, no early data establishes two sessions within Window milliseconds of
\* a run of ortd whose clock is not set back.
THEOREM TasksReplayGate == TasksSpec => []NoReplayWithinWindow
<1>1. ASSUME TasksInv, GateProofs!SteadyInv PROVE NoReplayWithinWindow
  <2>1. setbacks = 0 =>
          \A f \in Flight : \A i, j \in DOMAIN GateAccepted[f] :
              i < j => GateAccepted[f][j] > GateAccepted[f][i] + Window
    BY <1>1 DEF GateProofs!SteadyInv, GateProofs!GateInv, GateProofs!Spaced
  <2>2. \A f : GateProofs!replay_tag(f) = replay_tag(f)
    BY DEF GateProofs!replay_tag, replay_tag
  <2>3. setbacks = 0 =>
          \A f, g \in Flight :
              f # g /\ replay_tag(f) = replay_tag(g) =>
                  \A i \in DOMAIN GateAccepted[f], j \in DOMAIN GateAccepted[g] :
                      \/ GateAccepted[g][j] > GateAccepted[f][i] + Window
                      \/ GateAccepted[f][i] > GateAccepted[g][j] + Window
    BY <1>1, <2>2 DEF GateProofs!SteadyInv, GateProofs!GateInv, GateProofs!Apart
  <2>4. setbacks = 0 => Spaced
    BY <1>1, <2>1, HistoryMapped DEF Spaced
  <2>5. setbacks = 0 => Apart
    BY <1>1, <2>3, HistoryMapped DEF Apart
  <2> QED BY <2>4, <2>5 DEF NoReplayWithinWindow
<1> QED BY <1>1, TasksInvInit, TasksInvStep, TasksSteady, PTL DEF TasksSpec

\* When no skew is tolerated and the clock is never set back, the connection
\* tasks together admit every flight at most once between restarts of ortd.
THEOREM TasksImplementAtMostOnce ==
    ASSUME MaxSetBacks = 0, Skew = 0
    PROVE  TasksSpec => OnceSpec
<1> DEFINE count == [f \in Flight |-> Len(accepted[f])]
<1>1. TasksInit => Once!Init
  BY DEF TasksInit, Init, Once!Init
<1>2. GateProofs!SteadyInv => \A f \in Flight : Len(GateAccepted[f]) \in 0 .. 1
  <2>1. GateProofs!GateInv => \A f \in Flight : Len(GateAccepted[f]) \in 0 .. 1
    BY GateProofs!OnceWithoutSkew, GateAssumptions
  <2>2. GateProofs!SteadyInv => setbacks = 0
    BY DEF GateProofs!SteadyInv, GateProofs!TypeOK
  <2> QED BY <2>1, <2>2 DEF GateProofs!SteadyInv
<1>3. ASSUME TasksInv, GateProofs!SteadyInv, [TasksNext]_taskVars
      PROVE  [Once!Next]_count
  <2>1. CASE accepted' = accepted
    BY <2>1
  <2>2. CASE DaemonEnds
    BY <2>2 DEF DaemonEnds, Restart, Once!Next, Once!Forget
  <2>3. ASSUME NEW k \in Task, Open(k), accepted' # accepted
        PROVE  Once!Next
    <3> DEFINE t == task[k].now
    <3>0. PICK f \in Flight : f = task[k].flight
      BY <1>3, <2>3, Pcs, SMTT(20) DEF Open, Calling
    <3>1. Holds(k) /\ t \in Millis
      BY <1>3, <2>3, Pcs, SMTT(20) DEF Open, Calling
    <3>2. /\ accepted' = [accepted EXCEPT ![f] = Append(@, t)]
          /\ GateAccepted = [accepted EXCEPT ![f] = Append(@, t)]
      BY <2>3, <3>0, <3>1, MapOpening DEF Open
    <3>3. /\ accepted \in [Flight -> Seq(Millis)]
          /\ accepted'[f] = Append(accepted[f], t)
          /\ \A g \in Flight : g # f => accepted'[g] = accepted[g]
      BY <1>3, <3>1, <3>2 DEF TasksInv
    <3>4. Len(accepted'[f]) = Len(accepted[f]) + 1 /\ Len(accepted[f]) \in Nat
      BY <3>1, <3>3
    <3>5. Len(accepted'[f]) \in 0 .. 1
      BY <1>2, <1>3, <3>1, <3>2
    <3>6. Len(accepted[f]) = 0 /\ Len(accepted'[f]) = 1
      BY <3>4, <3>5
    <3>7. count' = [count EXCEPT ![f] = 1]
      BY <3>1, <3>3, <3>6, Zenon
    <3>8. Once!Consume(f)
      BY <3>1, <3>6, <3>7 DEF Once!Consume
    <3> QED BY <3>8 DEF Once!Next
  <2>4. \/ accepted' = accepted
        \/ DaemonEnds
        \/ \E k \in Task : Open(k)
    BY <1>3, Zenon DEF TasksNext, taskVars, vars, Receive, ReceiveHello, Enqueue,
                server_accept, Greet, Enter, Check, Strike, Time, Tick, SetBack
  <2> QED BY <2>1, <2>2, <2>3, <2>4 DEF Once!Next
<1> QED
  BY <1>1, <1>3, TasksInvInit, TasksInvStep, TasksSteady, PTL
     DEF TasksSpec, OnceSpec, Once!Spec
=============================================================================
