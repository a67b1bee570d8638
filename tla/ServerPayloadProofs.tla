------------------------ MODULE ServerPayloadProofs -------------------------
(***************************************************************************)
(* Proofs about the replay gate, for every window, skew, set of flights    *)
(* and range of the clock.                                                 *)
(***************************************************************************)
EXTENDS ServerPayload, TLAPS

-----------------------------------------------------------------------------
(***************************************************************************)
(* The saturating arithmetic and what an admitted timestamp satisfies.     *)
(***************************************************************************)

\* The cutoff of evict is a time.
LEMMA SaturatingSubType ==
    ASSUME NEW a \in Millis, NEW b \in Millis
    PROVE  saturating_sub(a, b) \in Millis
BY MaxMillisAssumption DEF saturating_sub, Millis

\* check_window admits a timestamp only between Skew ahead of the clock and
\* Window behind it, also where the u64 arithmetic saturates.
LEMMA CheckWindowBounds ==
    ASSUME NEW t \in Millis, NEW ts \in Millis,
           check_window(t, ts, Window, Skew)
    PROVE  ts <= t + Skew /\ t <= ts + Window
BY MaxMillisAssumption, WindowAssumption, SkewAssumption
   DEF check_window, saturating_add, saturating_sub, Millis

\* evict keeps entries unchanged, and drops exactly those older than Window.
LEMMA RetainedFacts ==
    ASSUME TypeOK, NEW t \in Millis
    PROVE  /\ DOMAIN Retained(t) \subseteq DOMAIN entries
           /\ Retained(t) \in [DOMAIN Retained(t) -> Millis]
           /\ \A tag \in DOMAIN Retained(t) :
                  /\ Retained(t)[tag] = entries[tag]
                  /\ entries[tag] + Window >= t
           /\ \A tag \in DOMAIN entries :
                  tag \notin DOMAIN Retained(t) => entries[tag] + Window < t
<1>1. DOMAIN Retained(t)
        = {tag \in DOMAIN entries : entries[tag] >= saturating_sub(t, Window)}
  BY DEF Retained, Restrict
<1>2. \A tag \in DOMAIN Retained(t) : Retained(t)[tag] = entries[tag]
  BY DEF Retained, Restrict
<1>3. Retained(t) = [tag \in DOMAIN Retained(t) |-> entries[tag]]
  BY DEF Retained, Restrict
<1>4. \A tag \in DOMAIN entries : entries[tag] \in Millis
  BY DEF TypeOK
<1>5. \A tag \in DOMAIN entries :
          entries[tag] >= saturating_sub(t, Window) <=> entries[tag] + Window >= t
  BY <1>4, MaxMillisAssumption, WindowAssumption DEF saturating_sub, Millis
<1>6. \A tag \in DOMAIN entries :
          ~(entries[tag] + Window >= t) => entries[tag] + Window < t
  BY <1>4, WindowAssumption, MaxMillisAssumption DEF Millis
<1>7. DOMAIN Retained(t) \subseteq DOMAIN entries
  BY <1>1
<1>8. Retained(t) \in [DOMAIN Retained(t) -> Millis]
  BY <1>3, <1>4, <1>7
<1>9. \A tag \in DOMAIN Retained(t) : entries[tag] + Window >= t
  BY <1>1, <1>5
<1>10. \A tag \in DOMAIN entries :
          tag \notin DOMAIN Retained(t) => entries[tag] + Window < t
  BY <1>1, <1>5, <1>6
<1> QED
  BY <1>2, <1>7, <1>8, <1>9, <1>10

\* What one call of check_and_insert leaves in the cache.
LEMMA InsertFacts ==
    ASSUME TypeOK, NEW t \in Millis, NEW tag \in Tag, check_and_insert(tag, t)
    PROVE  /\ last_evict' = t
           /\ DOMAIN entries' = DOMAIN Retained(t) \cup {tag}
           /\ entries' \in [DOMAIN entries' -> Millis]
           /\ \A u \in DOMAIN Retained(t) :
                  u \in DOMAIN entries' /\ entries'[u] = entries[u]
           /\ ~Replayed(tag, t) => entries'[tag] = t
           /\ \A u \in DOMAIN entries' : entries'[u] + Window >= t
<1>1. last_evict' = t
  BY DEF check_and_insert, Inserted
<1>2. CASE Replayed(tag, t)
  <2>1. entries' = Retained(t)
    BY <1>2 DEF check_and_insert, Inserted
  <2>2. tag \in DOMAIN Retained(t)
    BY <1>2 DEF Replayed
  <2>3. DOMAIN entries' = DOMAIN Retained(t) \cup {tag}
    BY <2>1, <2>2
  <2> QED
    BY <1>1, <1>2, <2>1, <2>3, RetainedFacts, Zenon
<1>3. CASE ~Replayed(tag, t)
  <2>1. entries' = [u \in DOMAIN Retained(t) \cup {tag} |->
                       IF u = tag THEN t ELSE Retained(t)[u]]
    BY <1>3 DEF check_and_insert, Inserted
  <2>2. tag \notin DOMAIN Retained(t)
    BY <1>3 DEF Replayed
  <2>3. DOMAIN entries' = DOMAIN Retained(t) \cup {tag}
    BY <2>1
  <2>4. entries'[tag] = t
    BY <2>1
  <2>5. \A u \in DOMAIN Retained(t) : entries'[u] = entries[u]
    BY <2>1, <2>2, RetainedFacts
  <2>6. entries' \in [DOMAIN entries' -> Millis]
    BY <2>1, RetainedFacts
  <2>7. t + Window >= t
    BY WindowAssumption, MaxMillisAssumption DEF Millis
  <2>8. \A u \in DOMAIN entries' : entries'[u] + Window >= t
    BY <2>3, <2>4, <2>5, <2>7, RetainedFacts
  <2> QED
    BY <1>1, <1>3, <2>3, <2>4, <2>5, <2>6, <2>8
<1> QED
  BY <1>2, <1>3

-----------------------------------------------------------------------------
(***************************************************************************)
(* Type correctness and the two invariants of the cache that need no       *)
(* assumption on the clock.                                                *)
(***************************************************************************)

\* The three outcomes of process_payload, with what they share.
LEMMA PayloadStep ==
    ASSUME NEW f \in Flight, NEW peer_ip \in Ip, process_payload(f, peer_ip)
    PROVE  /\ Authentic(f, peer_ip)
           /\ check_and_insert(replay_tag(f), now)
           /\ UNCHANGED <<now, setbacks, server_pk>>
           /\ \/ /\ Replayed(replay_tag(f), now)
                 /\ accepted' = accepted /\ unopened' = unopened
              \/ /\ ~Replayed(replay_tag(f), now)
                 /\ accepted' = accepted /\ unopened' = unopened \cup {f}
              \/ /\ ~Replayed(replay_tag(f), now)
                 /\ accepted' = [accepted EXCEPT ![f] = Append(@, now)]
                 /\ unopened' = unopened
           /\ replay_tag(f) \in Tag
BY DEF process_payload, RejectReplay, RejectUndecryptable, Accept, Tag,
       replay_tag

\* Every action keeps the types.
LEMMA TypeStep ==
    ASSUME TypeOK, [Next]_vars
    PROVE  TypeOK'
<1>1. CASE Tick
  BY <1>1, MaxMillisAssumption DEF TypeOK, Tick, Millis, Tag
<1>2. CASE SetBack
  BY <1>2, MaxSetBacksAssumption DEF TypeOK, SetBack, Tag
<1>3. CASE Restart
  BY <1>3, MaxMillisAssumption, MaxSetBacksAssumption DEF TypeOK, Restart, Millis, Tag
<1>4. ASSUME NEW f \in Flight, NEW peer_ip \in Ip, process_payload(f, peer_ip)
      PROVE  TypeOK'
  <2>1. now \in Millis
    BY DEF TypeOK
  <2>2. /\ last_evict' = now
        /\ DOMAIN entries' = DOMAIN Retained(now) \cup {replay_tag(f)}
        /\ entries' \in [DOMAIN entries' -> Millis]
    BY <1>4, <2>1, PayloadStep, InsertFacts, Zenon
  <2>3. DOMAIN entries' \subseteq Tag
    BY <1>4, <2>1, <2>2, PayloadStep, RetainedFacts DEF TypeOK
  <2>4. accepted' \in [Flight -> Seq(Millis)]
    <3>1. accepted \in [Flight -> Seq(Millis)]
      BY DEF TypeOK
    <3>2. Append(accepted[f], now) \in Seq(Millis)
      BY <2>1, <3>1
    <3>3. [accepted EXCEPT ![f] = Append(@, now)] \in [Flight -> Seq(Millis)]
      BY <3>1, <3>2
    <3> QED
      BY <1>4, <3>1, <3>3, PayloadStep, Zenon
  <2> QED
    BY <1>4, <2>2, <2>3, <2>4, PayloadStep DEF TypeOK, Tag
<1>5. CASE UNCHANGED vars
  BY <1>5 DEF TypeOK, vars, Tag
<1> QED
  BY <1>1, <1>2, <1>3, <1>4, <1>5 DEF Next

\* The cache and the history stay within their types in every behaviour.
THEOREM TypeCorrect == Spec => []TypeOK
<1>1. Init => TypeOK
  BY MaxMillisAssumption, MaxSetBacksAssumption
     DEF Init, new, TypeOK, Millis, Tag
<1> QED
  BY <1>1, TypeStep, PTL DEF Spec

\* Every cached tag is that of a signed flight this process has admitted or
\* could not open.
TagOwned ==
    \A tag \in DOMAIN entries : \E f \in Flight :
        /\ verify_client_binding(f)
        /\ replay_tag(f) = tag
        /\ accepted[f] # <<>> \/ f \in unopened

\* No cached entry was older than Window at the last call.
EntriesRecent ==
    \A tag \in DOMAIN entries : entries[tag] + Window >= last_evict

CacheInv == TagOwned /\ EntriesRecent

\* Every action keeps the cache invariant.
LEMMA CacheStep ==
    ASSUME TypeOK, CacheInv, [Next]_vars
    PROVE  CacheInv'
<1>1. CASE Tick
  BY <1>1 DEF CacheInv, TagOwned, EntriesRecent, Tick
<1>2. CASE SetBack
  BY <1>2 DEF CacheInv, TagOwned, EntriesRecent, SetBack
<1>3. CASE Restart
  BY <1>3 DEF CacheInv, TagOwned, EntriesRecent, Restart
<1>4. ASSUME NEW f \in Flight, NEW peer_ip \in Ip, process_payload(f, peer_ip)
      PROVE  CacheInv'
  <2>1. now \in Millis
    BY DEF TypeOK
  <2>2. /\ last_evict' = now
        /\ DOMAIN entries' = DOMAIN Retained(now) \cup {replay_tag(f)}
        /\ \A tag \in DOMAIN entries' : entries'[tag] + Window >= now
    BY <1>4, <2>1, PayloadStep, InsertFacts, Zenon
  <2>3. EntriesRecent'
    BY <2>2 DEF EntriesRecent
  <2>4. \A g \in Flight : accepted[g] # <<>> => accepted'[g] # <<>>
    BY <1>4, <2>1, PayloadStep DEF TypeOK
  <2>5. unopened \subseteq unopened'
    BY <1>4, PayloadStep
  <2>6. ASSUME NEW tag \in DOMAIN Retained(now)
        PROVE  \E g \in Flight :
                  /\ verify_client_binding(g)
                  /\ replay_tag(g) = tag
                  /\ accepted'[g] # <<>> \/ g \in unopened'
    BY <2>1, <2>4, <2>5, <2>6, RetainedFacts DEF CacheInv, TagOwned
  <2>7. ASSUME ~Replayed(replay_tag(f), now)
        PROVE  accepted'[f] # <<>> \/ f \in unopened'
    BY <1>4, <2>1, <2>7, PayloadStep DEF TypeOK
  <2>8. verify_client_binding(f)
    BY <1>4, PayloadStep DEF Authentic
  <2>9. TagOwned'
    BY <2>2, <2>6, <2>7, <2>8 DEF TagOwned, Replayed
  <2> QED
    BY <2>3, <2>9 DEF CacheInv
<1>5. CASE UNCHANGED vars
  BY <1>5 DEF CacheInv, TagOwned, EntriesRecent, vars
<1> QED
  BY <1>1, <1>2, <1>3, <1>4, <1>5 DEF Next

\* The cache holds only recent tags of authenticated flights, even when the
\* wall clock is set back.
THEOREM CacheStaysRecent == Spec => []CacheOnlyRecent
<1>1. Init => TypeOK /\ CacheInv
  BY MaxMillisAssumption, MaxSetBacksAssumption
     DEF Init, new, TypeOK, Millis, Tag, CacheInv, TagOwned, EntriesRecent
<1>2. TypeOK /\ CacheInv /\ [Next]_vars => (TypeOK /\ CacheInv)'
  BY TypeStep, CacheStep
<1>3. CacheInv => CacheOnlyRecent
  BY DEF CacheInv, TagOwned, EntriesRecent, CacheOnlyRecent
<1> QED
  BY <1>1, <1>2, <1>3, PTL DEF Spec

\* A flight is struck only because of a signed flight with its tag that this
\* process admitted or could not open, even when the wall clock is set back.
THEOREM RefusalsHaveCause == Spec => []RefusalHasCause
<1>1. Init => TypeOK /\ CacheInv
  BY MaxMillisAssumption, MaxSetBacksAssumption
     DEF Init, new, TypeOK, Millis, Tag, CacheInv, TagOwned, EntriesRecent
<1>2. TypeOK /\ CacheInv /\ [Next]_vars => (TypeOK /\ CacheInv)'
  BY TypeStep, CacheStep
<1>3. TypeOK /\ CacheInv => RefusalHasCause
  <2> SUFFICES ASSUME TypeOK, CacheInv, NEW f \in Flight,
                      Replayed(replay_tag(f), now)
               PROVE  \E g \in Flight :
                         /\ verify_client_binding(g)
                         /\ replay_tag(g) = replay_tag(f)
                         /\ accepted[g] # <<>> \/ g \in unopened
    BY DEF RefusalHasCause
  <2>1. replay_tag(f) \in DOMAIN entries
    BY RetainedFacts DEF Replayed, TypeOK
  <2> QED
    BY <2>1 DEF CacheInv, TagOwned
<1> QED
  BY <1>1, <1>2, <1>3, PTL DEF Spec

-----------------------------------------------------------------------------
(***************************************************************************)
(* At most one admission per window, until the clock is set back.          *)
(***************************************************************************)

\* Nothing in the cache or in the history is later than the last call, and
\* the last call is not later than the clock.
ClockAhead ==
    /\ last_evict <= now
    /\ \A f \in Flight : \A i \in DOMAIN accepted[f] : accepted[f][i] <= last_evict

\* An admission is either more than Window older than the last call, or its
\* tag is still cached with a time that is not earlier.
Remembered ==
    \A f \in Flight : \A i \in DOMAIN accepted[f] :
        \/ accepted[f][i] + Window < last_evict
        \/ /\ replay_tag(f) \in DOMAIN entries
           /\ entries[replay_tag(f)] >= accepted[f][i]

\* Every admission happened inside the window of the flight's timestamp.
AdmittedInWindow ==
    \A f \in Flight : \A i \in DOMAIN accepted[f] :
        /\ f.ts_millis <= accepted[f][i] + Skew
        /\ accepted[f][i] <= f.ts_millis + Window

GateInv ==
    /\ TypeOK
    /\ ClockAhead
    /\ Remembered
    /\ AdmittedInWindow
    /\ Spaced
    /\ Apart

\* The empty cache and history satisfy the invariant.
LEMMA GateInit ==
    ASSUME Init
    PROVE  GateInv
<1>1. TypeOK
  BY MaxMillisAssumption, MaxSetBacksAssumption
     DEF Init, new, TypeOK, Millis, Tag
<1>2. \A f \in Flight : DOMAIN accepted[f] = {}
  BY DEF Init
<1>3. last_evict <= now
  BY MaxMillisAssumption DEF Init, new, Millis
<1> QED
  BY <1>1, <1>2, <1>3
     DEF GateInv, ClockAhead, Remembered, AdmittedInWindow, Spaced, Apart

\* One call of process_payload keeps the invariant.
LEMMA GatePayload ==
    ASSUME GateInv, NEW f \in Flight, NEW peer_ip \in Ip,
           process_payload(f, peer_ip), TypeOK'
    PROVE  GateInv'
<1> DEFINE tag == replay_tag(f)
<1>1. /\ now \in Millis /\ last_evict \in Millis /\ last_evict <= now
      /\ \A g \in Flight : \A i \in DOMAIN accepted[g] : accepted[g][i] \in Millis
      /\ \A u \in DOMAIN entries : entries[u] \in Millis
      /\ f.ts_millis \in Millis
  BY FlightAssumption DEF GateInv, TypeOK, ClockAhead
<1>2. /\ last_evict' = now
      /\ DOMAIN entries' = DOMAIN Retained(now) \cup {tag}
      /\ \A u \in DOMAIN Retained(now) :
             u \in DOMAIN entries' /\ entries'[u] = entries[u]
      /\ ~Replayed(tag, now) => entries'[tag] = now
  BY <1>1, PayloadStep, InsertFacts, Zenon DEF GateInv
<1>3. now' = now
  BY PayloadStep
<1>4. \A u \in DOMAIN entries :
          u \notin DOMAIN Retained(now) => entries[u] + Window < now
  BY <1>1, RetainedFacts DEF GateInv
\* Admissions already in the history stay remembered.
<1>5. ASSUME NEW g \in Flight, NEW i \in DOMAIN accepted[g]
      PROVE  \/ accepted[g][i] + Window < now
             \/ /\ replay_tag(g) \in DOMAIN entries'
                /\ entries'[replay_tag(g)] >= accepted[g][i]
  <2>1. CASE accepted[g][i] + Window < last_evict
    BY <1>1, <2>1, WindowAssumption, MaxMillisAssumption DEF Millis
  <2>2. CASE /\ replay_tag(g) \in DOMAIN Retained(now)
             /\ entries[replay_tag(g)] >= accepted[g][i]
    BY <1>2, <2>2
  <2>3. CASE /\ replay_tag(g) \in DOMAIN entries \ DOMAIN Retained(now)
             /\ entries[replay_tag(g)] >= accepted[g][i]
    <3>1. entries[replay_tag(g)] + Window < now
      BY <1>4, <2>3
    <3> QED
      BY <1>1, <2>3, <3>1, WindowAssumption, MaxMillisAssumption DEF Millis
  <2> QED
    BY <2>1, <2>2, <2>3 DEF GateInv, Remembered
<1>6. CASE accepted' = accepted
  <2>1. ClockAhead'
    BY <1>1, <1>2, <1>3, <1>6, MaxMillisAssumption
       DEF GateInv, ClockAhead, Millis
  <2>2. Remembered'
    BY <1>2, <1>5, <1>6 DEF Remembered
  <2> QED
    BY <1>6, <2>1, <2>2
       DEF GateInv, AdmittedInWindow, Spaced, Apart
<1>7. CASE /\ ~Replayed(tag, now)
           /\ accepted' = [accepted EXCEPT ![f] = Append(@, now)]
  <2> DEFINE n == Len(accepted[f])
  <2>1. /\ \A g \in Flight : g # f => accepted'[g] = accepted[g]
        /\ n \in Nat
        /\ DOMAIN accepted[f] = 1 .. n
        /\ DOMAIN accepted'[f] = 1 .. (n + 1)
        /\ \A i \in 1 .. n : accepted'[f][i] = accepted[f][i]
        /\ accepted'[f][n + 1] = now
    <3>1. accepted[f] \in Seq(Millis) /\ f \in DOMAIN accepted
      BY DEF GateInv, TypeOK
    <3>2. accepted'[f] = Append(accepted[f], now)
      BY <1>7, <3>1
    <3>3. \A g \in Flight : g # f => accepted'[g] = accepted[g]
      BY <1>7 DEF GateInv, TypeOK
    <3> QED
      BY <3>1, <3>2, <3>3, <1>1
  <2>2. \A i \in 1 .. (n + 1) : i \in 1 .. n \/ i = n + 1
    BY <2>1
  \* The flight's tag was not cached, so earlier admissions under it, of
  \* this flight or another, are out of the window.
  <2>3. \A g \in Flight : replay_tag(g) = tag =>
            \A i \in DOMAIN accepted[g] : accepted[g][i] + Window < now
    <3> SUFFICES ASSUME NEW g \in Flight, replay_tag(g) = tag,
                        NEW i \in DOMAIN accepted[g]
                 PROVE  accepted[g][i] + Window < now
      OBVIOUS
    <3>1. CASE accepted[g][i] + Window < last_evict
      BY <1>1, <3>1, WindowAssumption, MaxMillisAssumption DEF Millis
    <3>2. CASE tag \in DOMAIN entries /\ entries[tag] >= accepted[g][i]
      <4>1. entries[tag] + Window < now
        BY <1>4, <1>7, <3>2 DEF Replayed
      <4> QED
        BY <1>1, <3>2, <4>1, WindowAssumption, MaxMillisAssumption DEF Millis
    <3> QED
      BY <3>1, <3>2 DEF GateInv, Remembered
  <2>4. ClockAhead'
    <3>1. \A g \in Flight : \A i \in DOMAIN accepted[g] : accepted[g][i] <= now
      BY <1>1, MaxMillisAssumption DEF GateInv, ClockAhead, Millis
    <3>2. now <= now
      BY <1>1 DEF Millis
    <3>3. \A i \in 1 .. (n + 1) : accepted'[f][i] <= now
      BY <2>1, <2>2, <3>1, <3>2
    <3> QED
      BY <1>2, <1>3, <2>1, <3>1, <3>2, <3>3 DEF ClockAhead
  <2>5. Remembered'
    <3>1. entries'[tag] = now /\ tag \in DOMAIN entries' /\ now >= now
      BY <1>1, <1>2, <1>7 DEF Millis
    <3>2. \A i \in 1 .. (n + 1) :
              \/ accepted'[f][i] + Window < now
              \/ tag \in DOMAIN entries' /\ entries'[tag] >= accepted'[f][i]
      BY <2>1, <2>2, <2>3, <3>1
    <3> QED
      BY <1>2, <1>5, <2>1, <3>2 DEF Remembered
  <2>6. AdmittedInWindow'
    <3>1. check_window(now, f.ts_millis, Window, Skew)
      BY PayloadStep DEF Authentic
    <3>2. f.ts_millis <= now + Skew /\ now <= f.ts_millis + Window
      BY <1>1, <3>1, CheckWindowBounds
    <3>3. \A i \in 1 .. (n + 1) : /\ f.ts_millis <= accepted'[f][i] + Skew
                                  /\ accepted'[f][i] <= f.ts_millis + Window
      BY <2>1, <2>2, <3>2 DEF GateInv, AdmittedInWindow
    <3> QED
      BY <2>1, <3>3, SMTT(20) DEF GateInv, AdmittedInWindow
  <2>7. Spaced'
    <3>1. ASSUME NEW i \in 1 .. (n + 1), NEW j \in 1 .. (n + 1), i < j
          PROVE  accepted'[f][j] > accepted'[f][i] + Window
      <4>1. CASE j = n + 1
        <5>1. i \in 1 .. n
          BY <2>1, <3>1, <4>1
        <5>2. accepted[f][i] \in Int /\ now \in Int /\ Window \in Int
          BY <1>1, <2>1, <5>1, WindowAssumption, MaxMillisAssumption DEF Millis
        <5> QED
          BY <2>1, <2>3, <4>1, <5>1, <5>2
      <4>2. CASE j \in 1 .. n
        <5>1. i \in 1 .. n
          BY <2>1, <3>1, <4>2
        <5> QED
          BY <2>1, <3>1, <4>2, <5>1, Zenon DEF GateInv, Spaced
      <4> QED
        BY <2>2, <4>1, <4>2
    <3> QED
      BY <2>1, <3>1, SMTT(20) DEF GateInv, Spaced
  <2>8. Apart'
    <3> SUFFICES ASSUME NEW g \in Flight, NEW h \in Flight, g # h,
                        replay_tag(g) = replay_tag(h),
                        NEW i \in DOMAIN accepted'[g],
                        NEW j \in DOMAIN accepted'[h]
                 PROVE  \/ accepted'[h][j] > accepted'[g][i] + Window
                        \/ accepted'[g][i] > accepted'[h][j] + Window
      BY DEF Apart
    <3>1. ASSUME NEW k \in Flight, replay_tag(k) = tag, k # f,
                 NEW m \in DOMAIN accepted'[k]
          PROVE  /\ now > accepted'[k][m] + Window
                 /\ accepted'[k] = accepted[k] /\ m \in DOMAIN accepted[k]
      <4>1. accepted'[k] = accepted[k] /\ m \in DOMAIN accepted[k]
        BY <2>1, <3>1
      <4>2. accepted[k][m] + Window < now
        BY <2>3, <3>1, <4>1
      <4>3. accepted[k][m] \in Int /\ now \in Int /\ Window \in Int
        BY <1>1, <4>1, WindowAssumption, MaxMillisAssumption DEF Millis
      <4> QED BY <4>1, <4>2, <4>3
    <3>2. CASE g # f /\ h # f
      BY <2>1, <3>2 DEF GateInv, Apart
    <3>3. CASE g = f
      <4>1. i \in 1 .. n \/ i = n + 1
        BY <2>1, <3>3
      <4>2. h # f /\ replay_tag(h) = tag
        BY <3>3
      <4> QED BY <2>1, <3>1, <3>3, <4>1, <4>2, SMTT(20) DEF GateInv, Apart
    <3>4. CASE h = f
      <4>1. j \in 1 .. n \/ j = n + 1
        BY <2>1, <3>4
      <4>2. g # f /\ replay_tag(g) = tag
        BY <3>4
      <4> QED BY <2>1, <3>1, <3>4, <4>1, <4>2, SMTT(20) DEF GateInv, Apart
    <3> QED BY <3>2, <3>3, <3>4
  <2> QED
    BY <2>4, <2>5, <2>6, <2>7, <2>8 DEF GateInv
<1> QED
  BY <1>6, <1>7, PayloadStep

\* A new process starts with the invariant, whatever the old one did.
LEMMA GateRestart ==
    ASSUME TypeOK, TypeOK', Restart
    PROVE  GateInv'
<1>1. \A f \in Flight : DOMAIN accepted'[f] = {}
  BY DEF Restart
<1>2. last_evict' <= now'
  BY MaxMillisAssumption DEF Restart, TypeOK, Millis
<1> QED
  BY <1>1, <1>2
     DEF GateInv, ClockAhead, Remembered, AdmittedInWindow, Spaced, Apart

\* Every step that does not set the clock back keeps the invariant.
LEMMA GateStep ==
    ASSUME GateInv, [Next]_vars, ~SetBack
    PROVE  GateInv'
<1>0. TypeOK'
  BY TypeStep DEF GateInv
<1>1. CASE Tick
  <2>1. last_evict' <= now'
    BY <1>1, MaxMillisAssumption DEF Tick, GateInv, ClockAhead, TypeOK, Millis
  <2> QED
    BY <1>0, <1>1, <2>1
       DEF Tick, GateInv, ClockAhead, Remembered, AdmittedInWindow,
           Spaced, Apart
<1>3. CASE Restart
  BY <1>0, <1>3, GateRestart DEF GateInv
<1>4. CASE \E f \in Flight, peer_ip \in Ip : process_payload(f, peer_ip)
  BY <1>0, <1>4, GatePayload
<1>5. CASE UNCHANGED vars
  BY <1>0, <1>5
     DEF vars, GateInv, ClockAhead, Remembered, AdmittedInWindow,
         Spaced, Apart
<1> QED
  BY <1>1, <1>3, <1>4, <1>5 DEF Next

\* The invariant of a process that may see its clock set back.
SteadyInv ==
    /\ TypeOK
    /\ setbacks = 0 => GateInv

\* The first state satisfies it.
LEMMA SteadyInit ==
    ASSUME Init
    PROVE  SteadyInv
BY GateInit DEF SteadyInv, GateInv

\* Every step keeps it: a set-back is counted, and only a new process forgets
\* the count.
LEMMA SteadyStep ==
    ASSUME SteadyInv, [Next]_vars
    PROVE  SteadyInv'
<1>0. TypeOK'
  BY TypeStep DEF SteadyInv
<1>1. CASE Restart
  BY <1>0, <1>1, GateRestart DEF SteadyInv
<1>2. CASE SetBack
  <2>1. setbacks' # 0
    BY <1>2, MaxSetBacksAssumption DEF SetBack, SteadyInv, TypeOK
  <2> QED
    BY <1>0, <2>1 DEF SteadyInv
<1>3. CASE ~Restart /\ ~SetBack
  <2>1. setbacks' = setbacks
    <3>1. CASE Tick
      BY <3>1 DEF Tick
    <3>2. CASE \E f \in Flight, peer_ip \in Ip : process_payload(f, peer_ip)
      BY <3>2, PayloadStep
    <3>3. CASE UNCHANGED vars
      BY <3>3 DEF vars
    <3> QED
      BY <1>3, <3>1, <3>2, <3>3 DEF Next
  <2>2. ASSUME setbacks' = 0
        PROVE  GateInv'
    BY <1>3, <2>1, <2>2, GateStep DEF SteadyInv
  <2> QED
    BY <1>0, <2>2 DEF SteadyInv
<1> QED
  BY <1>1, <1>2, <1>3

\* The invariant holds of every state of every behaviour of process_payload.
THEOREM SteadyHolds == Spec => []SteadyInv
BY SteadyInit, SteadyStep, PTL DEF Spec

\* Until its clock is set back, a run of the process never admits a flight
\* twice within Window milliseconds.
THEOREM ReplayGate == Spec => []NoReplayWithinWindow
<1>1. SteadyInv => NoReplayWithinWindow
  BY DEF SteadyInv, GateInv, NoReplayWithinWindow
<1> QED
  BY <1>1, SteadyHolds, PTL

\* A second admission after more than Window, still inside the window of the
\* timestamp, needs a first one ahead of the timestamp.
LEMMA SecondNeedsSkew ==
    ASSUME GateInv, NEW f \in Flight, NEW i \in DOMAIN accepted[f],
           NEW j \in DOMAIN accepted[f], i < j
    PROVE  accepted[f][i] < f.ts_millis
<1>1. accepted[f][j] > accepted[f][i] + Window
  BY DEF GateInv, Spaced
<1>2. accepted[f][j] <= f.ts_millis + Window
  BY DEF GateInv, AdmittedInWindow
<1>3. /\ accepted[f][i] \in Millis /\ accepted[f][j] \in Millis
      /\ f.ts_millis \in Millis
  BY FlightAssumption DEF GateInv, TypeOK
<1> QED
  BY <1>1, <1>2, <1>3, WindowAssumption, MaxMillisAssumption DEF Millis

\* Until its clock is set back, a run of the process admits a flight again
\* only if the clock was behind the flight's timestamp before.
THEOREM ReplayNeedsSkew == Spec => []OnceUnlessAhead
<1>1. SteadyInv => OnceUnlessAhead
  BY SecondNeedsSkew DEF SteadyInv, OnceUnlessAhead
<1> QED
  BY <1>1, SteadyInit, SteadyStep, PTL DEF Spec

-----------------------------------------------------------------------------
(***************************************************************************)
(* How often a flight can be admitted.                                     *)
(***************************************************************************)

\* The i-th admission is at least i - 1 spacings after the first.
Paced ==
    \A f \in Flight : \A i \in DOMAIN accepted[f] :
        accepted[f][1] + (i - 1) * (Window + 1) <= accepted[f][i]

\* A history in which one more admission keeps its distance stays paced.
LEMMA PacedStep ==
    ASSUME GateInv, GateInv', Paced, [Next]_vars
    PROVE  Paced'
<1>1. CASE accepted' = accepted
  BY <1>1 DEF Paced
<1>2. CASE Restart
  BY <1>2 DEF Restart, Paced
<1>3. ASSUME NEW f \in Flight,
             accepted' = [accepted EXCEPT ![f] = Append(@, now)]
      PROVE  Paced'
  <2> DEFINE s == accepted[f]
             t == accepted'[f]
             n == Len(s)
  <2>1. /\ s \in Seq(Millis) /\ now \in Millis /\ t = Append(s, now)
        /\ t \in Seq(Millis)
        /\ \A g \in Flight : g # f => accepted'[g] = accepted[g]
    BY <1>3 DEF GateInv, TypeOK
  <2>2. /\ n \in Nat /\ DOMAIN s = 1 .. n /\ DOMAIN t = 1 .. (n + 1)
        /\ \A i \in 1 .. n : t[i] = s[i]
    BY <2>1
  <2>3. Window + 1 \in Int /\ \A i \in 1 .. (n + 1) : t[i] \in Int
    BY <2>1, <2>2, WindowAssumption, MaxMillisAssumption DEF Millis
  <2>4. ASSUME NEW i \in 1 .. (n + 1)
        PROVE  t[1] + (i - 1) * (Window + 1) <= t[i]
    <3>1. CASE i \in 1 .. n
      BY <2>2, <3>1 DEF Paced
    <3>2. CASE i = n + 1 /\ n = 0
      BY <2>3, <3>2
    <3>3. CASE i = n + 1 /\ n > 0
      <4>1. t[n] + (Window + 1) <= t[n + 1]
        <5>1. t[n + 1] > t[n] + Window
          BY <2>2, <3>3 DEF GateInv, Spaced
        <5> QED BY <2>2, <2>3, <3>3, <5>1, WindowAssumption,
                   MaxMillisAssumption, SMTT(20) DEF Millis
      <4>2. t[1] + (n - 1) * (Window + 1) <= t[n]
        BY <2>2, <3>3 DEF Paced
      <4>3. n * (Window + 1) = (n - 1) * (Window + 1) + (Window + 1)
        BY <2>2, <2>3
      <4>4. (n - 1) * (Window + 1) \in Int /\ t[1] \in Int /\ t[n] \in Int
            /\ t[n + 1] \in Int
        BY <2>2, <2>3, <3>3
      <4> HIDE DEF n, t
      <4>5. t[1] + n * (Window + 1) <= t[n + 1]
        BY <2>3, <4>1, <4>2, <4>3, <4>4
      <4> QED BY <2>2, <3>3, <4>5
    <3> QED BY <2>2, <3>1, <3>2, <3>3
  <2> QED BY <2>1, <2>2, <2>4, Zenon DEF Paced
<1>4. \/ accepted' = accepted
      \/ Restart
      \/ \E f \in Flight :
            accepted' = [accepted EXCEPT ![f] = Append(@, now)]
  BY PayloadStep DEF Next, vars, Tick, SetBack
<1> QED BY <1>1, <1>2, <1>3, <1>4

\* The arithmetic of the bound: n spacings fit into the time a flight passes
\* check_window only if n is at most the quotient.
LEMMA SpacingsFit ==
    ASSUME NEW n \in Nat, NEW w \in Nat, NEW a \in Nat,
           n * (w + 1) <= a
    PROVE  n <= a \div (w + 1)
<1> DEFINE q == a \div (w + 1)
<1>1. q \in Int /\ a < (q + 1) * (w + 1)
  OBVIOUS
<1> HIDE DEF q
<1>2. n * (w + 1) < (q + 1) * (w + 1)
  BY <1>1
<1>3. n < q + 1
  BY <1>1, <1>2
<1> QED BY <1>1, <1>3 DEF q

LEMMA PacedBound ==
    ASSUME GateInv, Paced, NEW f \in Flight
    PROVE  Len(accepted[f]) <= 1 + (Skew + Window) \div (Window + 1)
<1> DEFINE s == accepted[f]
           m == Len(s)
<1>1. s \in Seq(Millis) /\ f.ts_millis \in Millis
  BY FlightAssumption DEF GateInv, TypeOK
<1>2. m \in Nat /\ DOMAIN s = 1 .. m
  BY <1>1
<1>3. Skew \in Nat /\ Window \in Nat
  BY SkewAssumption, WindowAssumption, MaxMillisAssumption DEF Millis
<1>4. (Skew + Window) \div (Window + 1) \in Nat
  BY <1>3
<1>5. CASE m = 0
  BY <1>4, <1>5
<1>6. CASE m > 0
  <2>1. 1 \in DOMAIN s /\ m \in DOMAIN s
    BY <1>2, <1>6
  <2>2. s[1] \in Nat /\ s[m] \in Nat /\ f.ts_millis \in Nat
    BY <1>1, <2>1, MaxMillisAssumption DEF Millis
  <2>3. /\ f.ts_millis <= s[1] + Skew
        /\ s[m] <= f.ts_millis + Window
    BY <2>1 DEF GateInv, AdmittedInWindow
  <2>4. s[1] + (m - 1) * (Window + 1) <= s[m]
    BY <2>1 DEF Paced
  <2> DEFINE gaps == m - 1
             span == gaps * (Window + 1)
             time == Skew + Window
  <2>5. gaps \in Nat /\ time \in Nat
    BY <1>2, <1>3, <1>6
  <2>6. span <= time
    <3> HIDE DEF gaps
    <3>1. span \in Int
      BY <1>3, <2>5
    <3>2. s[1] + span <= s[m]
      BY <2>4 DEF gaps
    <3> HIDE DEF span, s, m
    <3> QED BY <1>3, <2>2, <2>3, <3>1, <3>2
  <2>7. gaps <= time \div (Window + 1)
    <3> HIDE DEF gaps, time
    <3> QED BY <1>3, <2>5, <2>6, SpacingsFit, Zenon
  <2> QED BY <1>2, <1>4, <2>7
<1> QED BY <1>2, <1>5, <1>6

\* Until its clock is set back, a run of the process admits a flight at most
\* as often as Window + 1 fits into the time check_window passes it.
THEOREM AdmissionsBounded == Spec => []AcceptanceBound
<1> DEFINE PacedInv == SteadyInv /\ (setbacks = 0 => Paced)
<1>1. Init => PacedInv
  BY SteadyInit DEF Init, Paced
<1>2. PacedInv /\ [Next]_vars => PacedInv'
  <2> SUFFICES ASSUME PacedInv, [Next]_vars PROVE PacedInv'
    OBVIOUS
  <2>1. SteadyInv'
    BY SteadyStep
  <2>2. CASE setbacks = 0 /\ setbacks' = 0
    BY <2>1, <2>2, PacedStep DEF SteadyInv
  <2>3. CASE setbacks' # 0
    BY <2>1, <2>3
  <2>4. CASE setbacks # 0 /\ setbacks' = 0
    <3>1. Restart
      BY <2>4, PayloadStep, MaxSetBacksAssumption
         DEF Next, vars, Tick, SetBack, SteadyInv, TypeOK
    <3> QED BY <2>1, <3>1 DEF Restart, Paced
  <2> QED BY <2>2, <2>3, <2>4
<1>3. PacedInv => AcceptanceBound
  BY PacedBound DEF SteadyInv, AcceptanceBound
<1> QED BY <1>1, <1>2, <1>3, PTL DEF Spec

-----------------------------------------------------------------------------
(***************************************************************************)
(* Without skew the gate implements AtMostOnce.                            *)
(***************************************************************************)

\* Without skew a flight is admitted at most once by a run of the process.
LEMMA OnceWithoutSkew ==
    ASSUME Skew = 0
    PROVE  GateInv => \A f \in Flight : Len(accepted[f]) \in 0 .. 1
<1> SUFFICES ASSUME GateInv, NEW f \in Flight
             PROVE  Len(accepted[f]) \in 0 .. 1
  OBVIOUS
<1>1. /\ accepted[f] \in Seq(Millis)
      /\ f.ts_millis \in Millis
  BY FlightAssumption DEF GateInv, TypeOK
<1>2. ~(Len(accepted[f]) >= 2)
  <2> SUFFICES ASSUME Len(accepted[f]) >= 2
               PROVE  FALSE
    OBVIOUS
  <2>1. 1 \in DOMAIN accepted[f] /\ 2 \in DOMAIN accepted[f]
    BY <1>1
  <2>2. accepted[f][1] < f.ts_millis
    BY <1>1, <2>1, SecondNeedsSkew
  <2>3. f.ts_millis <= accepted[f][1] + Skew
    BY <2>1 DEF GateInv, AdmittedInWindow
  <2>4. accepted[f][1] \in Millis
    BY <1>1, <2>1
  <2> QED
    BY <1>1, <2>2, <2>3, <2>4, MaxMillisAssumption DEF Millis
<1>3. Len(accepted[f]) \in Nat
  BY <1>1
<1>4. \A n \in Nat : ~(n >= 2) => n \in 0 .. 1
  OBVIOUS
<1> QED
  BY <1>2, <1>3, <1>4, Zenon

\* When no skew is tolerated and the clock is never set back, the gate
\* implements the specification that admits every flight at most once between
\* restarts.
THEOREM GateImplementsAtMostOnce ==
    ASSUME MaxSetBacks = 0, Skew = 0
    PROVE  Spec => OnceSpec
<1> DEFINE count == [f \in Flight |-> Len(accepted[f])]
<1>1. Init => Once!Init
  BY DEF Init, Once!Init
<1>0. (GateInv => \A f \in Flight : Len(accepted[f]) \in 0 .. 1)'
  BY OnceWithoutSkew, PTL
<1>2. ASSUME GateInv, GateInv', [Next]_vars
      PROVE  [Once!Next]_count
  <2>1. CASE accepted' = accepted
    BY <2>1
  <2>2. CASE Restart
    BY <2>2 DEF Restart, Once!Next, Once!Forget
  <2>3. ASSUME NEW f \in Flight,
               accepted' = [accepted EXCEPT ![f] = Append(@, now)]
        PROVE  Once!Consume(f)
    <3>1. /\ accepted \in [Flight -> Seq(Millis)]
          /\ now \in Millis
      BY <1>2 DEF GateInv, TypeOK
    <3>2. accepted'[f] = Append(accepted[f], now)
      BY <2>3, <3>1
    <3>3. Len(accepted'[f]) = Len(accepted[f]) + 1
      BY <3>1, <3>2
    <3>4. Len(accepted'[f]) \in 0 .. 1 /\ Len(accepted[f]) \in 0 .. 1
      BY <1>0, <1>2, OnceWithoutSkew
    <3>5. Len(accepted[f]) = 0 /\ Len(accepted'[f]) = 1
      BY <3>3, <3>4
    <3>6. \A g \in Flight : g # f => accepted'[g] = accepted[g]
      BY <2>3, <3>1
    <3>7. count' = [count EXCEPT ![f] = 1]
      BY <3>5, <3>6, Zenon
    <3> QED
      BY <3>5, <3>7 DEF Once!Consume
  <2>4. \/ accepted' = accepted
        \/ Restart
        \/ \E f \in Flight :
              accepted' = [accepted EXCEPT ![f] = Append(@, now)]
    BY <1>2, PayloadStep DEF Next, vars, Tick, SetBack
  <2> QED
    BY <2>1, <2>2, <2>3, <2>4 DEF Once!Next
<1>3. GateInv /\ [Next]_vars => GateInv'
  <2>1. GateInv => ~SetBack
    BY MaxSetBacksAssumption DEF SetBack, GateInv, TypeOK
  <2> QED
    BY <2>1, GateStep
<1> QED
  BY <1>1, <1>2, <1>3, GateInit, PTL DEF Spec, OnceSpec, Once!Spec
=============================================================================
