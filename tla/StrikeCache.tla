---------------------------- MODULE StrikeCache -----------------------------
(***************************************************************************)
(* ort-core/src/replay.rs: the cache of replay tags the server has         *)
(* admitted, each with its arrival time.  The cache evicts lazily, inside  *)
(* check_and_insert only.                                                  *)
(***************************************************************************)
EXTENDS Time, Functions

CONSTANT Window          \* StrikeCache.window_ms

ASSUME WindowAssumption == Window \in Millis

VARIABLES
    entries,             \* replay tag |-> arrival time
    last_evict           \* the time of the last eviction

strikeVars == <<entries, last_evict>>

new ==
    /\ entries = [tag \in {} |-> 0]
    /\ last_evict = 0

\* Faulty variant: an entry exactly Window old is dropped.
RetainedExclusive(now) ==
    Restrict(entries,
        {tag \in DOMAIN entries : entries[tag] > saturating_sub(now, Window)})

\* Faulty variant: nothing is ever dropped.
RetainedForever(now) == entries

\* What entries.retain keeps when evict runs at time now.
Retained(now) ==
    Restrict(entries,
        {tag \in DOMAIN entries : entries[tag] >= saturating_sub(now, Window)})

\* check_and_insert answers Err(Replayed).
Replayed(tag, now) == tag \in DOMAIN Retained(now)

\* The entries check_and_insert leaves: evict, then insert the tag unless it
\* is still there.
Inserted(tag, now) ==
    IF Replayed(tag, now)
      THEN Retained(now)
      ELSE [t \in DOMAIN Retained(now) \cup {tag} |->
                IF t = tag THEN now ELSE Retained(now)[t]]

check_and_insert(tag, now) ==
    /\ entries' = Inserted(tag, now)
    /\ last_evict' = now
=============================================================================
