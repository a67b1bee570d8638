-------------------------------- MODULE Time --------------------------------
(***************************************************************************)
(* ort-core/src/time.rs: milliseconds as u64 values and the anti-replay    *)
(* window test.  MaxMillis stands for u64::MAX, so that the saturating     *)
(* operations saturate inside the range TLC explores.                      *)
(***************************************************************************)
EXTENDS Integers

CONSTANT MaxMillis

ASSUME MaxMillisAssumption == MaxMillis \in Nat

Millis == 0 .. MaxMillis

saturating_add(a, b) == IF a + b > MaxMillis THEN MaxMillis ELSE a + b

saturating_sub(a, b) == IF a < b THEN 0 ELSE a - b

\* Faulty variant: the age comparison is off by one.
check_window_off_by_one(now_ms, ts_ms, window_ms, skew_ms) ==
    /\ ts_ms <= saturating_add(now_ms, skew_ms)
    /\ saturating_sub(now_ms, ts_ms) <= window_ms + 1

\* TRUE when check_window returns Ok: ts_ms is at most skew_ms ahead of the
\* clock and at most window_ms behind it.
check_window(now_ms, ts_ms, window_ms, skew_ms) ==
    /\ ts_ms <= saturating_add(now_ms, skew_ms)
    /\ saturating_sub(now_ms, ts_ms) <= window_ms
=============================================================================
