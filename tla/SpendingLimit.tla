---------------------------- MODULE SpendingLimit ----------------------------
(***************************************************************************)
(* The spending allowance of programs/phygital-wallet, as pure operators.  *)
(* A SpendCap grants `cap` units per window of `window_seconds`, windows   *)
(* lying on the grid of multiples of `window_seconds` since the epoch; a   *)
(* window of 0 never refills.  Refills are lazy: nothing happens when a    *)
(* window ends, the next charge finds out how many windows have passed.    *)
(***************************************************************************)
EXTENDS Integers

\* u64 amounts and i64 seconds; the clock of a cluster is never negative.
SpendCap == [cap : Nat, remaining : Nat, last_reset : Nat, window_seconds : Nat]

\* SpendCap::default, the value that stands for "no cap".
InactiveCap ==
    [cap |-> 0, remaining |-> 0, last_reset |-> 0, window_seconds |-> 0]

is_active(c) == c.cap # 0

align_to_window(now, window) ==
    IF window <= 0 THEN now ELSE now - (now % window)

\* What new_spend_cap requires of its arguments.
valid_cap_args(cap, window) == cap > 0 /\ window >= 0

new_spend_cap(cap, window, now) ==
    [cap            |-> cap,
     remaining      |-> cap,
     last_reset     |-> align_to_window(now, window),
     window_seconds |-> window]

\* Saving a policy whose cap and window are the ones already in force keeps
\* the counters.  An absent previous cap is InactiveCap, which equals no new one.
preserve_spend_cap(new, prev) ==
    IF prev.cap = new.cap /\ prev.window_seconds = new.window_seconds
    THEN prev
    ELSE new

\* Mutant: the counter is refilled by any passage of time.
refill_early(c, now) ==
    IF c.window_seconds > 0 /\ now > c.last_reset THEN [c EXCEPT !.remaining = c.cap] ELSE c

\* The lazy refill at the head of charge_cap, by whole windows.
refill(c, now) ==
    LET elapsed == now - c.last_reset
    IN  IF c.window_seconds > 0 /\ elapsed >= c.window_seconds
        THEN [cap            |-> c.cap,
              remaining      |-> c.cap,
              last_reset     |-> c.last_reset
                                   + (elapsed \div c.window_seconds) * c.window_seconds,
              window_seconds |-> c.window_seconds]
        ELSE c

\* charge_cap fails with SpendLimitExceeded exactly when this is false.
can_charge(c, amount, now) == amount = 0 \/ amount <= refill(c, now).remaining

charge_cap(c, amount, now) ==
    IF amount = 0
    THEN c
    ELSE [refill(c, now) EXCEPT !.remaining = @ - amount]

-----------------------------------------------------------------------------
\* What every operation keeps: a counter within its cap, anchored on the grid
\* of its window and not ahead of the clock.
cap_sound(c, now) ==
    /\ c.remaining <= c.cap
    /\ c.last_reset <= now
    /\ c.window_seconds > 0 => c.last_reset % c.window_seconds = 0

=============================================================================
