------------------------------ MODULE Allowance ------------------------------
(***************************************************************************)
(* What an owner is promised about one asset: while a limit of `cap` per   *)
(* `window` is in force, what is spent in each window of the fixed grid    *)
(* stays within `cap`, and the meter returns to zero only when the grid    *)
(* moves on or when the owner changes the limit.  There is no remaining    *)
(* amount, no anchor and no lazy refill here; the wallet program keeps     *)
(* those, and implements this.                                             *)
(***************************************************************************)
EXTENDS Integers

VARIABLES
    clock,   \* chain time, in seconds
    limit,   \* the limit in force, or NoLimit
    spent    \* what was spent of it in the current window

allowanceVars == <<clock, limit, spent>>

NoLimit == [cap |-> 0, window |-> 0]

\* A window of 0 is one window that never ends.
SameWindow(window, s, t) == window = 0 \/ s \div window = t \div window

Init == limit = NoLimit /\ spent = 0

Spend ==
    /\ spent' > spent
    /\ spent' <= limit.cap
    /\ UNCHANGED <<clock, limit>>

Advance ==
    /\ clock' > clock
    /\ spent' = IF SameWindow(limit.window, clock, clock') THEN spent ELSE 0
    /\ UNCHANGED limit

\* Only a different limit restarts the meter.
Configure ==
    /\ limit' # limit
    /\ spent' = 0
    /\ UNCHANGED clock

Next == Spend \/ Advance \/ Configure

Spec == Init /\ [][Next]_allowanceVars

=============================================================================
