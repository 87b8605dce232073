---------------------------- MODULE RateLimiter ----------------------------
(***************************************************************************)
(* RateLimiter: a token bucket of three atomics, `baseline_ns', `debt' and *)
(* `bytes_per_sec', that the fragments of a download share.  A fragment    *)
(* pays after it has written; update_rate sets a new rate after a fragment *)
(* was joined.  No lock ties the atomics together, so each load and store  *)
(* is a step.  A tick of the clock is a second.                            *)
(***************************************************************************)
EXTENDS Integers, FiniteSetsExt

CONSTANTS
    Payers,      \* fragments that call acquire
    Amounts,     \* bytes of a call
    Rates,       \* bytes per second a caller of update_rate may ask for; 0 is no limit
    MaxWait,     \* MAX_ACQUIRE_WAIT_SECS
    MaxClock,    \* bound: the clock stops here
    MaxPaid      \* bound on the bytes asked for

VARIABLES
    clock,       \* seconds since the anchor
    baseline,    \* baseline_ns
    debt,        \* debt
    rate,        \* bytes_per_sec
    payer,       \* a call of acquire: where it stands and its locals
    update,      \* update_rate: where it stands and its locals
    paid,        \* bytes whose acquire has returned
    clamped      \* whether a wait was cut to MaxWait

limiterVars == <<clock, baseline, debt, rate, payer, update, paid, clamped>>

Call(at, bytes, speed, total, until) ==
    [pc |-> at, bytes |-> bytes, speed |-> speed, total |-> total, until |-> until]
Quiet == Call("idle", 0, 0, 0, 0)
Steady == [pc |-> "never", old |-> 0, new |-> 0, time |-> 0, used |-> 0]

TypeOK ==
    /\ clock \in 0..MaxClock /\ baseline \in -1..MaxClock
    /\ debt \in Nat /\ rate \in Rates /\ paid \in Nat /\ clamped \in BOOLEAN
    /\ payer \in [Payers -> [pc : {"idle", "add", "compare", "sleep"},
                            bytes : Nat, speed : Nat, total : Nat, until : Nat]]
    /\ update.pc \in {"never", "read", "baseline", "debt", "rate", "done"}

Init ==
    /\ clock = 0 /\ baseline = -1 /\ debt = 0 /\ rate \in Rates \ {0}
    /\ payer = [p \in Payers |-> Quiet] /\ update = Steady
    /\ paid = 0 /\ clamped = FALSE

\* A wait that is rounded down.
SecondsDown(bytes, speed) == bytes \div speed

Seconds(bytes, speed) == (bytes + speed - 1) \div speed

-----------------------------------------------------------------------------
\* acquire(): no limit, no wait.
Pay(p, b) ==
    /\ payer[p].pc = "idle" /\ paid + b <= MaxPaid
    /\ IF rate = 0
       THEN paid' = paid + b /\ UNCHANGED payer
       ELSE payer' = [payer EXCEPT ![p] = Call("add", b, rate, 0, 0)] /\ UNCHANGED paid
    /\ UNCHANGED <<clock, baseline, debt, rate, update, clamped>>

AddDebt(p) ==
    /\ payer[p].pc = "add"
    /\ debt' = debt + payer[p].bytes
    /\ payer' = [payer EXCEPT ![p] = Call("compare", @.bytes, @.speed, debt', 0)]
    /\ UNCHANGED <<clock, baseline, rate, update, paid, clamped>>

\* A caller that read the clock before an update did and the baseline after it
\* finds a negative time, which wraps around to a huge one: it does not wait.
Overtaken == update.pc = "debt"

Compare(p) ==
    \E wrapped \in {FALSE} \cup {Overtaken} :
        LET allowed == (clock - baseline) * payer[p].speed
            deficit == IF wrapped THEN 0 ELSE Max({0, payer[p].total - allowed})
            wait == Seconds(deficit, payer[p].speed)
        IN  /\ payer[p].pc = "compare"
            /\ payer' = [payer EXCEPT ![p] = Call("sleep", @.bytes, 0, 0, clock + Min({wait, MaxWait}))]
            /\ clamped' = (clamped \/ wait > MaxWait)
            /\ UNCHANGED <<clock, baseline, debt, rate, update, paid>>

Wake(p) ==
    /\ payer[p].pc = "sleep" /\ clock >= payer[p].until
    /\ paid' = paid + payer[p].bytes
    /\ payer' = [payer EXCEPT ![p] = Quiet]
    /\ UNCHANGED <<clock, baseline, debt, rate, update, clamped>>

-----------------------------------------------------------------------------
\* update_rate(): no limit any more is one store; else the new baseline, the
\* debt and the rate one after the other.
UpdateRate(r) ==
    /\ update.pc = "never"
    /\ IF r = 0
       THEN rate' = 0 /\ update' = [Steady EXCEPT !.pc = "done"]
       ELSE update' = [Steady EXCEPT !.pc = "read", !.old = rate, !.new = r] /\ UNCHANGED rate
    /\ UNCHANGED <<clock, baseline, debt, payer, paid, clamped>>

\* The time that has passed at the old rate becomes the new debt.
UsedAt(time) == IF update.old = 0 THEN 0 ELSE (time - baseline) * update.old

ReadBaseline ==
    /\ update.pc = "read"
    /\ update' = [update EXCEPT !.pc = "baseline", !.time = clock, !.used = UsedAt(clock)]
    /\ UNCHANGED <<clock, baseline, debt, rate, payer, paid, clamped>>

StoreBaseline ==
    /\ update.pc = "baseline"
    /\ baseline' = update.time
    /\ update' = [update EXCEPT !.pc = "debt"]
    /\ UNCHANGED <<clock, debt, rate, payer, paid, clamped>>

StoreDebt ==
    /\ update.pc = "debt"
    /\ debt' = update.used
    /\ update' = [update EXCEPT !.pc = "rate"]
    /\ UNCHANGED <<clock, baseline, rate, payer, paid, clamped>>

StoreRate ==
    /\ update.pc = "rate"
    /\ rate' = update.new
    /\ update' = [Steady EXCEPT !.pc = "done"]
    /\ UNCHANGED <<clock, baseline, debt, payer, paid, clamped>>

Tick ==
    /\ clock < MaxClock
    /\ clock' = clock + 1
    /\ UNCHANGED <<baseline, debt, rate, payer, update, paid, clamped>>

PayerStep(p) == AddDebt(p) \/ Compare(p) \/ Wake(p)

Next ==
    \/ \E p \in Payers : PayerStep(p) \/ \E b \in Amounts : Pay(p, b)
    \/ \E r \in Rates : UpdateRate(r)
    \/ ReadBaseline \/ StoreBaseline \/ StoreDebt \/ StoreRate
    \/ Tick

-----------------------------------------------------------------------------
\* Until the rate is changed, and as long as no wait was cut short, what was
\* let through in t seconds is at most t + 1 seconds' worth, however the
\* callers interleave: acquire() charges before it looks at the clock.
Paced == update.pc = "never" /\ ~clamped => paid <= (clock + 1) * rate
=============================================================================
