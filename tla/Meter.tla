------------------------------- MODULE Meter -------------------------------
(***************************************************************************)
(* medida::Meter with its three moving averages (src/src/medida/meter.cc,  *)
(* src/src/medida/stats/ewma.cc).  mark() and the accessors of the rates   *)
(* run under mutex_ and first tick the averages as often as whole          *)
(* intervals have passed since last_tick_; the averages themselves are     *)
(* plain data, so a tick is several loads and stores.                      *)
(*                                                                         *)
(* Time is counted in units of which kTickInterval is Interval, from the   *)
(* start of the meter.  Clock is std::chrono::high_resolution_clock, which *)
(* may be the system clock: Steps says by how much it can move.            *)
(*                                                                         *)
(* A rate is an exact number of events per interval, times Scale; alpha of *)
(* the i-th average is 1 / Denominator[i].                                 *)
(***************************************************************************)
EXTENDS Integers

CONSTANTS
    Threads,      \* threads that mark events and read rates
    NoThread,     \* owner of mutex_ when it is free
    Amounts,      \* the numbers of events of a mark()
    Interval,     \* kTickInterval
    Steps,        \* by how much the clock may move
    MaxTime,      \* bound: the latest time
    MaxMarks,     \* bound: the number of calls of mark()
    Denominator,  \* 1 / alpha_ of each average
    Scale         \* the unit of the rates

Averages == 1 .. 3  \* m1_rate_, m5_rate_, m15_rate_

ASSUME MeterAssumption ==
    /\ NoThread \notin Threads
    /\ Amounts \subseteq Nat
    /\ Interval \in Nat \ {0}
    /\ Steps \subseteq Int
    /\ MaxTime \in Nat /\ MaxMarks \in Nat
    /\ Denominator \in [Averages -> Nat \ {0}]
    /\ Scale \in Nat \ {0}

VARIABLES
    now,          \* the clock
    count,        \* count_
    lastTick,     \* last_tick_
    mutex,        \* the owner of mutex_
    uncounted,    \* uncounted_ of each average
    initialized,  \* initialized_ of each average
    rate,         \* rate_ of each average
    pc,           \* where each thread is
    op,           \* the call each thread is in: "mark" or "rate"
    arg,          \* its n, or the average whose rate it wants
    seen,         \* new_tick
    due,          \* required_ticks less the ticks done
    at,           \* the average a thread is at
    taken,        \* count in EWMA::tick
    marks,        \* calls of mark() so far
    folded,       \* history: events each average has taken in
    ticks,        \* history: ticks of each average
    peak          \* history: most events one tick took in

averages == <<uncounted, initialized, rate, folded, ticks, peak>>
locals == <<op, arg, seen, due, at, taken>>
vars == <<now, count, lastTick, mutex, pc, marks, averages, locals>>

Init ==
    /\ now = 0 /\ lastTick = 0
    /\ count = 0 /\ marks = 0 /\ peak = 0
    /\ mutex = NoThread
    /\ uncounted = [i \in Averages |-> 0]
    /\ initialized = [i \in Averages |-> FALSE]
    /\ rate = [i \in Averages |-> 0]
    /\ folded = [i \in Averages |-> 0]
    /\ ticks = [i \in Averages |-> 0]
    /\ pc = [t \in Threads |-> "idle"]
    /\ op = [t \in Threads |-> "mark"]
    /\ arg = [t \in Threads |-> 0]
    /\ seen = [t \in Threads |-> 0]
    /\ due = [t \in Threads |-> 0]
    /\ at = [t \in Threads |-> 1]
    /\ taken = [t \in Threads |-> 0]

Goto(t, label) == pc' = [pc EXCEPT ![t] = label]
Body(t) == IF op[t] = "mark" THEN "count" ELSE "read"

----------------------------------------------------------------------------
(* Wrong variants of the two operators below, for the mutation runs only.  *)

RequiredUnsigned(age) ==
    IF age % (2 * MaxTime) > Interval THEN (age % (2 * MaxTime)) \div Interval ELSE 0
SmoothedWithoutDecay(i, c) ==
    IF initialized[i] THEN rate[i] + (Scale * c) \div Denominator[i] ELSE Scale * c

(* required_ticks: none before more than an interval has passed.           *)
Required(age) == IF age > Interval THEN age \div Interval ELSE 0

(* EWMA::Impl::tick for c events: the first tick sets the rate.            *)
Smoothed(i, c) ==
    IF initialized[i] THEN rate[i] + (Scale * c - rate[i]) \div Denominator[i] ELSE Scale * c

----------------------------------------------------------------------------
(* Wrong variants of steps below, for the mutation runs only.              *)

StoreTickForgotten(t) ==
    /\ pc[t] = "store"
    /\ at' = [at EXCEPT ![t] = 1]
    /\ Goto(t, "take")
    /\ UNCHANGED <<now, count, lastTick, mutex, marks, averages, op, arg, seen, due, taken>>

ReadClockForMarksOnly(t) ==
    /\ pc[t] = "clock"
    /\ seen' = [seen EXCEPT ![t] = now]
    /\ due' = [due EXCEPT ![t] = IF op[t] = "mark" THEN Required(now - lastTick) ELSE 0]
    /\ Goto(t, IF due'[t] > 0 THEN "store" ELSE Body(t))
    /\ UNCHANGED <<now, count, lastTick, mutex, marks, averages, op, arg, at, taken>>

----------------------------------------------------------------------------
(* mark(n), and one_minute_rate(), five_minute_rate(),                     *)
(* fifteen_minute_rate()                                                   *)

CallMark(t, n) ==
    /\ pc[t] = "idle"
    /\ marks < MaxMarks
    /\ marks' = marks + 1
    /\ op' = [op EXCEPT ![t] = "mark"]
    /\ arg' = [arg EXCEPT ![t] = n]
    /\ Goto(t, "lock")
    /\ UNCHANGED <<now, count, lastTick, mutex, averages, seen, due, at, taken>>

CallRate(t, i) ==
    /\ pc[t] = "idle"
    /\ op' = [op EXCEPT ![t] = "rate"]
    /\ arg' = [arg EXCEPT ![t] = i]
    /\ Goto(t, "lock")
    /\ UNCHANGED <<now, count, lastTick, mutex, marks, averages, seen, due, at, taken>>

Lock(t) ==
    /\ pc[t] = "lock"
    /\ mutex = NoThread
    /\ mutex' = t
    /\ Goto(t, "clock")
    /\ UNCHANGED <<now, count, lastTick, marks, averages, locals>>

(* tick_if_necessary(): loads of last_tick_ and of the clock               *)
ReadClock(t) ==
    /\ pc[t] = "clock"
    /\ seen' = [seen EXCEPT ![t] = now]
    /\ due' = [due EXCEPT ![t] = Required(now - lastTick)]
    /\ Goto(t, IF Required(now - lastTick) > 0 THEN "store" ELSE Body(t))
    /\ UNCHANGED <<now, count, lastTick, mutex, marks, averages, op, arg, at, taken>>

StoreTick(t) ==
    /\ pc[t] = "store"
    /\ lastTick' = seen[t]
    /\ at' = [at EXCEPT ![t] = 1]
    /\ Goto(t, "take")
    /\ UNCHANGED <<now, count, mutex, marks, averages, op, arg, seen, due, taken>>

(* EWMA::Impl::tick, of the average the thread is at                       *)
TakeUncounted(t) ==
    /\ pc[t] = "take"
    /\ taken' = [taken EXCEPT ![t] = uncounted[at[t]]]
    /\ Goto(t, "clear")
    /\ UNCHANGED <<now, count, lastTick, mutex, marks, averages, op, arg, seen, due, at>>

ClearUncounted(t) ==
    /\ pc[t] = "clear"
    /\ uncounted' = [uncounted EXCEPT ![at[t]] = 0]
    /\ Goto(t, "fold")
    /\ UNCHANGED <<now, count, lastTick, mutex, marks, initialized, rate, folded, ticks, peak, locals>>

Fold(t) ==
    /\ pc[t] = "fold"
    /\ rate' = [rate EXCEPT ![at[t]] = Smoothed(at[t], taken[t])]
    /\ initialized' = [initialized EXCEPT ![at[t]] = TRUE]
    /\ folded' = [folded EXCEPT ![at[t]] = @ + taken[t]]
    /\ ticks' = [ticks EXCEPT ![at[t]] = @ + 1]
    /\ peak' = IF taken[t] > peak THEN taken[t] ELSE peak
    /\ at' = [at EXCEPT ![t] = IF @ < 3 THEN @ + 1 ELSE 1]
    /\ due' = [due EXCEPT ![t] = IF at[t] < 3 THEN @ ELSE @ - 1]
    /\ Goto(t, IF at[t] < 3 \/ due[t] > 1 THEN "take" ELSE Body(t))
    /\ UNCHANGED <<now, count, lastTick, mutex, marks, uncounted, op, arg, seen, taken>>

AddCount(t) ==
    /\ pc[t] = "count"
    /\ count' = count + arg[t]
    /\ at' = [at EXCEPT ![t] = 1]
    /\ Goto(t, "update")
    /\ UNCHANGED <<now, lastTick, mutex, marks, averages, op, arg, seen, due, taken>>

(* EWMA::Impl::update, of the average the thread is at                     *)
Update(t) ==
    /\ pc[t] = "update"
    /\ uncounted' = [uncounted EXCEPT ![at[t]] = @ + arg[t]]
    /\ at' = [at EXCEPT ![t] = IF @ < 3 THEN @ + 1 ELSE 1]
    /\ Goto(t, IF at[t] < 3 THEN "update" ELSE "unlock")
    /\ UNCHANGED <<now, count, lastTick, mutex, marks, initialized, rate, folded, ticks, peak,
                   op, arg, seen, due, taken>>

ReadRate(t) ==
    /\ pc[t] = "read"
    /\ Goto(t, "unlock")
    /\ UNCHANGED <<now, count, lastTick, mutex, marks, averages, locals>>

(* The lock_guard goes, and the locals of the call with it.                *)
Unlock(t) ==
    /\ pc[t] = "unlock"
    /\ mutex' = NoThread
    /\ op' = [op EXCEPT ![t] = "mark"]
    /\ arg' = [arg EXCEPT ![t] = 0]
    /\ seen' = [seen EXCEPT ![t] = 0]
    /\ taken' = [taken EXCEPT ![t] = 0]
    /\ Goto(t, "idle")
    /\ UNCHANGED <<now, count, lastTick, marks, averages, due, at>>

----------------------------------------------------------------------------
MoveClock(d) ==
    /\ now + d \in 0 .. MaxTime
    /\ now' = now + d
    /\ UNCHANGED <<count, lastTick, mutex, pc, marks, averages, locals>>

ThreadStep(t) ==
    \/ Lock(t) \/ ReadClock(t) \/ StoreTick(t)
    \/ TakeUncounted(t) \/ ClearUncounted(t) \/ Fold(t)
    \/ AddCount(t) \/ Update(t) \/ ReadRate(t) \/ Unlock(t)

Next ==
    \/ \E t \in Threads :
          \/ \E n \in Amounts : CallMark(t, n)
          \/ \E i \in Averages : CallRate(t, i)
          \/ ThreadStep(t)
    \/ \E d \in Steps : MoveClock(d)

Spec == Init /\ [][Next]_vars

----------------------------------------------------------------------------
(* Properties.                                                             *)

Ticking == {"take", "clear", "fold"}
Inside == {"clock", "store", "count", "update", "read", "unlock"} \cup Ticking

(* Every variable keeps its type.                                          *)
TypeOK ==
    /\ now \in Int /\ lastTick \in Int
    /\ count \in Nat /\ marks \in Nat /\ peak \in Nat
    /\ mutex \in Threads \cup {NoThread}
    /\ uncounted \in [Averages -> Nat]
    /\ initialized \in [Averages -> BOOLEAN]
    /\ rate \in [Averages -> Int]
    /\ folded \in [Averages -> Nat]
    /\ ticks \in [Averages -> Nat]
    /\ pc \in [Threads -> Inside \cup {"idle", "lock"}]
    /\ op \in [Threads -> {"mark", "rate"}]
    /\ arg \in [Threads -> Nat]
    /\ seen \in [Threads -> Int]
    /\ due \in [Threads -> Nat]
    /\ at \in [Threads -> Averages]
    /\ taken \in [Threads -> Nat]

(* The thread inside a call is the owner of the mutex, and what it has     *)
(* read is still so.                                                       *)
MutexInv ==
    \A t \in Threads :
        /\ pc[t] \in Inside <=> mutex = t
        /\ pc[t] = "store" => /\ seen[t] - lastTick > Interval
                              /\ due[t] = (seen[t] - lastTick) \div Interval
        /\ pc[t] \in Ticking => due[t] > 0 /\ seen[t] = lastTick
        /\ pc[t] = "clear" => taken[t] = uncounted[at[t]]
        /\ pc[t] = "fold" => uncounted[at[t]] = 0
        /\ pc[t] \in Ticking => \A i \in Averages : i < at[t] => uncounted[i] = 0

(* What a tick has taken out of an average and not folded, what count()    *)
(* has and the average has not yet, and the ticks it is still owed.        *)
InHand(i) == IF mutex # NoThread /\ pc[mutex] = "fold" /\ at[mutex] = i THEN taken[mutex] ELSE 0
Owed(i) == IF mutex # NoThread /\ pc[mutex] = "update" /\ at[mutex] <= i THEN arg[mutex] ELSE 0
DueOf(i) ==
    IF mutex # NoThread /\ pc[mutex] \in Ticking
    THEN IF i < at[mutex] THEN due[mutex] - 1 ELSE due[mutex]
    ELSE 0

(* Each average has taken in, or holds for the next tick, exactly the      *)
(* events count() reports: no interleaving of marks and ticks loses or     *)
(* doubles one.                                                            *)
NothingLost ==
    \A i \in Averages : folded[i] + uncounted[i] + InHand(i) + Owed(i) = count

(* The averages do not decay faster than time passes, even if the clock is *)
(* set back: the ticks of each take no more intervals than lie between the *)
(* start of the meter and last_tick_.                                      *)
TicksNotEarly == \A i \in Averages : Interval * (ticks[i] + DueOf(i)) <= lastTick

(* The three averages tick equally often and fold the same events.         *)
InStep ==
    \A i, j \in Averages :
        /\ ticks[i] + DueOf(i) = ticks[j] + DueOf(j)
        /\ (\A t \in Threads : pc[t] \notin Ticking) => folded[i] = folded[j]

(* The inductive invariant of the proofs.                                  *)
MeterInv == TypeOK /\ MutexInv /\ NothingLost /\ TicksNotEarly /\ InStep

(* While no thread is inside a call the three averages have ticked equally *)
(* often and taken in the same events, which with those they hold for the  *)
(* next tick are the events count() reports.                               *)
AveragesAgree ==
    (\A t \in Threads : pc[t] \notin Inside) =>
        \A i, j \in Averages :
            /\ ticks[i] = ticks[j]
            /\ folded[i] = folded[j]
            /\ folded[i] + uncounted[i] = count

(* A rate lies between nothing and the most events ever counted in an      *)
(* interval.                                                               *)
RatesBounded == \A i \in Averages : 0 <= rate[i] /\ rate[i] <= Scale * peak

(* The rate a caller gets has no whole interval to make up at the time the *)
(* call read the clock, also when another thread ticked just before.       *)
ReadIsFresh ==
    \A t \in Threads : pc[t] = "read" => due[t] = 0 /\ seen[t] - lastTick <= Interval

(* last_tick_ never goes back, even if the clock does.                     *)
LastTickOnlyGrows == [][lastTick' >= lastTick]_vars
=============================================================================
