--------------------------- MODULE ExpDecaySample ---------------------------
(***************************************************************************)
(* medida::stats::ExpDecaySample (src/src/medida/stats/exp_decay_sample.cc)*)
(* the sample of every histogram with a bias for the recent: a map from    *)
(* priorities to values under a mutex, and an atomic count that size()     *)
(* reads without it.  A call takes its time stamp before it takes the      *)
(* mutex.                                                                  *)
(*                                                                         *)
(* A priority exp(alpha * dur) / rand is represented by its logarithm in   *)
(* units of alpha, dur + draw, where draw stands for -ln(rand) / alpha:    *)
(* multiplying by an exponential is then adding.  One tick of the clock is *)
(* a second, so the truncation of dur to seconds is not modelled.  What is *)
(* below Smallest has underflowed to 0.  A draw of exactly 0, an infinite  *)
(* priority, is left out.                                                  *)
(***************************************************************************)
EXTENDS Snapshot

CONSTANTS
    Updaters,    \* threads that call update()
    Clearers,    \* threads that call clear()
    NoThread,    \* owner of mutex_ when it is free
    Values,
    Draws,       \* the logarithms of one over a random number
    Reservoir,   \* reservoirSize_
    Threshold,   \* kRESCALE_THRESHOLD
    Smallest,    \* the logarithm of a priority of 0
    Steps,       \* how far the clock moves; set back, if negative
    MaxTime, MaxUpdates, MaxClears  \* bounds of a behaviour

ASSUME SampleAssumption ==
    /\ Updaters \cap Clearers = {}
    /\ NoThread \notin Updaters \cup Clearers
    /\ Values \subseteq Int /\ Draws \subseteq Nat /\ Steps \subseteq Int
    /\ Reservoir \in Nat \ {0}    \* with 0, update() would read an empty map
    /\ Threshold \in Nat \ {0}
    /\ Smallest \in Int /\ Smallest <= 0    \* exp() has underflowed far below a priority of 1
    /\ MaxTime \in Nat /\ MaxUpdates \in Nat /\ MaxClears \in Nat

VARIABLES
    now,      \* what Clock::now() returns
    start,    \* startTime_
    next,     \* nextScaleTime_
    count,    \* count_
    values,   \* values_, the logarithm of a priority |-> value
    mutex,    \* the owner of mutex_ between two steps
    pc,       \* where each thread is
    frame,    \* the arguments of each update()
    given,    \* history: <<time + draw, value>> of each update() since the last clear()
    worn,     \* history: since then, a priority was taken or underflowed
    updates, clears  \* calls so far

past == <<given, worn, updates, clears>>
vars == <<now, start, next, count, values, mutex, pc, frame, past>>

Threads == Updaters \cup Clearers
NoValues == [k \in {} |-> 0]
Lowest(S) == CHOOSE k \in S : \A l \in S : k <= l

Init ==
    /\ now = 0
    /\ start = 0 /\ next = Threshold
    /\ count = 0
    /\ values = NoValues
    /\ mutex = NoThread
    /\ pc = [t \in Threads |-> "idle"]
    /\ frame = [u \in Updaters |-> [value |-> 0, time |-> 0]]
    /\ given = {}
    /\ worn = FALSE
    /\ updates = 0 /\ clears = 0

Goto(t, label) == pc' = [pc EXCEPT ![t] = label]

(* The map without some keys, and with one more (whose value is replaced   *)
(* if it was there).                                                       *)
Without(m, S) == [k \in DOMAIN m \ S |-> m[k]]
With(m, key, v) == [k \in DOMAIN m \cup {key} |-> IF k = key THEN v ELSE m[k]]

Floor(k) == IF k < Smallest THEN Smallest ELSE k

----------------------------------------------------------------------------
(* Wrong variants of steps below, for the mutation runs only.              *)

DueLate(time) == time > next

PlacedOverTheFirst(u, priority) ==
    LET first == Lowest(DOMAIN values)
    IN  IF count <= Reservoir
        THEN With(values, priority, frame[u].value)
        ELSE With(Without(values, {first}), priority, frame[u].value)

ClearCountForgotten(c) ==
    /\ pc[c] = "count"
    /\ UNCHANGED count
    /\ Goto(c, "times")
    /\ UNCHANGED <<now, start, next, values, mutex, frame, past>>

----------------------------------------------------------------------------
(* update(value): the time is read before the mutex is taken.  A caller's  *)
(* own time stamp is the clock at some other moment.                       *)
Call(u, v) ==
    /\ pc[u] = "idle"
    /\ updates < MaxUpdates
    /\ updates' = updates + 1
    /\ frame' = [frame EXCEPT ![u] = [value |-> v, time |-> now]]
    /\ Goto(u, "enter")
    /\ UNCHANGED <<now, start, next, count, values, mutex, given, worn, clears>>

Due(time) == time >= next

(* rescale(): keys that become equal keep the value of the last, that is   *)
(* the highest of them.                                                    *)
Rescaled(by) ==
    [k \in {Floor(l - by) : l \in DOMAIN values} |->
        values[CHOOSE l \in DOMAIN values :
                  Floor(l - by) = k /\ \A m \in DOMAIN values : Floor(m - by) = k => m <= l]]

Rescale(when) ==
    /\ next' = when + Threshold
    /\ start' = when
    /\ values' = Rescaled(when - start)
    /\ count' = Cardinality(DOMAIN values')
    /\ worn' = (worn \/ \E k \in DOMAIN values : k - (when - start) < Smallest)

Enter(u) ==
    /\ pc[u] = "enter"
    /\ mutex = NoThread
    /\ mutex' = u
    /\ IF Due(frame[u].time)
       THEN Rescale(frame[u].time)
       ELSE UNCHANGED <<start, next, count, values, worn>>
    /\ Goto(u, "count")
    /\ UNCHANGED <<now, frame, given, updates, clears>>

AddCount(u) ==
    /\ pc[u] = "count"
    /\ count' = count + 1
    /\ Goto(u, "place")
    /\ UNCHANGED <<now, start, next, values, mutex, frame, past>>

(* The map with the value under its priority: beside the others while      *)
(* there is room, else in place of the first if that is lower and the      *)
(* priority is new.                                                        *)
Placed(u, priority) ==
    LET first == Lowest(DOMAIN values)
    IN  IF count <= Reservoir
        THEN With(values, priority, frame[u].value)
        ELSE IF first < priority /\ priority \notin DOMAIN values
             THEN With(Without(values, {first}), priority, frame[u].value)
             ELSE values

Place(u) ==
    /\ pc[u] = "place"
    /\ \E draw \in Draws :
          LET exact == frame[u].time - start + draw
          IN  /\ values' = Placed(u, Floor(exact))
              /\ given' = given \cup {<<frame[u].time + draw, frame[u].value>>}
              /\ worn' = (worn \/ exact < Smallest \/ exact \in {g[1] - start : g \in given})
    /\ mutex' = NoThread
    /\ frame' = [frame EXCEPT ![u] = [value |-> 0, time |-> 0]]
    /\ Goto(u, "idle")
    /\ UNCHANGED <<now, start, next, count, updates, clears>>

----------------------------------------------------------------------------
(* clear(): the mutex is held, but size() does not ask for it.             *)

ClearValues(c) ==
    /\ pc[c] = "idle"
    /\ clears < MaxClears
    /\ mutex = NoThread
    /\ clears' = clears + 1
    /\ mutex' = c
    /\ values' = NoValues
    /\ given' = {}
    /\ worn' = FALSE
    /\ Goto(c, "count")
    /\ UNCHANGED <<now, start, next, count, frame, updates>>

ClearCount(c) ==
    /\ pc[c] = "count"
    /\ count' = 0
    /\ Goto(c, "times")
    /\ UNCHANGED <<now, start, next, values, mutex, frame, past>>

ClearTimes(c) ==
    /\ pc[c] = "times"
    /\ start' = now
    /\ next' = now + Threshold
    /\ mutex' = NoThread
    /\ Goto(c, "idle")
    /\ UNCHANGED <<now, count, values, frame, past>>

----------------------------------------------------------------------------
(* Reading changes nothing: size() needs no mutex, snapshot() waits for it *)
(* and copies the values in the order of their priorities.                 *)
Reported == IF count < Reservoir THEN count ELSE Reservoir
Shown == values

MoveClock ==
    /\ \E d \in Steps : now + d \in 0 .. MaxTime /\ now' = now + d
    /\ UNCHANGED <<start, next, count, values, mutex, pc, frame, past>>

Next ==
    \/ MoveClock
    \/ \E u \in Updaters :
          (\E v \in Values : Call(u, v)) \/ Enter(u) \/ AddCount(u) \/ Place(u)
    \/ \E c \in Clearers : ClearValues(c) \/ ClearCount(c) \/ ClearTimes(c)

Spec == Init /\ [][Next]_vars

----------------------------------------------------------------------------
(* Properties.                                                             *)

TypeOK ==
    /\ {now, start} \subseteq 0 .. MaxTime /\ next = start + Threshold
    /\ count \in Nat
    /\ DOMAIN values \subseteq Int
    /\ mutex \in Threads \cup {NoThread}
    /\ pc \in [Threads -> {"idle", "enter", "count", "place", "times"}]
    /\ frame \in [Updaters -> [value : Values \cup {0}, time : 0 .. MaxTime]]
    /\ worn \in BOOLEAN
    /\ updates \in 0 .. MaxUpdates /\ clears \in 0 .. MaxClears

Free == mutex = NoThread

(* The sample never holds more than its size, nor more than size() says,   *)
(* even to a caller that asks in the middle of a call; it is empty only    *)
(* when nothing was recorded since the last clear(); and it holds values   *)
(* recorded since.  The next rescaling is a threshold after the start.     *)
SampleInv ==
    /\ TypeOK
    /\ Cardinality(DOMAIN values) <= Reported
    /\ Free => (values = NoValues <=> given = {}) /\ (count = 0 <=> given = {})
    /\ \A k \in DOMAIN values : \E g \in given : values[k] = g[2]

(* The sample is what it is for: of all values recorded since the last     *)
(* clear() it holds those of the highest priorities, in whatever order the *)
(* time stamps came to the mutex and however often everything was rescaled *)
(* meanwhile; provided no two priorities were equal and none underflowed.  *)
Best ==
    {g \in given : Cardinality({h \in given : h[1] > g[1]}) < Reservoir}

Kept == {<<k + start, values[k]>> : k \in DOMAIN values}

KeepsTheBest == Free /\ ~worn => Kept = Best

(* What rescaling is for: no priority grows beyond what one threshold and  *)
(* one draw can make it, so that the exponential never overflows.          *)
PrioritiesBounded ==
    \A k \in DOMAIN values : \E draw \in Draws : k < Threshold + draw

(* The quantiles of what snapshot() shows divide its values as they say,   *)
(* and rise with the fraction.                                             *)
QuantilesSplit ==
    Free => Rises(Shown) /\ \A f \in NamedFractions \cup {0, Whole} :
                                Shown # NoValues => Splits(Shown, f)

(* The inductive invariant behind them.                                    *)

(* Who is inside holds the mutex, and an updater inside has a time stamp   *)
(* that is not due any more.                                               *)
MutexInv ==
    /\ \A u \in Updaters : pc[u] \in {"idle", "enter", "count", "place"}
    /\ \A c \in Clearers : pc[c] \in {"idle", "count", "times"}
    /\ \A t \in Threads : pc[t] \in {"count", "place", "times"} <=> mutex = t
    /\ \A u \in Updaters : pc[u] \in {"count", "place"} => frame[u].time < next

(* What the map holds was given.                                           *)
DataInv ==
    /\ IsFiniteSet(DOMAIN values) /\ values \in [DOMAIN values -> Int]
    /\ IsFiniteSet(given) /\ given \subseteq Int \X Int
    /\ \A k \in DOMAIN values : \E g \in given : values[k] = g[2]
    /\ values = NoValues <=> given = {}

(* The count without the call that is between its two steps.               *)
Settled == IF \E u \in Updaters : pc[u] = "place" THEN count - 1 ELSE count

Uncleared == \A c \in Clearers : pc[c] # "count"

CountInv ==
    /\ Settled \in Nat
    /\ Cardinality(DOMAIN values) <= Reservoir
    /\ Cardinality(DOMAIN values) <= Settled
    /\ Uncleared => (Settled = 0 <=> given = {})
    /\ \A c \in Clearers : pc[c] # "idle" => given = {}

(* Of what was given, what the map does not hold is below what it holds,   *)
(* and there is none of it before the map is full; and with no two         *)
(* priorities alike the count counts the map until that is full.           *)
BestInv ==
    ~worn =>
        /\ Kept \subseteq given
        /\ \A g, h \in given : g[1] = h[1] => g = h
        /\ \A g \in given \ Kept, h \in Kept : g[1] < h[1]
        /\ given # Kept => Cardinality(DOMAIN values) = Reservoir
        /\ Uncleared /\ Settled < Reservoir => Cardinality(DOMAIN values) = Settled
        /\ Uncleared /\ Settled >= Reservoir => Cardinality(DOMAIN values) = Reservoir

(* The invariant itself.                                                   *)
IndInv ==
    /\ TypeOK /\ MutexInv /\ DataInv /\ CountInv /\ BestInv
    /\ PrioritiesBounded
=============================================================================
