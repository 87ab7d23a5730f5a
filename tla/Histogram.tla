----------------------------- MODULE Histogram -----------------------------
(***************************************************************************)
(* medida::Histogram (src/src/medida/histogram.cc): running minimum,       *)
(* maximum, sum, count and variance of the values passed to update(), kept *)
(* in atomics and two mutex-protected doubles, cleared by clear() with     *)
(* plain stores and read by getters that take no consistent view.          *)
(*                                                                         *)
(* One action is one access to shared memory, so that every interleaving   *)
(* of the calls of any number of threads is a behaviour.  The sample_      *)
(* member is an object with a lock of its own: here it only counts what it *)
(* was handed.  Doubles of the variance are fixed-point integers: varM is  *)
(* in units of 1/Scale, varS in units of 1/Scale^2, exact for a Scale that *)
(* the divisors met in the run divide.                                     *)
(***************************************************************************)
EXTENDS Integers, FiniteSetsExt

CONSTANTS
    Updaters,    \* threads that call update()
    Clearers,    \* threads that call clear()
    Readers,     \* threads that call max(), min(), mean(), variance(), std_dev()
    NoThread,    \* owner of variance_mutex_ when it is free
    Values,      \* the values update() is called with
    MaxUpdates,  \* bound on the calls of update() (far below 2^64, count_'s range)
    MaxClears,   \* bound on the calls of clear()
    Half,        \* sum_ is a signed word of 2 * Half values (2^63 in the code)
    Scale        \* fixed-point unit of the variance

ASSUME ThreadsAssumption ==
    /\ IsFiniteSet(Updaters)
    /\ Updaters \cap Clearers = {}
    /\ Updaters \cap Readers = {}
    /\ Clearers \cap Readers = {}
    /\ NoThread \notin Updaters

ASSUME NumbersAssumption ==
    /\ Half \in Nat \ {0}
    /\ Scale \in Nat \ {0}
    /\ MaxUpdates \in Nat
    /\ MaxClears \in Nat
    /\ Values \subseteq Int
    /\ \A v \in Values : -Half <= v /\ v < Half

VARIABLES
    min, max, sum, count,  \* min_, max_, sum_, count_
    varM, varS,            \* variance_m_, variance_s_
    mutex,                 \* the owner of variance_mutex_
    sampled,               \* how many values sample_ took since its clear()
    pc,                    \* where each thread is; "idle" outside the class
    frame,                 \* the locals of update(), per updater
    reading,               \* the getter a reader runs or ran last
    past                   \* history, read by the properties only

vars == <<min, max, sum, count, varM, varS, mutex, sampled, pc, frame, reading, past>>

Threads == Updaters \cup Clearers \cup Readers

(* The conversion of a mathematical sum to the word std::atomic<int64_t>   *)
(* keeps: atomic arithmetic wraps around.                                  *)
Wrap(x) == ((x + Half) % (2 * Half)) - Half

EmptyFrame ==
    [value |-> 0, curMax |-> 0, curMin |-> 0, newCount |-> 0, oldM |-> 0, oldS |-> 0]

Getters == {"max", "min", "mean", "variance", "std_dev"}

(* What happened since the last clear() began: the values of the calls     *)
(* begun and of those that were counted, how many began, their sum and     *)
(* sum of squares; whether a call began while another one was under way on *)
(* an empty histogram (firstRaced) or during a clear() (clearRaced), and   *)
(* whether the variance took the values in the order of their counts.      *)
FreshPast ==
    [begun |-> {}, counted |-> {}, calls |-> 0, total |-> 0, squares |-> 0,
     firstRaced |-> FALSE, clearRaced |-> FALSE, inOrder |-> TRUE,
     started |-> 0, clears |-> 0]

Init ==
    /\ min = 0 /\ max = 0 /\ sum = 0 /\ count = 0
    /\ varM = 0 /\ varS = 0
    /\ mutex = NoThread
    /\ sampled = 0
    /\ pc = [t \in Threads |-> "idle"]
    /\ frame = [u \in Updaters |-> EmptyFrame]
    /\ reading = [r \in Readers |-> [op |-> "max", counted |-> 0, loaded |-> 0]]
    /\ past = FreshPast

Goto(t, label) == pc' = [pc EXCEPT ![t] = label]

UpdatersAt(labels) == {u \in Updaters : pc[u] \in labels}
Updating == \E u \in Updaters : pc[u] # "idle"
Clearing == \E c \in Clearers : pc[c] # "idle"

----------------------------------------------------------------------------
(* Wrong variants of steps below, for the mutation runs only: what a       *)
(* plausible slip in the code would do.                                    *)

MaxMustRiseUnseeded(u) == frame[u].curMax < frame[u].value

SwapMaxBlind(u) ==
    /\ pc[u] = "casMax"
    /\ max' = frame[u].value
    /\ Goto(u, "testMin")
    /\ UNCHANGED <<min, sum, count, varM, varS, mutex, sampled, frame, reading, past>>

AddSumUnsigned(u) ==
    /\ pc[u] = "addSum"
    /\ sum' = (sum + frame[u].value) % (2 * Half)
    /\ Goto(u, "addCount")
    /\ UNCHANGED <<min, max, count, varM, varS, mutex, sampled, frame, reading, past>>

AddSumAfterCount(u) ==
    \/ /\ pc[u] = "addSum"
       /\ count' = count + 1
       /\ frame' = [frame EXCEPT ![u].newCount = count + 1]
       /\ past' = [past EXCEPT !.counted = @ \cup {frame[u].value}]
       /\ Goto(u, "addSumLate")
       /\ UNCHANGED <<min, max, sum, varM, varS, mutex, sampled, reading>>
    \/ /\ pc[u] = "addSumLate"
       /\ sum' = Wrap(sum + frame[u].value)
       /\ Goto(u, "lock")
       /\ UNCHANGED <<min, max, count, varM, varS, mutex, sampled, frame, reading, past>>

EnterVarianceUnlocked(u) ==
    /\ pc[u] = "lock"
    /\ mutex' = u
    /\ frame' = [frame EXCEPT ![u].oldM = varM]
    /\ Goto(u, "loadS")
    /\ UNCHANGED <<min, max, sum, count, varM, varS, sampled, reading, past>>

StoreSFromOldMean(u) ==
    /\ pc[u] = "storeS"
    /\ varS' = frame[u].oldS + (Scale * frame[u].value - frame[u].oldM)
                                 * (Scale * frame[u].value - frame[u].oldM)
    /\ mutex' = NoThread
    /\ frame' = [frame EXCEPT ![u] = EmptyFrame]
    /\ Goto(u, "idle")
    /\ UNCHANGED <<min, max, sum, count, varM, sampled, reading, past>>

ClearSForgotten(c) ==
    /\ pc[c] = "clearS"
    /\ Goto(c, "clearSample")
    /\ UNCHANGED <<min, max, sum, count, varM, varS, mutex, sampled, frame, reading, past>>

ReadSampleSize(r, op) ==
    /\ IF sampled > (IF op = "variance" THEN 1 ELSE 0)
       THEN /\ reading' = [reading EXCEPT ![r] = [op |-> op, counted |-> sampled, loaded |-> 0]]
            /\ Goto(r, op)
       ELSE /\ reading' = [reading EXCEPT ![r] = [op |-> op, counted |-> 0, loaded |-> 0]]
            /\ Goto(r, "idle")
    /\ UNCHANGED <<min, max, sum, count, varM, varS, mutex, sampled, frame, past>>

ClearCountForgotten(c) ==
    /\ pc[c] = "clearCount"
    /\ Goto(c, "clearM")
    /\ UNCHANGED <<min, max, sum, count, varM, varS, mutex, sampled, frame, reading, past>>

ReturnStillLocked(u) ==
    /\ frame' = [frame EXCEPT ![u] = EmptyFrame]
    /\ Goto(u, "idle")
    /\ UNCHANGED mutex

----------------------------------------------------------------------------
(* update(value)                                                           *)

SampleUpdate(u, v) ==
    /\ pc[u] = "idle"
    /\ past.started < MaxUpdates
    /\ sampled' = sampled + 1
    /\ frame' = [frame EXCEPT ![u].value = v]
    /\ past' = [past EXCEPT
                  !.started = @ + 1, !.calls = @ + 1,
                  !.begun = @ \cup {v}, !.total = @ + v, !.squares = @ + v * v,
                  !.firstRaced = @ \/ (count = 0 /\ Updating),
                  !.clearRaced = @ \/ Clearing]
    /\ Goto(u, "loadMax")
    /\ UNCHANGED <<min, max, sum, count, varM, varS, mutex, reading>>

LoadMax(u) ==
    /\ pc[u] = "loadMax"
    /\ frame' = [frame EXCEPT ![u].curMax = max]
    /\ Goto(u, "loadMin")
    /\ UNCHANGED <<min, max, sum, count, varM, varS, mutex, sampled, reading, past>>

LoadMin(u) ==
    /\ pc[u] = "loadMin"
    /\ frame' = [frame EXCEPT ![u].curMin = min]
    /\ Goto(u, "testMax")
    /\ UNCHANGED <<min, max, sum, count, varM, varS, mutex, sampled, reading, past>>

(* The condition of the first loop: count_ is read anew on every turn, the *)
(* maximum is the one loaded before.                                       *)
MaxMustRise(u) == count = 0 \/ frame[u].curMax < frame[u].value

TestMax(u) ==
    /\ pc[u] = "testMax"
    /\ Goto(u, IF MaxMustRise(u) THEN "casMax" ELSE "testMin")
    /\ UNCHANGED <<min, max, sum, count, varM, varS, mutex, sampled, frame, reading, past>>

SwapMax(u) ==
    /\ pc[u] = "casMax"
    /\ max = frame[u].curMax
    /\ max' = frame[u].value
    /\ Goto(u, "testMin")
    /\ UNCHANGED <<min, sum, count, varM, varS, mutex, sampled, frame, reading, past>>

(* compare_exchange_weak fails when max_ moved, and may fail when it did   *)
(* not; it reloads cur_max either way.                                     *)
FailMax(u) ==
    /\ pc[u] = "casMax"
    /\ frame' = [frame EXCEPT ![u].curMax = max]
    /\ Goto(u, "testMax")
    /\ UNCHANGED <<min, max, sum, count, varM, varS, mutex, sampled, reading, past>>

MinMustFall(u) == count = 0 \/ frame[u].curMin > frame[u].value

TestMin(u) ==
    /\ pc[u] = "testMin"
    /\ Goto(u, IF MinMustFall(u) THEN "casMin" ELSE "addSum")
    /\ UNCHANGED <<min, max, sum, count, varM, varS, mutex, sampled, frame, reading, past>>

SwapMin(u) ==
    /\ pc[u] = "casMin"
    /\ min = frame[u].curMin
    /\ min' = frame[u].value
    /\ Goto(u, "addSum")
    /\ UNCHANGED <<max, sum, count, varM, varS, mutex, sampled, frame, reading, past>>

FailMin(u) ==
    /\ pc[u] = "casMin"
    /\ frame' = [frame EXCEPT ![u].curMin = min]
    /\ Goto(u, "testMin")
    /\ UNCHANGED <<min, max, sum, count, varM, varS, mutex, sampled, reading, past>>

AddSum(u) ==
    /\ pc[u] = "addSum"
    /\ sum' = Wrap(sum + frame[u].value)
    /\ Goto(u, "addCount")
    /\ UNCHANGED <<min, max, count, varM, varS, mutex, sampled, frame, reading, past>>

AddCount(u) ==
    /\ pc[u] = "addCount"
    /\ count' = count + 1
    /\ frame' = [frame EXCEPT ![u].newCount = count + 1]
    /\ past' = [past EXCEPT !.counted = @ \cup {frame[u].value}]
    /\ Goto(u, "lock")
    /\ UNCHANGED <<min, max, sum, varM, varS, mutex, sampled, reading>>

LockVariance(u) ==
    /\ pc[u] = "lock"
    /\ mutex = NoThread
    /\ mutex' = u
    /\ frame' = [frame EXCEPT ![u].oldM = varM]
    /\ Goto(u, "loadS")
    /\ UNCHANGED <<min, max, sum, count, varM, varS, sampled, reading, past>>

LoadS(u) ==
    /\ pc[u] = "loadS"
    /\ frame' = [frame EXCEPT ![u].oldS = varS]
    /\ Goto(u, "storeM")
    /\ UNCHANGED <<min, max, sum, count, varM, varS, mutex, sampled, reading, past>>

(* u is the next in the order of counts when the values counted and not    *)
(* yet taken by the variance all have a larger count.                      *)
NextInOrder(u) ==
    frame[u].newCount + Cardinality(UpdatersAt({"lock", "loadS", "storeM", "storeS"}))
        = count + 1

Return(u) ==
    /\ mutex' = NoThread
    /\ frame' = [frame EXCEPT ![u] = EmptyFrame]
    /\ Goto(u, "idle")

StoreFirstM(u) ==
    /\ pc[u] = "storeM"
    /\ frame[u].newCount <= 1
    /\ varM' = Scale * frame[u].value
    /\ past' = [past EXCEPT !.inOrder = @ /\ NextInOrder(u)]
    /\ Return(u)
    /\ UNCHANGED <<min, max, sum, count, varS, sampled, reading>>

StoreM(u) ==
    /\ pc[u] = "storeM"
    /\ frame[u].newCount > 1
    /\ varM' = frame[u].oldM
                 + (Scale * frame[u].value - frame[u].oldM) \div frame[u].newCount
    /\ past' = [past EXCEPT !.inOrder = @ /\ NextInOrder(u)]
    /\ Goto(u, "storeS")
    /\ UNCHANGED <<min, max, sum, count, varS, mutex, sampled, frame, reading>>

(* variance_m_ is read again: only clear() can have changed it meanwhile.  *)
StoreS(u) ==
    /\ pc[u] = "storeS"
    /\ varS' = frame[u].oldS + (Scale * frame[u].value - frame[u].oldM)
                                 * (Scale * frame[u].value - varM)
    /\ Return(u)
    /\ UNCHANGED <<min, max, sum, count, varM, sampled, reading, past>>

UpdateStep(u) ==
    \/ LoadMax(u) \/ LoadMin(u)
    \/ TestMax(u) \/ SwapMax(u) \/ FailMax(u)
    \/ TestMin(u) \/ SwapMin(u) \/ FailMin(u)
    \/ AddSum(u) \/ AddCount(u)
    \/ LockVariance(u) \/ LoadS(u) \/ StoreFirstM(u) \/ StoreM(u) \/ StoreS(u)

----------------------------------------------------------------------------
(* clear(): one store after the other, without variance_mutex_.            *)

ClearMin(c) ==
    /\ pc[c] = "idle"
    /\ past.clears < MaxClears
    /\ min' = 0
    /\ past' = [FreshPast EXCEPT
                  !.clearRaced = Updating,
                  !.started = past.started, !.clears = past.clears + 1]
    /\ Goto(c, "clearMax")
    /\ UNCHANGED <<max, sum, count, varM, varS, mutex, sampled, frame, reading>>

ClearMax(c) ==
    /\ pc[c] = "clearMax"
    /\ max' = 0
    /\ Goto(c, "clearSum")
    /\ UNCHANGED <<min, sum, count, varM, varS, mutex, sampled, frame, reading, past>>

ClearSum(c) ==
    /\ pc[c] = "clearSum"
    /\ sum' = 0
    /\ Goto(c, "clearCount")
    /\ UNCHANGED <<min, max, count, varM, varS, mutex, sampled, frame, reading, past>>

ClearCount(c) ==
    /\ pc[c] = "clearCount"
    /\ count' = 0
    /\ Goto(c, "clearM")
    /\ UNCHANGED <<min, max, sum, varM, varS, mutex, sampled, frame, reading, past>>

ClearM(c) ==
    /\ pc[c] = "clearM"
    /\ varM' = 0
    /\ Goto(c, "clearS")
    /\ UNCHANGED <<min, max, sum, count, varS, mutex, sampled, frame, reading, past>>

ClearS(c) ==
    /\ pc[c] = "clearS"
    /\ varS' = 0
    /\ Goto(c, "clearSample")
    /\ UNCHANGED <<min, max, sum, count, varM, mutex, sampled, frame, reading, past>>

ClearSample(c) ==
    /\ pc[c] = "clearSample"
    /\ sampled' = 0
    /\ Goto(c, "idle")
    /\ UNCHANGED <<min, max, sum, count, varM, varS, mutex, frame, reading, past>>

ClearStep(c) ==
    \/ ClearMax(c) \/ ClearSum(c) \/ ClearCount(c)
    \/ ClearM(c) \/ ClearS(c) \/ ClearSample(c)

----------------------------------------------------------------------------
(* The getters.  Each reads count_ first and returns 0.0 when it is too    *)
(* small; reading[r].counted is 0 then.  Otherwise it loads one more field *)
(* and returns loaded (max, min), loaded / counted (mean) or               *)
(* loaded / (counted - 1) (variance, in units of 1/Scale^2).               *)

Needed(op) == IF op = "variance" THEN 1 ELSE 0

ReadCount(r, op) ==
    /\ IF count > Needed(op)
       THEN /\ reading' = [reading EXCEPT ![r] = [op |-> op, counted |-> count, loaded |-> 0]]
            /\ Goto(r, op)
       ELSE /\ reading' = [reading EXCEPT ![r] = [op |-> op, counted |-> 0, loaded |-> 0]]
            /\ Goto(r, "idle")
    /\ UNCHANGED <<min, max, sum, count, varM, varS, mutex, sampled, frame, past>>

CallGetter(r, op) == pc[r] = "idle" /\ ReadCount(r, op)

(* std_dev() is the square root of variance(), which reads count_ again.   *)
CallVariance(r) == pc[r] = "std_dev" /\ ReadCount(r, "variance")

Loaded(op) ==
    CASE op = "max"  -> max
      [] op = "min"  -> min
      [] op = "mean" -> sum
      [] op = "variance" -> varS

(* Only variance() takes the mutex, for its one load.                      *)
LoadField(r) ==
    /\ pc[r] \in Getters \ {"std_dev"}
    /\ pc[r] = "variance" => mutex = NoThread
    /\ reading' = [reading EXCEPT ![r].loaded = Loaded(pc[r])]
    /\ Goto(r, "idle")
    /\ UNCHANGED <<min, max, sum, count, varM, varS, mutex, sampled, frame, past>>

GetterStep(r) == CallVariance(r) \/ LoadField(r)

----------------------------------------------------------------------------
(* The threads have made the calls the bounds allow.                       *)
Terminated ==
    /\ \A t \in Threads : pc[t] = "idle"
    /\ past.started = MaxUpdates
    /\ past.clears = MaxClears \/ Clearers = {}
    /\ UNCHANGED vars

Next ==
    \/ \E u \in Updaters : (\E v \in Values : SampleUpdate(u, v)) \/ UpdateStep(u)
    \/ \E c \in Clearers : ClearMin(c) \/ ClearStep(c)
    \/ \E r \in Readers : (\E op \in Getters : CallGetter(r, op)) \/ GetterStep(r)
    \/ Terminated

Spec == Init /\ [][Next]_vars

(* A call that began is run to its end; compare_exchange_weak does not     *)
(* fail for ever on a word nobody else writes.  Threads need not call.     *)
Fairness ==
    /\ \A u \in Updaters : /\ WF_vars(UpdateStep(u))
                           /\ SF_vars(SwapMax(u))
                           /\ SF_vars(SwapMin(u))
    /\ \A c \in Clearers : WF_vars(ClearStep(c))
    /\ \A r \in Readers : WF_vars(GetterStep(r))

FairSpec == Spec /\ Fairness

----------------------------------------------------------------------------
(* Properties.                                                             *)

FrameType ==
    [value : Int, curMax : Int, curMin : Int, newCount : Nat, oldM : Int, oldS : Int]

PastType ==
    [begun : SUBSET Values, counted : SUBSET Int, calls : Nat,
     total : Int, squares : Int,
     firstRaced : BOOLEAN, clearRaced : BOOLEAN, inOrder : BOOLEAN,
     started : 0 .. MaxUpdates, clears : 0 .. MaxClears]

UpdateLabels ==
    {"idle", "loadMax", "loadMin", "testMax", "casMax", "testMin", "casMin",
     "addSum", "addCount", "lock", "loadS", "storeM", "storeS"}

ClearLabels ==
    {"idle", "clearMax", "clearSum", "clearCount", "clearM", "clearS", "clearSample"}

(* Every variable keeps its type; sum_ stays within its word.              *)
TypeOK ==
    /\ min \in Int /\ max \in Int /\ sum \in -Half .. Half - 1
    /\ count \in Nat /\ sampled \in Nat
    /\ varM \in Int /\ varS \in Int
    /\ mutex \in Updaters \cup {NoThread}
    /\ pc \in [Threads -> UpdateLabels \cup ClearLabels \cup Getters]
    /\ \A u \in Updaters : pc[u] \in UpdateLabels
    /\ \A c \in Clearers : pc[c] \in ClearLabels
    /\ \A r \in Readers : pc[r] \in Getters \cup {"idle"}
    /\ frame \in [Updaters -> FrameType]
    /\ reading \in [Readers -> [op : Getters, counted : Nat, loaded : Int]]
    /\ past \in PastType

(* No clear() is under way and the last one met no call of update().       *)
Undisturbed == ~Clearing /\ ~past.clearRaced

(* The calls that have not reached ++count_ yet.                           *)
BeforeCount ==
    {"loadMax", "loadMin", "testMax", "casMax", "testMin", "casMin", "addSum", "addCount"}

Uncounted == UpdatersAt(BeforeCount)

(* min() and max() bound every value counted so far and are values passed  *)
(* to update(), at every moment and however the calls interleave, unless   *)
(* two of them met on the empty histogram (histogram.cc:233 tests count_   *)
(* and max_ in two accesses) or one of them met clear().                   *)
ExtremesExact ==
    Undisturbed /\ ~past.firstRaced =>
        /\ \A v \in past.counted : min <= v /\ v <= max
        /\ count > 0 => min \in past.begun /\ max \in past.begun

(* Even when first calls race, what min() and max() return is a value that *)
(* was passed to update(), never the 0 the constructor stored.             *)
ExtremesRecorded ==
    Undisturbed /\ count > 0 => min \in past.begun /\ max \in past.begun

(* Once something is counted, no step of any thread lowers the maximum or  *)
(* raises the minimum: compare_exchange_weak fails when another thread     *)
(* moved the word, and the value is compared anew.                         *)
ExtremesMonotone ==
    [][count > 0 /\ Undisturbed /\ Undisturbed' /\ ~past.firstRaced
         => max' >= max /\ min' <= min]_vars

(* No call is lost or counted twice: at every moment the count is that of  *)
(* the calls begun less those that did not reach ++count_ yet, the sum is  *)
(* theirs in 64-bit arithmetic, and the sample got every value.            *)
CountExact == count = past.calls - Cardinality(Uncounted)

Carried(fr, S) == MapThenSumSet(LAMBDA u : fr[u].value, S)
Unsummed == Uncounted \ UpdatersAt({"addCount"})
SumExact == sum = Wrap(past.total - Carried(frame, Unsummed))

SampleExact == sampled = past.calls

Accounting == Undisturbed => CountExact /\ SumExact /\ SampleExact

(* With no call under way, variance_s_ / (count - 1) is the variance of    *)
(* the values (the two-pass definition, times count), provided the calls   *)
(* took variance_mutex_ in the order of their counts.                      *)
VarianceExact ==
    Undisturbed /\ past.inOrder /\ ~Updating =>
        count * varS = Scale * Scale * (count * past.squares - past.total * past.total)

(* The variance is never negative, so std_dev() is never NaN, whatever the *)
(* order in which the calls take variance_mutex_.                          *)
VarianceNonNegative == Undisturbed => varS >= 0

(* A clear() that met no call of update() leaves the object as new, until  *)
(* the next call begins.                                                   *)
ClearedIsNew ==
    Undisturbed /\ past.calls = 0 =>
        /\ <<min, max, sum, count, varM, varS, sampled>> = <<0, 0, 0, 0, 0, 0, 0>>
        /\ mutex = NoThread

(* No value is negative and no sum of them leaves the word.                *)
NoOverflow == \A v \in Values : v >= 0 /\ v * MaxUpdates < Half

(* mean() reads count_ and then sum_, update() writes them in the opposite *)
(* order: with no clear(), no negative values and no overflow the mean a   *)
(* thread gets never falls below the least value ever passed to update().  *)
MeanCoversCounted ==
    past.clears = 0 /\ NoOverflow =>
        \A r \in Readers :
            pc[r] = "idle" /\ reading[r].op = "mean" /\ reading[r].counted > 0 =>
                reading[r].loaded >= reading[r].counted * Min(past.begun)

(* In a history without clear(), a thread that calls max() or min() gets   *)
(* 0.0 for an empty histogram or a value that was passed to update().      *)
ExtremeReadsRecorded ==
    past.clears = 0 =>
        \A r \in Readers :
            pc[r] = "idle" /\ reading[r].op \in {"max", "min"} /\ reading[r].counted > 0 =>
                reading[r].loaded \in past.begun

(* Every call returns: no thread is left in a loop or waiting for          *)
(* variance_mutex_ for ever.                                               *)
EveryCallReturns == \A t \in Threads : pc[t] # "idle" ~> pc[t] = "idle"

(* The inductive invariant behind the extremes.                            *)

(* A clear() that met no update() finds no caller, and when the last one   *)
(* under way is past its store to count_, the histogram stays empty.       *)
ClearInv ==
    ~past.clearRaced /\ Clearing =>
        /\ ~Updating /\ past.begun = {} /\ past.counted = {} /\ past.calls = 0
        /\ count = 0 \/ \E c \in Clearers : pc[c] \in {"clearMax", "clearSum", "clearCount"}

(* Until a value is counted nothing can be lost; from the moment one call  *)
(* is past the first (second) loop, max_ (min_) is a value of some call.   *)
SeedInv ==
    /\ past.counted \subseteq past.begun
    /\ count = 0 => past.counted = {}
    /\ \A u \in Updaters : pc[u] # "idle" => frame[u].value \in past.begun
    /\ count > 0 \/ UpdatersAt({"testMin", "casMin", "addSum", "addCount"}) # {}
          => max \in past.begun
    /\ count > 0 \/ UpdatersAt({"addSum", "addCount"}) # {} => min \in past.begun

(* The first call is alone until it is counted.                            *)
FirstAloneInv ==
    count = 0 =>
        /\ \A u \in Updaters : pc[u] \in BeforeCount \cup {"idle"}
        /\ \A u, w \in Updaters : pc[u] # "idle" /\ pc[w] # "idle" => u = w

(* What a call knows of the maximum at each point of update(), and with    *)
(* the signs turned of the minimum.                                        *)
MaxInv ==
    /\ \A v \in past.counted : v <= max
    /\ \A u \in Updaters :
          /\ pc[u] \in {"testMin", "casMin", "addSum", "addCount"} => frame[u].value <= max
          /\ count > 0 /\ pc[u] \in {"loadMin", "testMax", "casMax"} => frame[u].curMax <= max
          /\ count > 0 /\ pc[u] = "casMax" => frame[u].curMax < frame[u].value

MinInv ==
    /\ \A v \in past.counted : min <= v
    /\ \A u \in Updaters :
          /\ pc[u] \in {"addSum", "addCount"} => min <= frame[u].value
          /\ count > 0 /\ pc[u] \in {"testMax", "casMax", "testMin", "casMin"}
                => min <= frame[u].curMin
          /\ count > 0 /\ pc[u] = "casMin" => frame[u].value < frame[u].curMin

(* The invariant itself.                                                   *)
ExtremesInv ==
    /\ TypeOK
    /\ ClearInv
    /\ Undisturbed => SeedInv
    /\ Undisturbed /\ ~past.firstRaced => FirstAloneInv /\ MaxInv /\ MinInv

(* The invariant behind the other properties.                              *)

(* variance_mutex_ is held by the thread between its lock and its return.  *)
LockInv == \A u \in Updaters : pc[u] \in {"loadS", "storeM", "storeS"} <=> mutex = u

(* With no call since the last clear() began, and none it met, a field not *)
(* zero is one that some clear() under way is still to zero.               *)
AtStore(labels) == \E c \in Clearers : pc[c] \in labels

BlankInv ==
    ~past.clearRaced /\ past.calls = 0 =>
        /\ ~Updating /\ past.total = 0 /\ past.squares = 0
        /\ min = 0
        /\ max = 0 \/ AtStore({"clearMax"})
        /\ sum = 0 \/ AtStore({"clearMax", "clearSum"})
        /\ count = 0 \/ AtStore({"clearMax", "clearSum", "clearCount"})
        /\ varM = 0 \/ AtStore(ClearLabels \ {"idle", "clearS", "clearSample"})
        /\ varS = 0 \/ AtStore(ClearLabels \ {"idle", "clearSample"})
        /\ sampled = 0 \/ AtStore(ClearLabels \ {"idle"})

(* What the thread inside variance_mutex_ knows of the variance.           *)
VarianceInv ==
    /\ varS >= 0
    /\ \A u \in Updaters :
          /\ pc[u] \in {"loadS", "storeM"} => frame[u].oldM = varM
          /\ pc[u] \in {"storeM", "storeS"} => frame[u].oldS = varS
          /\ pc[u] = "storeS" =>
                /\ frame[u].newCount > 1
                /\ varM = frame[u].oldM
                             + (Scale * frame[u].value - frame[u].oldM) \div frame[u].newCount

(* The values the variance took are those of the calls that returned: how  *)
(* many, their sum and their sum of squares.                               *)
InUpdate == {u \in Updaters : pc[u] # "idle"}
Squared(fr) == [u \in Updaters |-> [value |-> fr[u].value * fr[u].value]]

Taken == past.calls - Cardinality(InUpdate)
TakenTotal == past.total - Carried(frame, InUpdate)
TakenSquares == past.squares - Carried(Squared(frame), InUpdate)

(* The unit of the variance divides by the counts that occur.              *)
ExactScale == \A n \in 1 .. MaxUpdates - 1 : Scale % (n * (n + 1)) = 0

(* Taken in the order of the counts, they have the mean and the variance   *)
(* stored; the thread about to store the variance still has the old mean.  *)
WelfordInv ==
    /\ Taken >= 0
    /\ Taken = 0 => TakenTotal = 0 /\ TakenSquares = 0 /\ varS = 0
    /\ Taken * varS = Scale * Scale * (Taken * TakenSquares - TakenTotal * TakenTotal)
    /\ UpdatersAt({"storeS"}) = {} => Taken * varM = Scale * TakenTotal
    /\ \A u \in UpdatersAt({"storeS"}) :
          /\ frame[u].newCount = Taken + 1
          /\ Taken * frame[u].oldM = Scale * TakenTotal

(* Without a clear() a reader's count is at most the present one.          *)
ReadersInv ==
    /\ Undisturbed /\ past.calls = past.started
    /\ \A r \in Readers :
          /\ reading[r].counted <= count
          /\ pc[r] # "idle" => reading[r].op = pc[r] /\ reading[r].counted > 0
          /\ pc[r] = "idle" /\ reading[r].op \in {"max", "min"} /\ reading[r].counted > 0
                => reading[r].loaded \in past.begun

(* The sum lies between the bounds that its terms, those of the calls past *)
(* their addition, get from any bounds b of the values.                    *)
Summed == count + Cardinality(UpdatersAt({"addCount"}))

MeanInv ==
    \A b \in 0 .. Half - 1 :
        /\ (\A v \in Values : v <= b) => sum <= b * Summed
        /\ (\A v \in past.begun : b <= v) =>
              /\ b * Summed <= sum
              /\ \A r \in Readers :
                    pc[r] = "idle" /\ reading[r].op = "mean" =>
                        b * reading[r].counted <= reading[r].loaded

IndInv ==
    /\ ExtremesInv
    /\ LockInv
    /\ BlankInv
    /\ Accounting
    /\ past.calls <= past.started
    /\ Undisturbed => VarianceInv
    /\ Undisturbed /\ past.inOrder /\ ExactScale => WelfordInv
    /\ past.clears = 0 => ReadersInv
    /\ past.clears = 0 /\ NoOverflow => MeanInv

(* What test_histogram.cc:41 says of sequential calls, asked of concurrent *)
(* ones: when all calls have returned, max() is the largest value.         *)
MaxIsLargestValue ==
    Undisturbed /\ ~Updating /\ count > 0 => max = Max(past.begun)
=============================================================================
