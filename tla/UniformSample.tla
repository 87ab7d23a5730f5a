--------------------------- MODULE UniformSample ---------------------------
(***************************************************************************)
(* medida::stats::UniformSample (src/src/medida/stats/uniform_sample.cc):  *)
(* a reservoir of values.  update() takes its number from the atomic       *)
(* count_ before it takes the mutex, and snapshot() reads count_ before it *)
(* takes the mutex, so that calls of both, and of clear(), can come        *)
(* between the two halves of either.                                       *)
(*                                                                         *)
(* values_ is read and written under the mutex only, so a critical section *)
(* is one step, except that of clear(): it stores count_, which needs no   *)
(* mutex, after the values.  The random replacement is any outcome.        *)
(***************************************************************************)
EXTENDS Integers, Sequences

CONSTANTS
    Updaters,    \* threads that call update()
    Clearers,    \* threads that call clear()
    Readers,     \* threads that call snapshot()
    NoThread,    \* owner of mutex_ when it is free
    Values,      \* the values of update(): not the 0 of an unused slot
    Reservoir,   \* reservoirSize, the size of values_
    MaxUpdates,  \* bound on the calls of update() (count_ is far from 2^64)
    MaxClears    \* bound on the calls of clear()

ASSUME SampleAssumption ==
    /\ NoThread \notin Clearers
    /\ Updaters \cap Clearers = {}
    /\ Updaters \cap Readers = {}
    /\ Clearers \cap Readers = {}
    /\ Values \subseteq Int \ {0}
    /\ Reservoir \in Nat
    /\ MaxUpdates \in Nat /\ MaxClears \in Nat

VARIABLES
    count,    \* count_
    values,   \* values_
    mutex,    \* the owner of mutex_ between two steps
    pc,       \* where each thread is
    frame,    \* the value of each update() and the number it took
    counted,  \* the count a snapshot() loaded
    shown,    \* the last snapshot each reader was given
    given,    \* history: the values that took a number since count_ was 0
    tainted,  \* history: the last clear() met an update() under way
    raced,    \* history: a clear() met the reader's last snapshot()
    gaps,     \* history: slots whose update() was under way at the copy
    updates, clears  \* calls so far

threads == <<mutex, pc, frame, counted, shown>>
past == <<given, tainted, raced, gaps, updates, clears>>
vars == <<count, values, threads, past>>

Threads == Updaters \cup Clearers \cup Readers
Slots == 0 .. Reservoir - 1
Unused == [i \in Slots |-> 0]

(* The slots a count stands for: std::min(count, size) of them.            *)
UsedSlots(n) == {i \in Slots : i < n}

Pending == {u \in Updaters : pc[u] = "place"}

Init ==
    /\ count = 0
    /\ values = Unused
    /\ mutex = NoThread
    /\ pc = [t \in Threads |-> "idle"]
    /\ frame = [u \in Updaters |-> [value |-> 0, number |-> 0]]
    /\ counted = [r \in Readers |-> 0]
    /\ shown = [r \in Readers |-> [i \in {} |-> 0]]
    /\ given = <<>>
    /\ tainted = FALSE
    /\ raced = [r \in Readers |-> FALSE]
    /\ gaps = [r \in Readers |-> {}]
    /\ updates = 0 /\ clears = 0

Goto(t, label) == pc' = [pc EXCEPT ![t] = label]

----------------------------------------------------------------------------
(* Wrong variants of steps below, for the mutation runs only.              *)

TakeNumberIncremented(u, v) ==
    /\ pc[u] = "idle"
    /\ updates < MaxUpdates
    /\ updates' = updates + 1
    /\ count' = count + 1
    /\ given' = Append(given, v)
    /\ frame' = [frame EXCEPT ![u] = [value |-> v, number |-> count + 1]]
    /\ Goto(u, "place")
    /\ UNCHANGED <<values, mutex, counted, shown, tainted, raced, gaps, clears>>

CopyUntilFull(r) ==
    /\ pc[r] = "copy"
    /\ mutex = NoThread
    /\ shown' = [shown EXCEPT ![r] = [i \in UsedSlots(counted[r] + 1) |-> values[i]]]
    /\ gaps' = [gaps EXCEPT ![r] = {frame[u].number : u \in Pending}]
    /\ counted' = [counted EXCEPT ![r] = 0]
    /\ Goto(r, "idle")
    /\ UNCHANGED <<count, values, mutex, frame, given, tainted, raced, updates, clears>>

----------------------------------------------------------------------------
(* update(value)                                                           *)

TakeNumber(u, v) ==
    /\ pc[u] = "idle"
    /\ updates < MaxUpdates
    /\ updates' = updates + 1
    /\ count' = count + 1
    /\ given' = Append(given, v)
    /\ frame' = [frame EXCEPT ![u] = [value |-> v, number |-> count]]
    /\ Goto(u, "place")
    /\ UNCHANGED <<values, mutex, counted, shown, tainted, raced, gaps, clears>>

(* Where a value may go: its own slot while there is one, then a random    *)
(* slot, or none.                                                          *)
Places(n) == IF n < Reservoir THEN {n} ELSE 0 .. n

Place(u) ==
    /\ pc[u] = "place"
    /\ mutex = NoThread
    /\ \E i \in Places(frame[u].number) :
          values' = IF i \in Slots THEN [values EXCEPT ![i] = frame[u].value] ELSE values
    /\ frame' = [frame EXCEPT ![u] = [value |-> 0, number |-> 0]]
    /\ Goto(u, "idle")
    /\ UNCHANGED <<count, mutex, counted, shown, past>>

----------------------------------------------------------------------------
(* clear()                                                                 *)

ClearValues(c) ==
    /\ pc[c] = "idle"
    /\ clears < MaxClears
    /\ mutex = NoThread
    /\ clears' = clears + 1
    /\ mutex' = c
    /\ values' = Unused
    /\ raced' = [r \in Readers |-> raced[r] \/ pc[r] = "copy"]
    /\ Goto(c, "clearCount")
    /\ UNCHANGED <<count, frame, counted, shown, given, tainted, gaps, updates>>

ClearCount(c) ==
    /\ pc[c] = "clearCount"
    /\ count' = 0
    /\ given' = <<>>
    /\ tainted' = (Pending # {})
    /\ mutex' = NoThread
    /\ Goto(c, "idle")
    /\ UNCHANGED <<values, frame, counted, shown, raced, gaps, updates, clears>>

----------------------------------------------------------------------------
(* snapshot()                                                              *)

LoadCount(r) ==
    /\ pc[r] = "idle"
    /\ counted' = [counted EXCEPT ![r] = count]
    /\ shown' = [shown EXCEPT ![r] = [i \in {} |-> 0]]
    /\ gaps' = [gaps EXCEPT ![r] = {}]
    /\ raced' = [raced EXCEPT ![r] = mutex # NoThread]
    /\ Goto(r, "copy")
    /\ UNCHANGED <<count, values, mutex, frame, given, tainted, updates, clears>>

Copy(r) ==
    /\ pc[r] = "copy"
    /\ mutex = NoThread
    /\ shown' = [shown EXCEPT ![r] = [i \in UsedSlots(counted[r]) |-> values[i]]]
    /\ gaps' = [gaps EXCEPT ![r] = {frame[u].number : u \in Pending}]
    /\ counted' = [counted EXCEPT ![r] = 0]
    /\ Goto(r, "idle")
    /\ UNCHANGED <<count, values, mutex, frame, given, tainted, raced, updates, clears>>

----------------------------------------------------------------------------
(* The threads have made the calls the bounds allow.                       *)
Terminated ==
    /\ \A t \in Threads : pc[t] = "idle"
    /\ updates = MaxUpdates
    /\ clears = MaxClears
    /\ UNCHANGED vars

Next ==
    \/ \E u \in Updaters : (\E v \in Values : TakeNumber(u, v)) \/ Place(u)
    \/ \E c \in Clearers : ClearValues(c) \/ ClearCount(c)
    \/ \E r \in Readers : LoadCount(r) \/ Copy(r)
    \/ Terminated

Spec == Init /\ [][Next]_vars

----------------------------------------------------------------------------
(* Properties.                                                             *)

(* Every variable keeps its type.                                          *)
TypeOK ==
    /\ count \in Nat
    /\ values \in [Slots -> Values \cup {0}]
    /\ mutex \in Clearers \cup {NoThread}
    /\ pc \in [Threads -> {"idle", "place", "clearCount", "copy"}]
    /\ frame \in [Updaters -> [value : Values \cup {0}, number : Nat]]
    /\ counted \in [Readers -> Nat]
    /\ shown \in [Readers -> UNION {[D -> Values \cup {0}] : D \in SUBSET Slots}]
    /\ gaps \in [Readers -> SUBSET Nat]
    /\ given \in Seq(Values)
    /\ tainted \in BOOLEAN
    /\ raced \in [Readers -> BOOLEAN]
    /\ updates \in Nat /\ clears \in Nat

(* The slots of the sample that an update() has counted and not written.   *)
Gaps == {frame[u].number : u \in Pending}

Clearing == mutex # NoThread

MutexInv ==
    /\ \A c \in Clearers : pc[c] = "clearCount" <=> mutex = c
    /\ \A u \in Updaters : pc[u] = "place" => frame[u].value \in Values
    /\ Len(given) = count
    /\ Clearing => values = Unused

(* Every slot the count stands for holds a value that was recorded, or is  *)
(* that of an update() under way: however updates and clears interleave,   *)
(* with no call under way there is no slot nobody wrote in the sample.     *)
NoSlotUnwritten ==
    ~Clearing => \A i \in UsedSlots(count) : values[i] # 0 \/ i \in Gaps

(* Until the reservoir is full it drops nothing: the i-th value counted is *)
(* in the i-th slot or on its way there, provided the last clear() met no  *)
(* update() under way.                                                     *)
NothingDropped ==
    ~tainted /\ ~Clearing /\ count <= Reservoir =>
        \A i \in UsedSlots(count) :
            \/ values[i] = given[i + 1]
            \/ \E u \in Pending : frame[u] = [value |-> given[i + 1], number |-> i]

(* Nothing of before a clear() comes back, provided it met no update()     *)
(* under way: the sample holds values recorded since.                      *)
RecordedSince ==
    ~tainted =>
        /\ \A i \in Slots : values[i] # 0 => \E k \in DOMAIN given : values[i] = given[k]
        /\ \A u \in Pending : \E k \in DOMAIN given : frame[u].value = given[k]

(* A number taken is below the count, and no two calls have the same.      *)
NumbersInv ==
    ~tainted =>
        /\ \A u \in Pending : frame[u].number < count
        /\ \A u \in Pending : given[frame[u].number + 1] = frame[u].value
        /\ \A u, w \in Pending : frame[u].number = frame[w].number => u = w

(* What a reader that no clear() met so far is going to see.               *)
ReadersInv ==
    \A r \in Readers :
        pc[r] = "copy" /\ ~raced[r] => ~Clearing /\ counted[r] <= count

(* The inductive invariant of the proofs.                                  *)
SampleInv ==
    /\ TypeOK /\ MutexInv /\ NumbersInv /\ ReadersInv
    /\ NoSlotUnwritten /\ NothingDropped /\ RecordedSince

(* A snapshot() that no clear() met shows recorded values only, but for    *)
(* the slots whose update() was under way when the copy was made.          *)
SnapshotsRecorded ==
    \A r \in Readers :
        ~raced[r] => \A i \in DOMAIN shown[r] : shown[r][i] \in Values \/ i \in gaps[r]
=============================================================================
