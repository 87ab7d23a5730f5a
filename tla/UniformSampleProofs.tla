------------------------ MODULE UniformSampleProofs ------------------------
(***************************************************************************)
(* Proofs about UniformSample for every number of threads, size of the     *)
(* reservoir and set of values.                                            *)
(***************************************************************************)
EXTENDS UniformSample, TLAPS

(* A slot a smaller count stands for is one a larger count stands for.     *)
LEMMA UsedSlotsGrow ==
    ASSUME NEW m \in Nat, NEW n \in Nat, m <= n
    PROVE  UsedSlots(m) \subseteq UsedSlots(n)
BY SampleAssumption DEF UsedSlots, Slots

----------------------------------------------------------------------------
(* One lemma for each action that the invariant has to survive.            *)

LEMMA TakeNumberStep ==
    ASSUME SampleInv, NEW u \in Updaters, NEW v \in Values, TakeNumber(u, v)
    PROVE  SampleInv'
<1> USE SampleAssumption DEF TakeNumber, Goto, Threads
<1> DEFINE f == [value |-> v, number |-> count]
<1>1. /\ count \in Nat /\ count' = count + 1 /\ values' = values /\ mutex' = mutex
      /\ tainted' = tainted /\ given \in Seq(Values) /\ Len(given) = count
      /\ values \in [Slots -> Values \cup {0}]
      /\ pc[u] = "idle" /\ u \notin Pending
      /\ counted' = counted /\ raced' = raced
  BY DEF SampleInv, TypeOK, MutexInv, Pending
<1>2. /\ given' \in Seq(Values) /\ Len(given') = count + 1 /\ given'[count + 1] = v
      /\ \A k \in 1 .. count : given'[k] = given[k]
      /\ DOMAIN given = 1 .. count /\ DOMAIN given' = 1 .. count + 1
  BY <1>1
<1>3. /\ frame' \in [Updaters -> [value : Values \cup {0}, number : Nat]]
      /\ frame'[u] = f /\ \A w \in Updaters : w # u => frame'[w] = frame[w]
  BY DEF SampleInv, TypeOK
<1>4. /\ pc' \in [Threads -> {"idle", "place", "clearCount", "copy"}]
      /\ pc'[u] = "place" /\ \A t \in Threads : t # u => pc'[t] = pc[t]
      /\ Pending' = Pending \cup {u}
  BY DEF SampleInv, TypeOK, Pending
<1>5. TypeOK'
  BY <1>1, <1>2, <1>3, <1>4 DEF SampleInv, TypeOK
<1>6. MutexInv'
  BY <1>1, <1>2, <1>3, <1>4 DEF SampleInv, MutexInv, Clearing
<1> HIDE DEF TakeNumber, Goto
<1>a. /\ frame'[u].number = count /\ frame'[u].value = v
      /\ \A w \in Pending : w # u /\ w \in Updaters /\ frame'[w] = frame[w]
  BY <1>1, <1>3 DEF Pending
<1>7. NumbersInv'
  <2>1. ASSUME ~tainted, NEW w \in Pending, w # u
        PROVE  /\ frame'[w] = frame[w] /\ frame[w].number < count /\ frame[w].number \in Nat
               /\ given'[frame[w].number + 1] = frame[w].value
    BY <2>1, <1>1, <1>2, <1>3 DEF SampleInv, TypeOK, NumbersInv, Pending
  <2>2. ASSUME ~tainted, NEW w \in Pending, NEW x \in Pending, frame[w].number = frame[x].number
        PROVE  w = x
    BY <2>2 DEF SampleInv, NumbersInv
  <2> QED
    BY <1>1, <1>2, <1>a, <1>4, <2>1, <2>2 DEF NumbersInv
<1>8. ReadersInv'
  BY <1>1, <1>4 DEF SampleInv, TypeOK, ReadersInv, Clearing
<1>9. Gaps' = Gaps \cup {count}
  BY <1>a, <1>4 DEF Gaps
<1>10. UsedSlots(count + 1) \subseteq UsedSlots(count) \cup {count}
  BY <1>1 DEF UsedSlots, Slots
<1>11. NoSlotUnwritten'
  BY <1>1, <1>9, <1>10 DEF SampleInv, NoSlotUnwritten, Clearing
<1>12. NothingDropped'
  <2> SUFFICES ASSUME ~tainted, ~Clearing, count + 1 <= Reservoir, NEW i \in UsedSlots(count + 1)
               PROVE  \/ values[i] = given'[i + 1]
                      \/ \E w \in Pending' : frame'[w] = [value |-> given'[i + 1], number |-> i]
    <3>1. (~tainted)' = ~tainted /\ Clearing' = Clearing /\ (count <= Reservoir)' = (count + 1 <= Reservoir)
      BY <1>1 DEF Clearing
    <3> QED
      BY <3>1, <1>1 DEF NothingDropped
  <2>1. CASE i = count
    BY <2>1, <1>2, <1>3, <1>4
  <2>2. CASE i # count
    <3>1. i \in UsedSlots(count) /\ i + 1 \in 1 .. count
      BY <2>2, <1>1, <1>10 DEF UsedSlots, Slots
    <3>2. \/ values[i] = given[i + 1]
          \/ \E w \in Pending : frame[w] = [value |-> given[i + 1], number |-> i]
      BY <3>1, <1>1 DEF SampleInv, NothingDropped
    <3> QED
      BY <3>1, <3>2, <1>1, <1>2, <1>3, <1>4 DEF Pending
  <2> QED
    BY <2>1, <2>2
<1>13. RecordedSince'
  <2>1. ASSUME ~tainted, NEW i \in Slots, values[i] # 0
        PROVE  \E k \in DOMAIN given' : values[i] = given'[k]
    <3>1. PICK k \in DOMAIN given : values[i] = given[k]
      BY <2>1 DEF SampleInv, RecordedSince
    <3> QED
      BY <3>1, <1>1, <1>2
  <2>2. ASSUME ~tainted, NEW w \in Pending
        PROVE  \E k \in DOMAIN given' : frame'[w].value = given'[k]
    <3>1. PICK k \in DOMAIN given : frame[w].value = given[k]
      BY <2>2 DEF SampleInv, RecordedSince
    <3> QED
      BY <3>1, <1>1, <1>2, <1>3 DEF Pending
  <2>3. count + 1 \in DOMAIN given' /\ frame'[u].value = given'[count + 1]
    BY <1>1, <1>2, <1>3
  <2> QED
    BY <2>1, <2>2, <2>3, <1>1, <1>4 DEF RecordedSince
<1> QED
  BY <1>5, <1>6, <1>7, <1>8, <1>11, <1>12, <1>13 DEF SampleInv

LEMMA PlaceStep ==
    ASSUME SampleInv, NEW u \in Updaters, Place(u)
    PROVE  SampleInv'
<1> USE SampleAssumption DEF Goto, Threads
<1> DEFINE v == frame[u].value
           n == frame[u].number
<1>1. /\ count \in Nat /\ UNCHANGED <<count, mutex, counted, shown, past>> /\ mutex = NoThread
      /\ given \in Seq(Values) /\ Len(given) = count /\ DOMAIN given = 1 .. count
      /\ values \in [Slots -> Values \cup {0}]
      /\ u \in Pending /\ v \in Values /\ n \in Nat
      /\ ~tainted => n < count /\ given[n + 1] = v
  BY DEF Place, SampleInv, TypeOK, MutexInv, NumbersInv, Pending, past
<1>2. PICK i \in Places(n) :
          values' = IF i \in Slots THEN [values EXCEPT ![i] = v] ELSE values
  BY DEF Place
<1>3. /\ values' \in [Slots -> Values \cup {0}]
      /\ \A j \in Slots : j # i => values'[j] = values[j]
      /\ i \in Slots => values'[i] = v
  BY <1>1, <1>2
<1>4. n < Reservoir => i = n
  BY <1>2 DEF Places
<1>5. /\ frame' \in [Updaters -> [value : Values \cup {0}, number : Nat]]
      /\ \A w \in Updaters : w # u => frame'[w] = frame[w]
  BY DEF Place, SampleInv, TypeOK
<1>6. /\ pc' \in [Threads -> {"idle", "place", "clearCount", "copy"}]
      /\ pc'[u] = "idle" /\ \A t \in Threads : t # u => pc'[t] = pc[t]
      /\ Pending' = Pending \ {u}
  BY DEF Place, SampleInv, TypeOK, Pending
<1>7. TypeOK'
  BY <1>1, <1>3, <1>5, <1>6 DEF SampleInv, TypeOK, past
<1>8. MutexInv'
  BY <1>1, <1>5, <1>6 DEF SampleInv, MutexInv, Clearing, past
<1>9. NumbersInv'
  BY <1>1, <1>5, <1>6 DEF SampleInv, NumbersInv, Pending, past
<1>10. ReadersInv'
  BY <1>1, <1>6 DEF SampleInv, ReadersInv, Clearing, past
<1>11. NoSlotUnwritten'
  <2> SUFFICES ASSUME NEW j \in UsedSlots(count) PROVE values'[j] # 0 \/ j \in Gaps'
    BY <1>1 DEF NoSlotUnwritten
  <2>1. j \in Slots /\ (values[j] # 0 \/ j \in Gaps)
    BY <1>1 DEF SampleInv, NoSlotUnwritten, UsedSlots, Clearing
  <2>2. CASE j = i
    BY <2>1, <2>2, <1>1, <1>3
  <2>3. CASE j # i /\ values[j] # 0
    BY <2>1, <2>3, <1>3
  <2>4. CASE j # i /\ j \in Gaps
    <3>1. PICK w \in Pending : frame[w].number = j
      BY <2>4 DEF Gaps
    <3>2. w # u
      BY <2>1, <2>4, <3>1, <1>1, <1>4 DEF Slots
    <3> QED
      BY <3>1, <3>2, <1>5, <1>6 DEF Gaps, Pending
  <2> QED
    BY <2>1, <2>2, <2>3, <2>4
<1>12. NothingDropped'
  <2> SUFFICES ASSUME ~tainted, count <= Reservoir, NEW j \in UsedSlots(count)
               PROVE  \/ values'[j] = given[j + 1]
                      \/ \E w \in Pending' : frame'[w] = [value |-> given[j + 1], number |-> j]
    BY <1>1 DEF NothingDropped, past
  <2>1. /\ j \in Slots
        /\ \/ values[j] = given[j + 1]
           \/ \E w \in Pending : frame[w] = [value |-> given[j + 1], number |-> j]
    BY <1>1 DEF SampleInv, NothingDropped, UsedSlots, Clearing
  <2>2. i = n /\ v = given[n + 1]
    BY <1>1, <1>4
  <2>3. CASE j = i
    BY <2>1, <2>2, <2>3, <1>3
  <2>4. CASE j # i /\ values[j] = given[j + 1]
    BY <2>1, <2>4, <1>3
  <2>5. ASSUME j # i, NEW w \in Pending, frame[w] = [value |-> given[j + 1], number |-> j]
        PROVE  \E x \in Pending' : frame'[x] = [value |-> given[j + 1], number |-> j]
    <3>1. w # u
      BY <2>2, <2>5
    <3> QED
      BY <2>5, <3>1, <1>5, <1>6 DEF Pending
  <2> QED
    BY <2>1, <2>3, <2>4, <2>5
<1>13. RecordedSince'
  <2>1. ASSUME ~tainted PROVE \E k \in DOMAIN given : v = given[k]
    BY <2>1, <1>1 DEF SampleInv, RecordedSince
  <2>2. ASSUME ~tainted, NEW j \in Slots, values'[j] # 0
        PROVE  \E k \in DOMAIN given : values'[j] = given[k]
    BY <2>1, <2>2, <1>3 DEF SampleInv, RecordedSince
  <2>3. ASSUME ~tainted, NEW w \in Pending'
        PROVE  \E k \in DOMAIN given : frame'[w].value = given[k]
    BY <2>3, <1>5, <1>6 DEF SampleInv, RecordedSince, Pending
  <2>4. tainted' = tainted /\ given' = given
    BY <1>1 DEF past
  <2> QED
    BY <2>2, <2>3, <2>4 DEF RecordedSince
<1> QED
  BY <1>7, <1>8, <1>9, <1>10, <1>11, <1>12, <1>13 DEF SampleInv

LEMMA ClearValuesStep ==
    ASSUME SampleInv, NEW c \in Clearers, ClearValues(c)
    PROVE  SampleInv'
<1> USE SampleAssumption DEF ClearValues, Goto, Threads
<1>1. /\ \A i \in Slots : values'[i] = 0
      /\ values' \in [Slots -> Values \cup {0}]
      /\ mutex' = c /\ mutex' # NoThread
      /\ UNCHANGED <<count, frame, counted, shown, given, tainted, gaps, updates>>
  BY DEF Unused
<1>2. /\ pc' \in [Threads -> {"idle", "place", "clearCount", "copy"}]
      /\ pc'[c] = "clearCount" /\ \A t \in Threads : t # c => pc'[t] = pc[t]
      /\ Pending' = Pending
  BY DEF SampleInv, TypeOK, Pending
<1>3. TypeOK'
  BY <1>1, <1>2 DEF SampleInv, TypeOK
<1>4. MutexInv'
  BY <1>1, <1>2 DEF SampleInv, MutexInv, Unused
<1>5. NumbersInv'
  BY <1>1, <1>2 DEF SampleInv, NumbersInv
<1>6. ReadersInv'
  BY <1>1, <1>2 DEF ReadersInv
<1>7. NoSlotUnwritten' /\ NothingDropped'
  BY <1>1 DEF NoSlotUnwritten, NothingDropped, Clearing
<1>8. RecordedSince'
  BY <1>1, <1>2 DEF SampleInv, RecordedSince
<1> QED
  BY <1>3, <1>4, <1>5, <1>6, <1>7, <1>8 DEF SampleInv

LEMMA ClearCountStep ==
    ASSUME SampleInv, NEW c \in Clearers, ClearCount(c)
    PROVE  SampleInv'
<1> USE SampleAssumption DEF ClearCount, Goto, Threads
<1>1. /\ count' = 0 /\ given' = <<>> /\ Len(given') = 0 /\ given' \in Seq(Values)
      /\ tainted' = (Pending # {}) /\ mutex' = NoThread /\ mutex = c
      /\ UNCHANGED <<values, frame, counted, shown, raced, gaps, updates, clears>>
      /\ values = Unused
  BY DEF SampleInv, MutexInv, Clearing
<1>2. /\ pc' \in [Threads -> {"idle", "place", "clearCount", "copy"}]
      /\ pc'[c] = "idle" /\ \A t \in Threads : t # c => pc'[t] = pc[t]
      /\ Pending' = Pending
  BY DEF SampleInv, TypeOK, Pending
<1>3. TypeOK'
  BY <1>1, <1>2 DEF SampleInv, TypeOK
<1>4. MutexInv'
  BY <1>1, <1>2 DEF SampleInv, MutexInv, Clearing
<1>5. NumbersInv' /\ RecordedSince'
  BY <1>1, <1>2 DEF NumbersInv, RecordedSince, Unused
<1>6. ReadersInv'
  BY <1>1, <1>2 DEF SampleInv, ReadersInv, Clearing
<1>7. UsedSlots(count') = {}
  BY <1>1 DEF UsedSlots, Slots
<1>8. NoSlotUnwritten' /\ NothingDropped'
  BY <1>7 DEF NoSlotUnwritten, NothingDropped
<1> QED
  BY <1>3, <1>4, <1>5, <1>6, <1>8 DEF SampleInv

LEMMA LoadCountStep ==
    ASSUME SampleInv, NEW r \in Readers, LoadCount(r)
    PROVE  SampleInv'
<1> USE SampleAssumption DEF LoadCount, Goto, Threads
<1>1. /\ UNCHANGED <<count, values, mutex, frame, given, tainted, updates, clears>>
      /\ counted' = [counted EXCEPT ![r] = count] /\ raced' = [raced EXCEPT ![r] = Clearing]
      /\ pc' \in [Threads -> {"idle", "place", "clearCount", "copy"}]
      /\ \A t \in Threads : t # r => pc'[t] = pc[t]
      /\ pc[r] = "idle" /\ pc'[r] = "copy" /\ Pending' = Pending
  BY DEF SampleInv, TypeOK, Pending, Clearing
<1>2. TypeOK'
  <2>1. shown' \in [Readers -> UNION {[D -> Values \cup {0}] : D \in SUBSET Slots}]
    <3>1. [i \in {} |-> 0] \in [{} -> Values \cup {0}] /\ {} \in SUBSET Slots
      OBVIOUS
    <3>2. [i \in {} |-> 0] \in UNION {[D -> Values \cup {0}] : D \in SUBSET Slots}
      BY <3>1
    <3> QED
      BY <3>2 DEF SampleInv, TypeOK
  <2>2. gaps' \in [Readers -> SUBSET Nat] /\ raced' \in [Readers -> BOOLEAN]
        /\ counted' \in [Readers -> Nat]
    BY DEF SampleInv, TypeOK
  <2> QED
    BY <1>1, <2>1, <2>2 DEF SampleInv, TypeOK
<1>3. ReadersInv'
  <2>1. ~raced'[r] => ~Clearing' /\ counted'[r] <= count'
    <3>1. raced'[r] = Clearing /\ counted'[r] = count /\ count \in Nat
      BY <1>1, Zenon DEF SampleInv, TypeOK
    <3>3. ~raced'[r] => ~Clearing
      BY <3>1, Zenon
    <3>4. counted'[r] = count /\ count \in Nat
      BY <3>1
    <3>2. count' = count /\ mutex' = mutex
      BY <1>1
    <3> HIDE DEF LoadCount
    <3> QED
      BY <3>2, <3>3, <3>4 DEF Clearing
  <2>2. \A q \in Readers : q # r => pc'[q] = pc[q] /\ raced'[q] = raced[q] /\ counted'[q] = counted[q]
    BY <1>1
  <2>3. Clearing' = Clearing /\ count' = count
    BY <1>1 DEF Clearing
  <2> HIDE DEF LoadCount
  <2> QED
    BY <2>1, <2>2, <2>3 DEF SampleInv, ReadersInv
<1>4. MutexInv' /\ NumbersInv' /\ NoSlotUnwritten' /\ NothingDropped' /\ RecordedSince'
  BY <1>1 DEF SampleInv, MutexInv, NumbersInv, NoSlotUnwritten, NothingDropped, RecordedSince,
              Clearing, Gaps
<1> QED
  BY <1>2, <1>3, <1>4 DEF SampleInv

LEMMA CopyStep ==
    ASSUME SampleInv, NEW r \in Readers, Copy(r)
    PROVE  SampleInv'
<1> USE SampleAssumption DEF Copy, Goto, Threads
<1>1. /\ UNCHANGED <<count, values, mutex, frame, given, tainted, raced, updates, clears>>
      /\ counted' = [counted EXCEPT ![r] = 0]
      /\ pc' \in [Threads -> {"idle", "place", "clearCount", "copy"}]
      /\ \A t \in Threads : t # r => pc'[t] = pc[t]
      /\ pc[r] = "copy" /\ pc'[r] = "idle" /\ Pending' = Pending
  BY DEF SampleInv, TypeOK, Pending
<1>2. TypeOK'
  <2>1. shown' \in [Readers -> UNION {[D -> Values \cup {0}] : D \in SUBSET Slots}]
    <3> DEFINE D == UsedSlots(counted[r])
    <3>1. [i \in D |-> values[i]] \in [D -> Values \cup {0}] /\ D \in SUBSET Slots
      BY DEF UsedSlots, SampleInv, TypeOK
    <3>2. [i \in D |-> values[i]] \in UNION {[E -> Values \cup {0}] : E \in SUBSET Slots}
      BY <3>1
    <3> QED
      BY <3>2 DEF SampleInv, TypeOK
  <2>2. Gaps \in SUBSET Nat /\ gaps' = [gaps EXCEPT ![r] = Gaps]
    BY DEF SampleInv, TypeOK, Gaps, Pending
  <2>3. gaps' \in [Readers -> SUBSET Nat]
    <3>1. gaps \in [Readers -> SUBSET Nat]
      BY DEF SampleInv, TypeOK
    <3> HIDE DEF Copy
    <3> QED
      BY <2>2, <3>1
  <2>4. counted' \in [Readers -> Nat]
    BY <1>1 DEF SampleInv, TypeOK
  <2> QED
    BY <1>1, <2>1, <2>3, <2>4 DEF SampleInv, TypeOK
<1>3. ReadersInv'
  BY <1>1 DEF SampleInv, TypeOK, ReadersInv, Clearing
<1>4. MutexInv' /\ NumbersInv' /\ NoSlotUnwritten' /\ NothingDropped' /\ RecordedSince'
  BY <1>1 DEF SampleInv, MutexInv, NumbersInv, NoSlotUnwritten, NothingDropped, RecordedSince,
              Clearing, Gaps
<1> QED
  BY <1>2, <1>3, <1>4 DEF SampleInv

----------------------------------------------------------------------------
LEMMA SampleInvInit == Init => SampleInv
<1> SUFFICES ASSUME Init PROVE SampleInv
  OBVIOUS
<1> USE SampleAssumption DEF Init, Unused, Pending, Clearing, Threads
<1>1. TypeOK
  <2>1. [i \in {} |-> 0] \in [{} -> Values \cup {0}] /\ {} \in SUBSET Slots
    OBVIOUS
  <2>2. [i \in {} |-> 0] \in UNION {[D -> Values \cup {0}] : D \in SUBSET Slots}
    BY <2>1
  <2>3. shown \in [Readers -> UNION {[D -> Values \cup {0}] : D \in SUBSET Slots}]
    BY <2>2
  <2>4. gaps \in [Readers -> SUBSET Nat] /\ given \in Seq(Values)
    OBVIOUS
  <2> QED
    BY <2>3, <2>4 DEF TypeOK
<1>2. MutexInv /\ NumbersInv /\ ReadersInv /\ RecordedSince
  BY DEF MutexInv, NumbersInv, ReadersInv, RecordedSince
<1>3. UsedSlots(count) = {}
  BY DEF UsedSlots, Slots
<1>4. NoSlotUnwritten /\ NothingDropped
  BY <1>3 DEF NoSlotUnwritten, NothingDropped
<1> QED
  BY <1>1, <1>2, <1>4 DEF SampleInv

LEMMA SampleInvStep == SampleInv /\ [Next]_vars => SampleInv'
<1> SUFFICES ASSUME SampleInv, [Next]_vars PROVE SampleInv'
  OBVIOUS
<1>1. CASE UNCHANGED vars
  BY <1>1 DEF vars, threads, past, SampleInv, TypeOK, MutexInv, NumbersInv, ReadersInv,
              NoSlotUnwritten, NothingDropped, RecordedSince, Pending, Gaps, Clearing
<1>2. CASE Next
  BY <1>1, <1>2, TakeNumberStep, PlaceStep, ClearValuesStep, ClearCountStep, LoadCountStep, CopyStep
     DEF Next, Terminated
<1> QED
  BY <1>1, <1>2

(* The invariant, for every number of threads and every reservoir.         *)
THEOREM SampleInvHolds == Spec => []SampleInv
<1> QED
  BY SampleInvInit, SampleInvStep, PTL DEF Spec

(* With no update() and no clear() under way every slot the count stands   *)
(* for was written, whatever updates and clears raced before.              *)
THEOREM NoSlotUnwrittenHolds == Spec => []NoSlotUnwritten
<1>1. SampleInv => NoSlotUnwritten
  BY DEF SampleInv
<1> QED
  BY <1>1, SampleInvHolds, PTL

(* Until the reservoir is full the sample is the sequence of the values.   *)
THEOREM NothingDroppedHolds == Spec => []NothingDropped
<1>1. SampleInv => NothingDropped
  BY DEF SampleInv
<1> QED
  BY <1>1, SampleInvHolds, PTL

LEMMA SnapshotsStep ==
    SampleInv /\ SnapshotsRecorded /\ [Next]_vars => SnapshotsRecorded'
<1> SUFFICES ASSUME SampleInv, SnapshotsRecorded, [Next]_vars PROVE SnapshotsRecorded'
  OBVIOUS
<1>1. CASE UNCHANGED <<shown, gaps, raced>>
  BY <1>1 DEF SnapshotsRecorded
<1>2. ASSUME NEW c \in Clearers, ClearValues(c) PROVE SnapshotsRecorded'
  BY <1>2 DEF ClearValues, SnapshotsRecorded
<1>3. ASSUME NEW r \in Readers, LoadCount(r) PROVE SnapshotsRecorded'
  <2>1. /\ shown' = [shown EXCEPT ![r] = [i \in {} |-> 0]]
        /\ gaps' = [gaps EXCEPT ![r] = {}]
        /\ \A q \in Readers : q # r => raced'[q] = raced[q]
        /\ DOMAIN shown = Readers /\ DOMAIN gaps = Readers
    BY <1>3 DEF LoadCount, SampleInv, TypeOK
  <2>2. DOMAIN shown'[r] = {} /\ \A q \in Readers : q # r => shown'[q] = shown[q] /\ gaps'[q] = gaps[q]
    BY <2>1
  <2> QED
    BY <2>1, <2>2 DEF SnapshotsRecorded
<1>4. ASSUME NEW r \in Readers, Copy(r) PROVE SnapshotsRecorded'
  <2>1. /\ shown' = [shown EXCEPT ![r] = [i \in UsedSlots(counted[r]) |-> values[i]]]
        /\ gaps' = [gaps EXCEPT ![r] = Gaps]
        /\ raced' = raced /\ pc[r] = "copy"
        /\ DOMAIN shown = Readers /\ DOMAIN gaps = Readers
    BY <1>4 DEF Copy, SampleInv, TypeOK, Gaps
  <2>2. /\ shown'[r] = [i \in UsedSlots(counted[r]) |-> values[i]] /\ gaps'[r] = Gaps
        /\ \A q \in Readers : q # r => shown'[q] = shown[q] /\ gaps'[q] = gaps[q]
    BY <2>1
  <2>3. ASSUME ~raced[r], NEW i \in UsedSlots(counted[r])
        PROVE  values[i] \in Values \/ i \in Gaps
    <3>1. ~Clearing /\ counted[r] <= count /\ counted[r] \in Nat /\ count \in Nat
      BY <2>1, <2>3 DEF SampleInv, TypeOK, ReadersInv
    <3>2. i \in UsedSlots(count) /\ i \in Slots
      BY <2>3, <3>1, UsedSlotsGrow DEF UsedSlots
    <3> QED
      BY <3>1, <3>2 DEF SampleInv, TypeOK, NoSlotUnwritten
  <2> QED
    BY <2>1, <2>2, <2>3 DEF SnapshotsRecorded
<1> QED
  BY <1>1, <1>2, <1>3, <1>4
     DEF Next, vars, threads, past, TakeNumber, Place, ClearCount, Terminated

(* A snapshot() shows recorded values only, but for the calls under way.   *)
THEOREM SnapshotsRecordedHolds == Spec => []SnapshotsRecorded
<1>1. Init => SnapshotsRecorded
  BY DEF Init, SnapshotsRecorded
<1> QED
  BY <1>1, SnapshotsStep, SampleInvHolds, PTL DEF Spec
=============================================================================
