-------------------------- MODULE HistogramProofs --------------------------
(***************************************************************************)
(* Theorems about Histogram for any set of updaters, clearers and readers, *)
(* any values and any bounds: types, and the exactness of the minimum and  *)
(* the maximum under every interleaving of calls that do not meet on the   *)
(* empty histogram or in clear().                                          *)
(***************************************************************************)
EXTENDS Histogram, FiniteSetTheorems, WellFoundedInduction, TLAPS

(* A machine word holds what a machine word holds.                         *)
LEMMA WrapType == ASSUME NEW x \in Int PROVE Wrap(x) \in -Half .. Half - 1
BY NumbersAssumption DEF Wrap

(* A step of an updater, a clearer or a reader is one of their actions.    *)
Step ==
    \/ \E u \in Updaters :
          \/ \E v \in Values : SampleUpdate(u, v)
          \/ LoadMax(u) \/ LoadMin(u)
          \/ TestMax(u) \/ SwapMax(u) \/ FailMax(u)
          \/ TestMin(u) \/ SwapMin(u) \/ FailMin(u)
          \/ AddSum(u) \/ AddCount(u)
          \/ LockVariance(u) \/ LoadS(u) \/ StoreFirstM(u) \/ StoreM(u) \/ StoreS(u)
    \/ \E c \in Clearers :
          \/ ClearMin(c) \/ ClearMax(c) \/ ClearSum(c) \/ ClearCount(c)
          \/ ClearM(c) \/ ClearS(c) \/ ClearSample(c)
    \/ \E r \in Readers :
          (\E op \in Getters : CallGetter(r, op)) \/ CallVariance(r) \/ LoadField(r)

(* Every step of Next is one of these or changes nothing.                  *)
LEMMA NextIsStep == [Next]_vars => Step \/ UNCHANGED vars
BY DEF Next, Step, UpdateStep, ClearStep, GetterStep, Terminated

(* Every variable keeps its type under every step.                         *)
LEMMA TypeStep == TypeOK /\ [Next]_vars => TypeOK'
<1> SUFFICES ASSUME TypeOK, [Next]_vars PROVE TypeOK'
  OBVIOUS
<1>0. Step \/ UNCHANGED vars
  BY NextIsStep
<1> USE NumbersAssumption, ThreadsAssumption
<1> USE DEF TypeOK, FrameType, EmptyFrame, UpdateLabels, ClearLabels, Getters, Threads, Goto
<1>1. CASE UNCHANGED vars
  BY <1>1 DEF vars
<1>2. ASSUME NEW u \in Updaters, NEW v \in Values, SampleUpdate(u, v) PROVE TypeOK'
  <2>1. /\ (past.firstRaced \/ (count = 0 /\ Updating)) \in BOOLEAN
        /\ (past.clearRaced \/ Clearing) \in BOOLEAN
    OBVIOUS
  <2>2. v \in Int /\ v * v \in Int
    OBVIOUS
  <2>3. past' \in PastType
    <3>1. /\ past.begun \cup {v} \in SUBSET Values
          /\ past.total + v \in Int /\ past.squares + v * v \in Int
          /\ past.started + 1 \in 0 .. MaxUpdates /\ past.calls + 1 \in Nat
      BY <1>2, <2>2 DEF SampleUpdate, PastType
    <3> DEFINE p == [past EXCEPT !.started = @ + 1, !.calls = @ + 1,
                       !.begun = @ \cup {v}, !.total = @ + v, !.squares = @ + v * v]
    <3>2. p \in PastType /\ p.firstRaced = past.firstRaced /\ p.clearRaced = past.clearRaced
      BY <3>1 DEF PastType
    <3>3. past' = [p EXCEPT !.firstRaced = @ \/ (count = 0 /\ Updating),
                            !.clearRaced = @ \/ Clearing]
      BY <1>2, <3>2 DEF SampleUpdate
    <3> HIDE DEF p
    <3> QED
      BY <2>1, <3>2, <3>3 DEF PastType
  <2>4. frame' \in [Updaters -> FrameType]
    BY <1>2, <2>2 DEF SampleUpdate
  <2>5. UNCHANGED <<min, max, sum, count, varM, varS, mutex, reading>>
        /\ sampled' = sampled + 1 /\ pc' = [pc EXCEPT ![u] = "loadMax"]
    BY <1>2 DEF SampleUpdate
  <2> QED
    BY <2>3, <2>4, <2>5
<1>3. ASSUME NEW u \in Updaters, LoadMax(u) \/ LoadMin(u) PROVE TypeOK'
  <2>1. CASE LoadMax(u)
    BY <2>1 DEF LoadMax
  <2>2. CASE LoadMin(u)
    BY <2>2 DEF LoadMin
  <2> QED
    BY <1>3, <2>1, <2>2
<1>4. ASSUME NEW u \in Updaters, TestMax(u) \/ SwapMax(u) \/ FailMax(u) PROVE TypeOK'
  BY <1>4 DEF TestMax, SwapMax, FailMax
<1>5. ASSUME NEW u \in Updaters, TestMin(u) \/ SwapMin(u) \/ FailMin(u) PROVE TypeOK'
  BY <1>5 DEF TestMin, SwapMin, FailMin
<1>6. ASSUME NEW u \in Updaters, AddSum(u) PROVE TypeOK'
  BY <1>6, WrapType DEF AddSum
<1>7. ASSUME NEW u \in Updaters, AddCount(u) PROVE TypeOK'
  <2>1. past.counted \cup {frame[u].value} \in SUBSET Int
    BY DEF PastType
  <2> QED
    <3>1. past' \in PastType
      BY <1>7, <2>1 DEF AddCount, PastType
    <3>2. frame' \in [Updaters -> FrameType] /\ count' \in Nat
      BY <1>7 DEF AddCount
    <3> QED
      BY <1>7, <3>1, <3>2 DEF AddCount
<1>8. ASSUME NEW u \in Updaters, LockVariance(u) \/ LoadS(u) PROVE TypeOK'
  <2>1. frame' \in [Updaters -> FrameType]
    BY <1>8 DEF LockVariance, LoadS
  <2>2. CASE LockVariance(u)
    BY <2>1, <2>2 DEF LockVariance
  <2>3. CASE LoadS(u)
    BY <2>1, <2>3 DEF LoadS
  <2> QED
    BY <1>8, <2>2, <2>3
<1>9. ASSUME NEW u \in Updaters, StoreFirstM(u) PROVE TypeOK'
  <2>1. (past.inOrder /\ NextInOrder(u)) \in BOOLEAN
    OBVIOUS
  <2>2. past' \in PastType
    BY <1>9, <2>1 DEF StoreFirstM, PastType
  <2> QED
    BY <1>9, <2>2 DEF StoreFirstM, Return
<1>10. ASSUME NEW u \in Updaters, StoreM(u) PROVE TypeOK'
  <2>1. (past.inOrder /\ NextInOrder(u)) \in BOOLEAN
    OBVIOUS
  <2>2. past' \in PastType
    BY <1>10, <2>1 DEF StoreM, PastType
  <2> QED
    BY <1>10, <2>2 DEF StoreM
<1>11. ASSUME NEW u \in Updaters, StoreS(u) PROVE TypeOK'
  BY <1>11 DEF StoreS, Return
<1>12. ASSUME NEW c \in Clearers, ClearMin(c) PROVE TypeOK'
  <2>1. Updating \in BOOLEAN /\ past.started \in 0 .. MaxUpdates /\ past.clears + 1 \in 0 .. MaxClears
    BY <1>12 DEF ClearMin, PastType, Updating
  <2>2. past' = [begun |-> {}, counted |-> {}, calls |-> 0, total |-> 0, squares |-> 0,
                 firstRaced |-> FALSE, clearRaced |-> Updating, inOrder |-> TRUE,
                 started |-> past.started, clears |-> past.clears + 1]
    BY <1>12 DEF ClearMin, FreshPast
  <2>3. past' \in PastType
    BY <2>1, <2>2 DEF PastType
  <2> QED
    BY <1>12, <2>3 DEF ClearMin
<1>13. ASSUME NEW c \in Clearers,
              \/ ClearMax(c) \/ ClearSum(c) \/ ClearCount(c)
              \/ ClearM(c) \/ ClearS(c) \/ ClearSample(c)
       PROVE  TypeOK'
  BY <1>13 DEF ClearMax, ClearSum, ClearCount, ClearM, ClearS, ClearSample
<1>14. ASSUME NEW r \in Readers, NEW op \in Getters, ReadCount(r, op) PROVE TypeOK'
  <2>1. /\ reading' \in [Readers -> [op : Getters, counted : Nat, loaded : Int]]
        /\ pc' = [pc EXCEPT ![r] = op] \/ pc' = [pc EXCEPT ![r] = "idle"]
    BY <1>14 DEF ReadCount
  <2>2. UNCHANGED <<min, max, sum, count, varM, varS, mutex, sampled, frame, past>>
    BY <1>14 DEF ReadCount
  <2>3. /\ pc' \in [Threads -> UpdateLabels \cup ClearLabels \cup Getters]
        /\ \A q \in Readers : pc'[q] \in Getters \cup {"idle"}
        /\ \A t \in Updaters \cup Clearers : pc'[t] = pc[t]
    <3>1. ASSUME NEW label \in Getters \cup {"idle"}, pc' = [pc EXCEPT ![r] = label]
          PROVE  /\ pc' \in [Threads -> UpdateLabels \cup ClearLabels \cup Getters]
                 /\ \A q \in Readers : pc'[q] \in Getters \cup {"idle"}
      BY <3>1
    <3>2. ASSUME NEW label \in Getters \cup {"idle"}, pc' = [pc EXCEPT ![r] = label]
          PROVE  \A t \in Updaters \cup Clearers : pc'[t] = pc[t]
      BY <3>2
    <3> QED
      BY <2>1, <3>1, <3>2
  <2> QED
    BY <2>1, <2>2, <2>3
<1>15. ASSUME NEW r \in Readers, LoadField(r) PROVE TypeOK'
  BY <1>15 DEF LoadField, Loaded
<1> QED
  BY <1>0, <1>1, <1>2, <1>3, <1>4, <1>5, <1>6, <1>7, <1>8, <1>9, <1>10, <1>11,
     <1>12, <1>13, <1>14, <1>15 DEF Step, CallGetter, CallVariance

----------------------------------------------------------------------------
(* The extremes.                                                           *)

(* Whether a clear() is under way changes by steps of clearers only, and   *)
(* whether an update() is by steps of updaters only.                       *)
LEMMA OthersKeepClearing ==
    ASSUME TypeOK, NEW t \in Updaters \cup Readers, NEW label, pc' = [pc EXCEPT ![t] = label]
    PROVE  Clearing' = Clearing /\ \A c \in Clearers : pc'[c] = pc[c]
BY ThreadsAssumption DEF TypeOK, Threads, Clearing

(* A clear() or a getter that moves leaves the updates where they are.     *)
LEMMA OthersKeepUpdating ==
    ASSUME TypeOK, NEW t \in Clearers \cup Readers, NEW label, pc' = [pc EXCEPT ![t] = label]
    PROVE  Updating' = Updating /\ \A u \in Updaters : pc'[u] = pc[u]
BY ThreadsAssumption DEF TypeOK, Threads, Updating

(* A step of an update() under way moves that thread's pc, keeps begun and *)
(* the race flags, and lets count_ only grow.                              *)
UpdaterMoved(u) ==
    /\ pc[u] # "idle"
    /\ \E label \in UpdateLabels : pc' = [pc EXCEPT ![u] = label]
    /\ past'.begun = past.begun
    /\ past'.firstRaced = past.firstRaced
    /\ past'.clearRaced = past.clearRaced

UpdaterStep(u) ==
    \/ LoadMax(u) \/ LoadMin(u)
    \/ TestMax(u) \/ SwapMax(u) \/ FailMax(u)
    \/ TestMin(u) \/ SwapMin(u) \/ FailMin(u)
    \/ AddSum(u) \/ AddCount(u)
    \/ LockVariance(u) \/ LoadS(u) \/ StoreFirstM(u) \/ StoreM(u) \/ StoreS(u)

(* A step of an update moves that one only.                                *)
LEMMA UpdaterMoves ==
    ASSUME TypeOK, NEW u \in Updaters, UpdaterStep(u)
    PROVE  UpdaterMoved(u)
<1> USE DEF UpdaterMoved, UpdateLabels, Goto, TypeOK, PastType
<1>1. CASE LoadMax(u) \/ LoadMin(u) \/ TestMax(u) \/ SwapMax(u) \/ FailMax(u)
  BY <1>1 DEF LoadMax, LoadMin, TestMax, SwapMax, FailMax
<1>2. CASE TestMin(u) \/ SwapMin(u) \/ FailMin(u) \/ AddSum(u)
  BY <1>2 DEF TestMin, SwapMin, FailMin, AddSum
<1>3. CASE AddCount(u)
  BY <1>3 DEF AddCount
<1>4. CASE LockVariance(u) \/ LoadS(u) \/ StoreS(u)
  BY <1>4 DEF LockVariance, LoadS, StoreS, Return
<1>5. CASE StoreFirstM(u)
  BY <1>5 DEF StoreFirstM, Return
<1>6. CASE StoreM(u)
  BY <1>6 DEF StoreM
<1> QED
  BY <1>1, <1>2, <1>3, <1>4, <1>5, <1>6 DEF UpdaterStep

(* A clear() other than its first store keeps the history.                 *)
ClearerStep(c) ==
    \/ ClearMax(c) \/ ClearSum(c) \/ ClearCount(c)
    \/ ClearM(c) \/ ClearS(c) \/ ClearSample(c)

ReaderStep(r) == \E op \in Getters : ReadCount(r, op) \/ LoadField(r)

(* A reader changes nothing but its own pc and reading.                    *)
LEMMA ReaderMoves ==
    ASSUME TypeOK, NEW r \in Readers, ReaderStep(r)
    PROVE  /\ \E label \in Getters \cup {"idle"} : pc' = [pc EXCEPT ![r] = label]
           /\ UNCHANGED <<min, max, sum, count, sampled, frame, past>>
BY DEF ReaderStep, ReadCount, LoadField, Goto

(* The same steps grouped by the kind of thread.                           *)
LEMMA StepKinds ==
    ASSUME [Next]_vars
    PROVE  \/ UNCHANGED vars
           \/ \E u \in Updaters : (\E v \in Values : SampleUpdate(u, v)) \/ UpdaterStep(u)
           \/ \E c \in Clearers : ClearMin(c) \/ ClearerStep(c)
           \/ \E r \in Readers : ReaderStep(r)
<1>1. Step \/ UNCHANGED vars
  BY NextIsStep
<1>2. ASSUME NEW r \in Readers, CallVariance(r) PROVE ReaderStep(r)
  BY <1>2 DEF CallVariance, ReaderStep, Getters
<1>3. ASSUME NEW r \in Readers, LoadField(r) PROVE ReaderStep(r)
  BY <1>3 DEF ReaderStep, Getters
<1>4. ASSUME NEW r \in Readers, NEW op \in Getters, CallGetter(r, op) PROVE ReaderStep(r)
  BY <1>4 DEF CallGetter, ReaderStep
<1> QED
  BY <1>1, <1>2, <1>3, <1>4 DEF Step, UpdaterStep, ClearerStep

(* ClearInv is inductive.                                                  *)
LEMMA ClearInvStep == TypeOK /\ ClearInv /\ [Next]_vars => ClearInv'
<1> SUFFICES ASSUME TypeOK, ClearInv, [Next]_vars, ~past'.clearRaced, Clearing'
             PROVE  /\ ~Updating' /\ past'.begun = {} /\ past'.counted = {} /\ past'.calls = 0
                    /\ \/ count' = 0
                       \/ \E c \in Clearers : pc'[c] \in {"clearMax", "clearSum", "clearCount"}
  BY DEF ClearInv
<1> USE DEF ClearInv
<1>1. CASE UNCHANGED vars
  BY <1>1 DEF vars, Clearing, Updating
<1>2. ASSUME NEW u \in Updaters, NEW v \in Values, SampleUpdate(u, v) PROVE FALSE
  <2>1. Clearing
    BY <1>2, OthersKeepClearing DEF SampleUpdate, Goto
  <2>2. past'.clearRaced = (past.clearRaced \/ Clearing)
    BY <1>2 DEF SampleUpdate, TypeOK, PastType
  <2> QED
    BY <2>1, <2>2
<1>3. ASSUME NEW u \in Updaters, UpdaterStep(u) PROVE FALSE
  <2>1. UpdaterMoved(u)
    BY <1>3, UpdaterMoves
  <2>2. Clearing
    BY <2>1, OthersKeepClearing DEF UpdaterMoved
  <2> QED
    BY <2>1, <2>2 DEF UpdaterMoved, Updating
<1>4. ASSUME NEW c \in Clearers, ClearMin(c)
      PROVE  /\ ~Updating' /\ past'.begun = {} /\ past'.counted = {} /\ past'.calls = 0
             /\ pc'[c] = "clearMax"
  <2>1. past'.begun = {} /\ past'.counted = {} /\ past'.calls = 0 /\ past'.clearRaced = Updating
    BY <1>4 DEF ClearMin, FreshPast
  <2>2. Updating' = Updating /\ pc'[c] = "clearMax"
    BY <1>4, OthersKeepUpdating DEF ClearMin, Goto, TypeOK, Threads
  <2> QED
    BY <2>1, <2>2
<1>5. ASSUME NEW c \in Clearers, ClearerStep(c)
      PROVE  /\ ~Updating' /\ past'.begun = {} /\ past'.counted = {} /\ past'.calls = 0
             /\ \/ count' = 0
                \/ \E d \in Clearers : pc'[d] \in {"clearMax", "clearSum", "clearCount"}
  <2>1. past' = past /\ Clearing /\ \E label \in ClearLabels : pc' = [pc EXCEPT ![c] = label]
    BY <1>5 DEF ClearerStep, ClearMax, ClearSum, ClearCount, ClearM, ClearS, ClearSample,
       Goto, Clearing, ClearLabels
  <2>2. ~Updating'
    BY <2>1, OthersKeepUpdating
  <2>3. CASE ClearMax(c) \/ ClearSum(c)
    BY <2>1, <2>2, <2>3 DEF ClearMax, ClearSum, Goto, TypeOK, Threads
  <2>4. CASE ClearCount(c)
    BY <2>1, <2>2, <2>4 DEF ClearCount
  <2>5. CASE ClearM(c) \/ ClearS(c) \/ ClearSample(c)
    BY <2>1, <2>2, <2>5 DEF ClearM, ClearS, ClearSample, Goto, TypeOK, Threads
  <2> QED
    BY <1>5, <2>3, <2>4, <2>5 DEF ClearerStep
<1>6. ASSUME NEW r \in Readers, ReaderStep(r)
      PROVE  /\ ~Updating' /\ past'.begun = {} /\ past'.counted = {} /\ past'.calls = 0
             /\ \/ count' = 0
                \/ \E c \in Clearers : pc'[c] \in {"clearMax", "clearSum", "clearCount"}
  <2>1. /\ \E label : pc' = [pc EXCEPT ![r] = label]
        /\ count' = count /\ past' = past
    BY <1>6, ReaderMoves
  <2>2. Clearing' = Clearing /\ Updating' = Updating /\ \A c \in Clearers : pc'[c] = pc[c]
    BY <2>1, OthersKeepClearing, OthersKeepUpdating
  <2> QED
    BY <2>1, <2>2
<1> QED
  BY <1>1, <1>2, <1>3, <1>4, <1>5, <1>6, StepKinds

(* What a completed clear() leaves: nobody updating, nothing counted.      *)
LEMMA ClearEnds ==
    ASSUME TypeOK, ClearInv, NEW c \in Clearers, ClearMin(c) \/ ClearerStep(c), Undisturbed'
    PROVE  /\ ~Updating' /\ count' = 0
           /\ past'.begun = {} /\ past'.counted = {} /\ past'.calls = 0
<1>1. ~Clearing' /\ ~past'.clearRaced
  BY DEF Undisturbed
<1>2. ASSUME ClearMin(c) \/ ClearMax(c) \/ ClearSum(c) \/ ClearCount(c) \/ ClearM(c) \/ ClearS(c)
      PROVE  FALSE
  <2>1. pc'[c] # "idle"
    BY <1>2 DEF ClearMin, ClearMax, ClearSum, ClearCount, ClearM, ClearS, Goto, TypeOK, Threads
  <2> QED
    BY <1>1, <2>1 DEF Clearing
<1>3. ClearSample(c)
  BY <1>2 DEF ClearerStep
<1>4. Clearing /\ past' = past /\ count' = count
  BY <1>3 DEF ClearSample, Clearing
<1>5. ~Updating' /\ past'.begun = {} /\ past'.counted = {} /\ past'.calls = 0
  BY <1>1, <1>3, <1>4, OthersKeepUpdating DEF ClearSample, Goto, ClearInv
<1>6. \A d \in Clearers : pc[d] \notin {"clearMax", "clearSum", "clearCount"}
  <2> SUFFICES ASSUME NEW d \in Clearers, pc[d] \in {"clearMax", "clearSum", "clearCount"}
               PROVE  FALSE
    OBVIOUS
  <2>1. pc'[d] = pc[d]
    BY <1>3 DEF ClearSample, Goto, TypeOK, Threads
  <2> QED
    BY <1>1, <2>1 DEF Clearing
<1> QED
  BY <1>1, <1>4, <1>5, <1>6 DEF ClearInv

(* An undisturbed state after a step of an updater was undisturbed before. *)
LEMMA UndisturbedBefore ==
    ASSUME TypeOK, NEW u \in Updaters,
           UpdaterStep(u) \/ \E v \in Values : SampleUpdate(u, v), Undisturbed'
    PROVE  Undisturbed
<1>1. CASE UpdaterStep(u)
  BY <1>1, UpdaterMoves, OthersKeepClearing DEF UpdaterMoved, Undisturbed
<1>2. ASSUME NEW v \in Values, SampleUpdate(u, v) PROVE Undisturbed
  <2>1. past'.clearRaced = (past.clearRaced \/ Clearing)
    BY <1>2 DEF SampleUpdate, TypeOK, PastType
  <2> QED
    BY <2>1 DEF Undisturbed
<1> QED
  BY <1>1, <1>2

(* SeedInv survives every undisturbed step.                                *)
LEMMA SeedStep ==
    TypeOK /\ ClearInv /\ (Undisturbed => SeedInv) /\ [Next]_vars => (Undisturbed' => SeedInv')
<1> SUFFICES ASSUME TypeOK, ClearInv, Undisturbed => SeedInv, [Next]_vars, Undisturbed'
             PROVE  SeedInv'
  OBVIOUS
<1>t. TypeOK'
  BY TypeStep
<1> USE DEF SeedInv, UpdatersAt
<1>1. CASE UNCHANGED vars
  BY <1>1 DEF vars, Undisturbed, Clearing
<1>2. ASSUME NEW u \in Updaters, NEW v \in Values, SampleUpdate(u, v) PROVE SeedInv'
  <2>1. SeedInv
    BY <1>2, UndisturbedBefore
  <2>2. past'.begun = past.begun \cup {v} /\ past'.counted = past.counted
    BY <1>2 DEF SampleUpdate, TypeOK, PastType
  <2> QED
    BY <1>2, <2>1, <2>2 DEF SampleUpdate, Goto, TypeOK, FrameType, Threads
<1>3. ASSUME NEW u \in Updaters, UpdaterStep(u) PROVE SeedInv'
  <2>1. SeedInv /\ past'.begun = past.begun
    BY <1>3, UndisturbedBefore, UpdaterMoves DEF UpdaterMoved
  <2> USE DEF Goto, TypeOK, FrameType, Threads
  <2>2. CASE LoadMax(u) \/ LoadMin(u)
    BY <2>1, <2>2 DEF LoadMax, LoadMin
  <2>3. CASE TestMax(u)
    <3>1. count = 0 => MaxMustRise(u)
      BY DEF MaxMustRise
    <3> QED
      BY <2>1, <2>3, <3>1 DEF TestMax
  <2>4. CASE SwapMax(u)
    BY <2>1, <2>4 DEF SwapMax
  <2>5. CASE FailMax(u)
    BY <2>1, <2>5 DEF FailMax
  <2>6. CASE TestMin(u)
    <3>1. count = 0 => MinMustFall(u)
      BY DEF MinMustFall
    <3> QED
      BY <2>1, <2>6, <3>1 DEF TestMin
  <2>7. CASE SwapMin(u)
    BY <2>1, <2>7 DEF SwapMin
  <2>8. CASE FailMin(u)
    BY <2>1, <2>8 DEF FailMin
  <2>9. CASE AddSum(u)
    BY <2>1, <2>9 DEF AddSum
  <2>10. CASE AddCount(u)
    <3>1. past'.counted = past.counted \cup {frame[u].value}
      BY <2>10 DEF AddCount, PastType
    <3>2. frame'[u].value = frame[u].value
      BY <2>10 DEF AddCount
    <3> QED
      BY <2>1, <2>10, <3>1, <3>2 DEF AddCount
  <2>11. CASE LockVariance(u) \/ LoadS(u)
    BY <2>1, <2>11 DEF LockVariance, LoadS
  <2>12. CASE StoreFirstM(u)
    <3>1. past'.counted = past.counted
      BY <2>12 DEF StoreFirstM, PastType
    <3> QED
      BY <2>1, <2>12, <3>1 DEF StoreFirstM, Return
  <2>13. CASE StoreM(u)
    <3>1. past'.counted = past.counted
      BY <2>13 DEF StoreM, PastType
    <3> QED
      BY <2>1, <2>13, <3>1 DEF StoreM
  <2>14. CASE StoreS(u)
    BY <2>1, <2>14 DEF StoreS, Return
  <2> QED
    BY <1>3, <2>2, <2>3, <2>4, <2>5, <2>6, <2>7, <2>8, <2>9, <2>10, <2>11,
       <2>12, <2>13, <2>14 DEF UpdaterStep
<1>4. ASSUME NEW c \in Clearers, ClearMin(c) \/ ClearerStep(c) PROVE SeedInv'
  BY <1>4, ClearEnds DEF Updating
<1>5. ASSUME NEW r \in Readers, ReaderStep(r) PROVE SeedInv'
  BY <1>5, ReaderMoves, OthersKeepClearing, OthersKeepUpdating DEF Undisturbed
<1> QED
  BY <1>1, <1>2, <1>3, <1>4, <1>5, StepKinds

(* The conjunct of ExtremesInv for histories without a race of first calls.*)
Quiet == Undisturbed /\ ~past.firstRaced
CalmInv == FirstAloneInv /\ MaxInv /\ MinInv

(* A call that begins without a race finds the others out of update() or   *)
(* the histogram not empty.                                                *)
LEMMA CalmBegin ==
    ASSUME TypeOK, Quiet => CalmInv, NEW u \in Updaters, NEW v \in Values,
           SampleUpdate(u, v), Quiet'
    PROVE  CalmInv'
<1>1. past'.firstRaced = (past.firstRaced \/ (count = 0 /\ Updating))
  BY DEF SampleUpdate, TypeOK, PastType
<1>2. ~past.firstRaced /\ (count = 0 => ~Updating)
  BY <1>1 DEF Quiet
<1>3. CalmInv
  BY <1>2, UndisturbedBefore DEF Quiet
<1>4. past'.counted = past.counted
  BY DEF SampleUpdate, TypeOK, PastType
<1>5. /\ pc' = [pc EXCEPT ![u] = "loadMax"] /\ pc[u] = "idle"
      /\ frame' = [frame EXCEPT ![u].value = v]
      /\ UNCHANGED <<min, max, count>>
  BY DEF SampleUpdate, Goto
<1> USE DEF TypeOK, Threads, CalmInv
<1>6. FirstAloneInv'
  BY <1>2, <1>3, <1>5 DEF FirstAloneInv, Updating, BeforeCount
<1>7. MaxInv'
  BY <1>3, <1>4, <1>5 DEF MaxInv
<1>8. MinInv'
  BY <1>3, <1>4, <1>5 DEF MinInv
<1> QED
  BY <1>6, <1>7, <1>8

(* The first call stays alone: only ++count_ ends that.                    *)
LEMMA FirstAloneStep ==
    ASSUME TypeOK, FirstAloneInv, NEW u \in Updaters, UpdaterStep(u)
    PROVE  FirstAloneInv'
<1> USE DEF FirstAloneInv, BeforeCount, TypeOK, Threads, Goto
<1>1. CASE AddCount(u)
  BY <1>1 DEF AddCount
<1>2. CASE LoadMax(u) \/ LoadMin(u) \/ TestMax(u) \/ SwapMax(u) \/ FailMax(u)
  BY <1>2 DEF LoadMax, LoadMin, TestMax, SwapMax, FailMax
<1>3. CASE TestMin(u) \/ SwapMin(u) \/ FailMin(u) \/ AddSum(u)
  BY <1>3 DEF TestMin, SwapMin, FailMin, AddSum
<1>4. CASE LockVariance(u) \/ LoadS(u)
  BY <1>4 DEF LockVariance, LoadS
<1>5. CASE StoreFirstM(u)
  BY <1>5 DEF StoreFirstM
<1>6. CASE StoreM(u) \/ StoreS(u)
  BY <1>6 DEF StoreM, StoreS
<1> QED
  BY <1>1, <1>2, <1>3, <1>4, <1>5, <1>6 DEF UpdaterStep

(* What update() knows of the maximum is kept by every step of it: on a    *)
(* histogram that is not empty max_ only rises, and on an empty one the    *)
(* stepping thread is the only one.                                        *)
LEMMA MaxStep ==
    ASSUME TypeOK, FirstAloneInv, SeedInv, MaxInv, NEW u \in Updaters, UpdaterStep(u)
    PROVE  MaxInv'
<1> USE DEF MaxInv, TypeOK, FrameType, Threads, Goto
<1>1. CASE LoadMax(u)
  BY <1>1 DEF LoadMax
<1>2. CASE LoadMin(u)
  BY <1>2 DEF LoadMin
<1>3. CASE TestMax(u)
  BY <1>3 DEF TestMax, MaxMustRise
<1>4. CASE SwapMax(u)
  <2>1. CASE count = 0
    <3>1. past.counted = {} /\ \A w \in Updaters : w # u => pc[w] = "idle"
      BY <1>4, <2>1 DEF SeedInv, FirstAloneInv, SwapMax
    <3> QED
      BY <1>4, <2>1, <3>1 DEF SwapMax
  <2>2. CASE count > 0
    <3>1. max < max' /\ max' = frame[u].value
      BY <1>4, <2>2 DEF SwapMax
    <3> QED
      BY <1>4, <2>2, <3>1 DEF SwapMax, PastType
  <2> QED
    BY <2>1, <2>2
<1>5. CASE FailMax(u)
  BY <1>5 DEF FailMax
<1>6. CASE TestMin(u) \/ SwapMin(u) \/ AddSum(u)
  BY <1>6 DEF TestMin, SwapMin, AddSum
<1>7. CASE FailMin(u)
  BY <1>7 DEF FailMin
<1>8. CASE AddCount(u)
  <2>1. past'.counted = past.counted \cup {frame[u].value}
    BY <1>8 DEF AddCount, PastType
  <2>2. frame[u].value <= max
    BY <1>8 DEF AddCount
  <2>3. count = 0 => \A w \in Updaters : w # u => pc[w] = "idle"
    BY <1>8 DEF FirstAloneInv, AddCount
  <2> QED
    BY <1>8, <2>1, <2>2, <2>3 DEF AddCount
<1>9. CASE LockVariance(u) \/ LoadS(u)
  BY <1>9 DEF LockVariance, LoadS
<1>10. CASE StoreFirstM(u)
  <2>1. past'.counted = past.counted
    BY <1>10 DEF StoreFirstM, PastType
  <2> QED
    BY <1>10, <2>1 DEF StoreFirstM, Return
<1>11. CASE StoreM(u)
  <2>1. past'.counted = past.counted
    BY <1>11 DEF StoreM, PastType
  <2> QED
    BY <1>11, <2>1 DEF StoreM
<1>12. CASE StoreS(u)
  BY <1>12 DEF StoreS, Return
<1> QED
  BY <1>1, <1>2, <1>3, <1>4, <1>5, <1>6, <1>7, <1>8, <1>9, <1>10, <1>11, <1>12 DEF UpdaterStep

(* The same for the minimum.                                               *)
LEMMA MinStep ==
    ASSUME TypeOK, FirstAloneInv, SeedInv, MinInv, NEW u \in Updaters, UpdaterStep(u)
    PROVE  MinInv'
<1> USE DEF MinInv, TypeOK, FrameType, Threads, Goto
<1>1. CASE LoadMax(u)
  BY <1>1 DEF LoadMax
<1>2. CASE LoadMin(u)
  BY <1>2 DEF LoadMin
<1>3. CASE TestMax(u) \/ SwapMax(u) \/ AddSum(u)
  BY <1>3 DEF TestMax, SwapMax, AddSum
<1>4. CASE FailMax(u)
  BY <1>4 DEF FailMax
<1>5. CASE TestMin(u)
  BY <1>5 DEF TestMin, MinMustFall
<1>6. CASE SwapMin(u)
  <2>1. CASE count = 0
    <3>1. past.counted = {} /\ \A w \in Updaters : w # u => pc[w] = "idle"
      BY <1>6, <2>1 DEF SeedInv, FirstAloneInv, SwapMin
    <3> QED
      BY <1>6, <2>1, <3>1 DEF SwapMin
  <2>2. CASE count > 0
    <3>1. min' < min /\ min' = frame[u].value
      BY <1>6, <2>2 DEF SwapMin
    <3> QED
      BY <1>6, <2>2, <3>1 DEF SwapMin, PastType
  <2> QED
    BY <2>1, <2>2
<1>7. CASE FailMin(u)
  BY <1>7 DEF FailMin
<1>8. CASE AddCount(u)
  <2>1. past'.counted = past.counted \cup {frame[u].value}
    BY <1>8 DEF AddCount, PastType
  <2>2. min <= frame[u].value
    BY <1>8 DEF AddCount
  <2>3. count = 0 => \A w \in Updaters : w # u => pc[w] = "idle"
    BY <1>8 DEF FirstAloneInv, AddCount
  <2> QED
    BY <1>8, <2>1, <2>2, <2>3 DEF AddCount
<1>9. CASE LockVariance(u) \/ LoadS(u)
  BY <1>9 DEF LockVariance, LoadS
<1>10. CASE StoreFirstM(u)
  <2>1. past'.counted = past.counted
    BY <1>10 DEF StoreFirstM, PastType
  <2> QED
    BY <1>10, <2>1 DEF StoreFirstM, Return
<1>11. CASE StoreM(u)
  <2>1. past'.counted = past.counted
    BY <1>11 DEF StoreM, PastType
  <2> QED
    BY <1>11, <2>1 DEF StoreM
<1>12. CASE StoreS(u)
  BY <1>12 DEF StoreS, Return
<1> QED
  BY <1>1, <1>2, <1>3, <1>4, <1>5, <1>6, <1>7, <1>8, <1>9, <1>10, <1>11, <1>12 DEF UpdaterStep

(* CalmInv survives every undisturbed step without a race of first calls.  *)
LEMMA CalmStep ==
    ASSUME TypeOK, ClearInv, Undisturbed => SeedInv, Quiet => CalmInv, [Next]_vars, Quiet'
    PROVE  CalmInv'
<1>t. TypeOK'
  BY TypeStep
<1>1. CASE UNCHANGED vars
  BY <1>1 DEF vars, Quiet, CalmInv, Undisturbed, Clearing, FirstAloneInv, MaxInv, MinInv
<1>2. ASSUME NEW u \in Updaters, NEW v \in Values, SampleUpdate(u, v) PROVE CalmInv'
  BY <1>2, CalmBegin
<1>3. ASSUME NEW u \in Updaters, UpdaterStep(u) PROVE CalmInv'
  <2>1. Undisturbed /\ ~past.firstRaced
    BY <1>3, UndisturbedBefore, UpdaterMoves DEF Quiet, UpdaterMoved
  <2> QED
    BY <1>3, <2>1, FirstAloneStep, MaxStep, MinStep DEF Quiet, CalmInv
<1>4. ASSUME NEW c \in Clearers, ClearMin(c) \/ ClearerStep(c) PROVE CalmInv'
  <2>1. ~Updating' /\ count' = 0 /\ past'.counted = {}
    BY <1>4, ClearEnds DEF Quiet
  <2>2. \A u \in Updaters : pc'[u] = "idle"
    BY <2>1 DEF Updating
  <2> QED
    BY <2>1, <2>2 DEF CalmInv, FirstAloneInv, MaxInv, MinInv, BeforeCount
<1>5. ASSUME NEW r \in Readers, ReaderStep(r) PROVE CalmInv'
  <2>1. /\ UNCHANGED <<min, max, count, frame, past>>
        /\ Clearing' = Clearing /\ \A u \in Updaters : pc'[u] = pc[u]
    BY <1>5, ReaderMoves, OthersKeepClearing, OthersKeepUpdating
  <2>2. CalmInv
    BY <2>1 DEF Quiet, Undisturbed
  <2> QED
    BY <2>1, <2>2 DEF CalmInv, FirstAloneInv, MaxInv, MinInv
<1> QED
  BY <1>1, <1>2, <1>3, <1>4, <1>5, StepKinds

(* The initial state satisfies the invariant.                              *)
LEMMA ExtremesInit == Init => ExtremesInv
<1> SUFFICES ASSUME Init PROVE ExtremesInv
  OBVIOUS
<1> USE NumbersAssumption, ThreadsAssumption DEF Init
<1>1. TypeOK
  <2>1. past \in PastType
    BY DEF FreshPast, PastType
  <2> QED
    BY <2>1 DEF TypeOK, FrameType, EmptyFrame, UpdateLabels, ClearLabels, Getters, Threads
<1>2. ClearInv
  BY DEF ClearInv, Clearing, Threads
<1>3. SeedInv
  BY DEF SeedInv, UpdatersAt, FreshPast, Threads
<1>4. FirstAloneInv /\ MaxInv /\ MinInv
  BY DEF FirstAloneInv, MaxInv, MinInv, FreshPast, Threads
<1> QED
  BY <1>1, <1>2, <1>3, <1>4 DEF ExtremesInv

(* ExtremesInv holds in every reachable state of any instance.             *)
THEOREM ExtremesInvHolds == Spec => []ExtremesInv
<1>1. ExtremesInv /\ [Next]_vars => ExtremesInv'
  BY TypeStep, ClearInvStep, SeedStep, CalmStep DEF ExtremesInv, Quiet, CalmInv
<1> QED
  BY <1>1, ExtremesInit, PTL DEF Spec

(* Every variable keeps its type, and sum_ stays within its word.          *)
THEOREM TypeCorrect == Spec => []TypeOK
<1>1. ExtremesInv => TypeOK
  BY DEF ExtremesInv
<1> QED
  BY <1>1, ExtremesInvHolds, PTL

(* min() and max() are values passed to update() and bound every value     *)
(* counted, in every interleaving without a race of first calls.           *)
THEOREM ExtremesExactHolds == Spec => []ExtremesExact
<1>1. ExtremesInv => ExtremesExact
  BY DEF ExtremesInv, ExtremesExact, SeedInv, MaxInv, MinInv
<1> QED
  BY <1>1, ExtremesInvHolds, PTL

(* With such a race they are still values passed to update().              *)
THEOREM ExtremesRecordedHolds == Spec => []ExtremesRecorded
<1>1. ExtremesInv => ExtremesRecorded
  BY DEF ExtremesInv, ExtremesRecorded, SeedInv
<1> QED
  BY <1>1, ExtremesInvHolds, PTL

(* Once something is counted no step of any thread lowers the maximum or   *)
(* raises the minimum.                                                     *)
THEOREM ExtremesMonotoneHolds == Spec => ExtremesMonotone
<1> DEFINE Kept == count > 0 /\ Undisturbed /\ Undisturbed' /\ ~past.firstRaced
                     => max' >= max /\ min' <= min
<1>1. ExtremesInv /\ [Next]_vars => [Kept]_vars
  <2> SUFFICES ASSUME ExtremesInv, [Next]_vars, count > 0, Undisturbed, Undisturbed',
                      ~past.firstRaced
               PROVE  max' >= max /\ min' <= min
    OBVIOUS
  <2>0. TypeOK /\ ClearInv /\ MaxInv /\ MinInv
    BY DEF ExtremesInv
  <2> USE DEF TypeOK
  <2>1. CASE UNCHANGED vars
    BY <2>0, <2>1 DEF vars
  <2>2. ASSUME NEW u \in Updaters, NEW v \in Values, SampleUpdate(u, v)
        PROVE  max' >= max /\ min' <= min
    BY <2>0, <2>2 DEF SampleUpdate
  <2>3. ASSUME NEW u \in Updaters, UpdaterStep(u) PROVE max' >= max /\ min' <= min
    <3>1. CASE SwapMax(u)
      BY <2>0, <3>1 DEF SwapMax, MaxInv, FrameType
    <3>2. CASE SwapMin(u)
      BY <2>0, <3>2 DEF SwapMin, MinInv, FrameType
    <3>3. CASE ~SwapMax(u) /\ ~SwapMin(u)
      BY <2>0, <2>3, <3>3 DEF UpdaterStep, LoadMax, LoadMin, TestMax, FailMax, TestMin, FailMin,
         AddSum, AddCount, LockVariance, LoadS, StoreFirstM, StoreM, StoreS
    <3> QED
      BY <3>1, <3>2, <3>3
  <2>4. ASSUME NEW c \in Clearers, ClearMin(c) PROVE FALSE
    BY <2>0, <2>4 DEF ClearMin, Goto, Threads, Undisturbed, Clearing
  <2>5. ASSUME NEW c \in Clearers, ClearerStep(c) PROVE FALSE
    BY <2>0, <2>5 DEF ClearerStep, ClearMax, ClearSum, ClearCount, ClearM, ClearS, ClearSample,
       Undisturbed, Clearing
  <2>6. ASSUME NEW r \in Readers, ReaderStep(r) PROVE max' >= max /\ min' <= min
    BY <2>0, <2>6, ReaderMoves
  <2> QED
    BY <2>1, <2>2, <2>3, <2>4, <2>5, <2>6, StepKinds
<1> QED
  BY <1>1, ExtremesInvHolds, PTL DEF Spec, ExtremesMonotone

----------------------------------------------------------------------------
(* The count.                                                              *)

(* The calls not yet counted are finitely many.                            *)
LEMMA UncountedFinite == IsFiniteSet(Uncounted)
BY ThreadsAssumption, FS_Subset DEF Uncounted, UpdatersAt

(* Every step keeps the count equal to the calls begun less those that did *)
(* not reach ++count_.                                                     *)
LEMMA CountStep ==
    ASSUME TypeOK, ClearInv, Undisturbed => CountExact, [Next]_vars, Undisturbed'
    PROVE  CountExact'
<1> USE DEF CountExact
<1>f. IsFiniteSet(Uncounted) /\ Cardinality(Uncounted) \in Nat
  BY UncountedFinite, FS_CardinalityType
<1>1. CASE UNCHANGED vars
  BY <1>1 DEF vars, Undisturbed, Clearing, Uncounted, UpdatersAt
<1>2. ASSUME NEW u \in Updaters, NEW v \in Values, SampleUpdate(u, v) PROVE CountExact'
  <2>1. Uncounted' = Uncounted \cup {u} /\ u \notin Uncounted
    BY <1>2 DEF SampleUpdate, Goto, Uncounted, UpdatersAt, BeforeCount, TypeOK, Threads
  <2>2. Cardinality(Uncounted') = Cardinality(Uncounted) + 1
    BY <1>f, <2>1, FS_AddElement
  <2>3. past'.calls = past.calls + 1 /\ count' = count
    BY <1>2 DEF SampleUpdate, TypeOK, PastType
  <2> QED
    BY <1>2, <1>f, <2>2, <2>3, UndisturbedBefore DEF TypeOK, PastType
<1>3. ASSUME NEW u \in Updaters, UpdaterStep(u) PROVE CountExact'
  <2>0. CountExact
    BY <1>3, UndisturbedBefore
  <2> USE DEF Goto, Uncounted, UpdatersAt, BeforeCount, TypeOK, Threads
  <2>1. CASE AddCount(u)
    <3>1. Uncounted' = Uncounted \ {u} /\ u \in Uncounted
      BY <2>1 DEF AddCount
    <3> HIDE DEF Uncounted
    <3>2. Cardinality(Uncounted') = Cardinality(Uncounted) - 1
      BY <1>f, <3>1, FS_RemoveElement
    <3>3. past'.calls = past.calls /\ count' = count + 1
      BY <2>1 DEF AddCount, PastType
    <3> QED
      BY <1>f, <2>0, <3>2, <3>3 DEF PastType
  <2>2. CASE ~AddCount(u)
    <3>1. Uncounted' = Uncounted /\ count' = count
      BY <1>3, <2>2 DEF UpdaterStep, LoadMax, LoadMin, TestMax, SwapMax, FailMax, TestMin, SwapMin,
         FailMin, AddSum, LockVariance, LoadS, StoreFirstM, StoreM, StoreS, Return
    <3>2. past'.calls = past.calls
      BY <1>3, <2>2 DEF UpdaterStep, LoadMax, LoadMin, TestMax, SwapMax, FailMax, TestMin, SwapMin,
         FailMin, AddSum, LockVariance, LoadS, StoreFirstM, StoreM, StoreS, PastType
    <3> QED
      BY <2>0, <3>1, <3>2
  <2> QED
    BY <2>1, <2>2
<1>4. ASSUME NEW c \in Clearers, ClearMin(c) \/ ClearerStep(c) PROVE CountExact'
  <2>1. ~Updating' /\ count' = 0 /\ past'.calls = 0
    BY <1>4, ClearEnds
  <2>2. Uncounted' = {}
    BY <2>1 DEF Updating, Uncounted, UpdatersAt, BeforeCount
  <2> QED
    BY <2>1, <2>2, FS_EmptySet
<1>5. ASSUME NEW r \in Readers, ReaderStep(r) PROVE CountExact'
  <2>1. /\ UNCHANGED <<count, past>>
        /\ Clearing' = Clearing /\ \A u \in Updaters : pc'[u] = pc[u]
    BY <1>5, ReaderMoves, OthersKeepClearing, OthersKeepUpdating
  <2> QED
    BY <2>1 DEF Undisturbed, Uncounted, UpdatersAt
<1> QED
  BY <1>1, <1>2, <1>3, <1>4, <1>5, StepKinds

(* No call of update() is lost or counted twice by count_, at any moment   *)
(* and whatever the interleaving, unless it meets clear().                 *)
THEOREM CountExactHolds == Spec => [](Undisturbed => CountExact)
<1>1. Init => (Undisturbed => CountExact)
  <2> SUFFICES ASSUME Init PROVE CountExact
    OBVIOUS
  <2>1. Uncounted = {} /\ count = 0 /\ past.calls = 0
    BY DEF Init, FreshPast, Uncounted, UpdatersAt, BeforeCount, Threads
  <2> QED
    BY <2>1, FS_EmptySet DEF CountExact
<1>2. ExtremesInv /\ (Undisturbed => CountExact) /\ [Next]_vars => (Undisturbed => CountExact)'
  BY CountStep DEF ExtremesInv
<1> QED
  BY <1>1, <1>2, ExtremesInvHolds, PTL DEF Spec

----------------------------------------------------------------------------
(* What MapThenSumSet computes: its recursive function exists, is unique,  *)
(* and the sum it takes in some order may be taken in any.                 *)

(* A set of subsets of a finite set has a least one.                       *)
LEMMA MinimalSubset ==
    ASSUME NEW S, IsFiniteSet(S), NEW T \in SUBSET SUBSET S, T # {}
    PROVE  \E U \in T : \A V \in T : V \subseteq U => V = U
<1>1. IsWellFoundedOn(StrictSubsetOrdering(S), SUBSET S)
  BY FS_FiniteSubsetsOfFinite, FS_StrictSubsetOrderingWellFounded, Zenon
<1>2. PICK U \in T : \A V \in T : ~(<<V, U>> \in StrictSubsetOrdering(S))
  BY <1>1, WFMin, Zenon
<1>3. ASSUME NEW V \in T, V \subseteq U, V # U PROVE FALSE
  BY <1>2, <1>3, Zenon DEF StrictSubsetOrdering
<1> QED
  BY <1>3, Zenon

(* A set of numbers has a least one.                                       *)
LEMMA LeastNatural ==
    ASSUME NEW N \in SUBSET Nat, N # {}
    PROVE  \E n \in N : \A m \in N : n <= m
<1> DEFINE R == OpToRel(<, Nat)
<1>0. IsWellFoundedOn(R, Nat)
  BY NatLessThanWellFounded
<1> HIDE DEF R
<1>1. PICK n \in N : \A m \in N : ~(<<m, n>> \in R)
  BY <1>0, WFMin, Zenon
<1>2. ASSUME NEW m \in N PROVE n <= m
  <2>1. m \in Nat /\ n \in Nat /\ <<m, n>> \in Nat \X Nat
    OBVIOUS
  <2>2. <<m, n>> \in R <=> m < n
    BY <2>1 DEF OpToRel, R
  <2> QED
    BY <1>1, <2>1, <2>2, SMT
<1> QED
  BY <1>2

Any(s) == CHOOSE x \in s : TRUE

(* The element a sum takes first is one of the set.                        *)
LEMMA AnyIsOne == ASSUME NEW s, s # {} PROVE Any(s) \in s
BY DEF Any

(* g adds up the values of every subset of T in the order MapThenSumSet    *)
(* takes them.                                                             *)
Adds(g, fr, T) ==
    g = [s \in SUBSET T |-> IF s = {} THEN 0 ELSE fr[Any(s)].value + g[s \ {Any(s)}]]

(* One step of the recursion of a sum, and its end.                        *)
LEMMA AddsTerm ==
    ASSUME NEW T, NEW fr, NEW g, Adds(g, fr, T), NEW s \in SUBSET T, s # {}
    PROVE  /\ g[s] = fr[Any(s)].value + g[s \ {Any(s)}]
           /\ Any(s) \in s /\ s \ {Any(s)} \in SUBSET T
BY AnyIsOne DEF Adds

LEMMA AddsNothing == ASSUME NEW T, NEW fr, NEW g, Adds(g, fr, T) PROVE g[{}] = 0
BY DEF Adds

(* The recursion has a solution: take the least size for which not.        *)
LEMMA AddsExists ==
    ASSUME NEW T, IsFiniteSet(T), NEW fr PROVE \E g : Adds(g, fr, T)
<1> DEFINE Upto(g, n) ==
      /\ g = [s \in SUBSET T |-> g[s]]
      /\ \A s \in SUBSET T : Cardinality(s) <= n =>
            g[s] = IF s = {} THEN 0 ELSE fr[Any(s)].value + g[s \ {Any(s)}]
    N == {n \in Nat : ~ \E g : Upto(g, n)}
<1>0. \A s \in SUBSET T : IsFiniteSet(s) /\ Cardinality(s) \in Nat /\ Cardinality(s) <= Cardinality(T)
  BY FS_Subset, FS_CardinalityType
<1>1. ASSUME NEW s \in SUBSET T, s # {}
      PROVE  s \ {Any(s)} \in SUBSET T /\ Cardinality(s \ {Any(s)}) = Cardinality(s) - 1
  BY <1>0, <1>1, AnyIsOne, FS_RemoveElement
<1>2. ASSUME N # {} PROVE FALSE
  <2>1. PICK n \in N : \A m \in N : n <= m
    <3>1. N \in SUBSET Nat
      OBVIOUS
    <3> HIDE DEF N
    <3> QED
      BY <3>1, <1>2, LeastNatural
  <2>2. CASE n = 0
    <3> DEFINE g == [s \in SUBSET T |-> 0]
    <3>1. Upto(g, 0)
      <4> SUFFICES ASSUME NEW s \in SUBSET T, Cardinality(s) <= 0 PROVE s = {}
        OBVIOUS
      <4> QED
        BY <1>0, FS_EmptySet
    <3> HIDE DEF g, Upto
    <3> QED
      BY <2>1, <2>2, <3>1
  <2>3. CASE n > 0
    <3>1. n - 1 \in Nat /\ n - 1 \notin N
      <4> HIDE DEF Upto
      <4> QED
        BY <2>1, <2>3
    <3>2. PICK g : Upto(g, n - 1)
      BY <3>1
    <3> DEFINE h == [s \in SUBSET T |->
                       IF Cardinality(s) <= n - 1 THEN g[s]
                       ELSE fr[Any(s)].value + g[s \ {Any(s)}]]
    <3>3. ASSUME NEW s \in SUBSET T, Cardinality(s) <= n
          PROVE  h[s] = IF s = {} THEN 0 ELSE fr[Any(s)].value + h[s \ {Any(s)}]
      <4>1. CASE s = {}
        <5>1. Cardinality(s) = 0
          BY <4>1, FS_EmptySet
        <5> QED
          <6>1. h[s] = g[s]
            BY <5>1, <2>3
          <6>2. g[s] = 0
            <7>1. Cardinality(s) <= n - 1
              BY <5>1, <2>3
            <7> HIDE DEF N, h
            <7> QED
              BY <3>2, <4>1, <7>1
          <6> HIDE DEF h
          <6> QED
            BY <4>1, <6>1, <6>2
      <4>2. CASE s # {}
        <5>1. s \ {Any(s)} \in SUBSET T /\ Cardinality(s \ {Any(s)}) = Cardinality(s) - 1
          BY <1>1, <4>2
        <5>2. Cardinality(s) \in Nat /\ Cardinality(s \ {Any(s)}) <= n - 1
          BY <1>0, <3>3, <5>1
        <5>3. h[s \ {Any(s)}] = g[s \ {Any(s)}]
          BY <5>1, <5>2
        <5>4. h[s] = fr[Any(s)].value + g[s \ {Any(s)}]
          <6>1. CASE Cardinality(s) <= n - 1
            BY <3>2, <4>2, <6>1
          <6>2. CASE ~(Cardinality(s) <= n - 1)
            BY <6>2
          <6> QED
            BY <6>1, <6>2
        <5> HIDE DEF h
        <5> QED
          BY <4>2, <5>3, <5>4
      <4> QED
        BY <4>1, <4>2
    <3>4. Upto(h, n)
      BY <3>3
    <3> HIDE DEF h, Upto
    <3> QED
      BY <2>1, <3>4
  <2> QED
    BY <2>1, <2>2, <2>3
<1>3. Cardinality(T) \in Nat
  BY FS_CardinalityType
<1>4. PICK g : Upto(g, Cardinality(T))
  BY <1>2, <1>3
<1>5. ASSUME NEW s \in SUBSET T
      PROVE  g[s] = IF s = {} THEN 0 ELSE fr[Any(s)].value + g[s \ {Any(s)}]
  BY <1>0, <1>4
<1>6. g = [s \in SUBSET T |-> g[s]]
  BY <1>4
<1>7. Adds(g, fr, T)
  BY <1>5, <1>6 DEF Adds
<1> QED
  BY <1>7

(* What Carried adds up is such a solution.                                *)
LEMMA CarriedIs ==
    ASSUME NEW S, IsFiniteSet(S), NEW fr
    PROVE  \E g : Adds(g, fr, S) /\ Carried(fr, S) = g[S]
<1> DEFINE g == CHOOSE h : Adds(h, fr, S)
<1>1. Adds(g, fr, S)
  BY AddsExists
<1>2. Carried(fr, S) = g[S]
  BY DEF Carried, MapThenSumSet, MapThenFoldSet, Adds, Any
<1> HIDE DEF g
<1> QED
  BY <1>1, <1>2

(* Sums of integers are integers.                                          *)
Valued(fr, T) == IsFiniteSet(T) /\ \A x \in T : fr[x].value \in Int

(* Sums of integers are integers.                                          *)
LEMMA AddsInt ==
    ASSUME NEW T, NEW fr, Valued(fr, T), NEW g, Adds(g, fr, T)
    PROVE  \A s \in SUBSET T : g[s] \in Int
<1> DEFINE P == {s \in SUBSET T : g[s] \notin Int}
<1>1. ASSUME P # {} PROVE FALSE
  <2>1. PICK s \in P : \A r \in P : r \subseteq s => r = s
    <3>1. P \in SUBSET SUBSET T /\ IsFiniteSet(T)
      BY DEF Valued
    <3> HIDE DEF P
    <3> QED
      BY ONLY <3>1, <1>1, MinimalSubset, SMT
  <2>2. s # {}
    BY AddsNothing
  <2>3. g[s] = fr[Any(s)].value + g[s \ {Any(s)}] /\ Any(s) \in s /\ s \ {Any(s)} \in SUBSET T
    BY <2>2, AddsTerm
  <2>4. s \ {Any(s)} \notin P
    BY <2>1, <2>3
  <2> QED
    BY <2>1, <2>3, <2>4 DEF Valued
<1> QED
  BY <1>1

(* The sum of a set does not depend on what is outside it.                 *)
LEMMA AddsUnique ==
    ASSUME NEW T, IsFiniteSet(T), NEW fr, NEW g, Adds(g, fr, T),
           NEW S \in SUBSET T, NEW gr, NEW h, Adds(h, gr, S),
           \A x \in S : fr[x].value = gr[x].value
    PROVE  \A s \in SUBSET S : g[s] = h[s]
<1> DEFINE P == {s \in SUBSET S : g[s] # h[s]}
<1>1. ASSUME P # {} PROVE FALSE
  <2>1. PICK s \in P : \A r \in P : r \subseteq s => r = s
    <3>1. P \in SUBSET SUBSET S /\ IsFiniteSet(S)
      BY FS_Subset
    <3> HIDE DEF P
    <3> QED
      BY ONLY <3>1, <1>1, MinimalSubset, SMT
  <2>2. s # {}
    BY AddsNothing
  <2>0. s \in SUBSET T /\ s \in SUBSET S
    OBVIOUS
  <2>3. g[s] = fr[Any(s)].value + g[s \ {Any(s)}] /\ Any(s) \in s /\ s \ {Any(s)} \in SUBSET S
    <3>1. g[s] = fr[Any(s)].value + g[s \ {Any(s)}]
      BY ONLY <2>0, <2>2, Adds(g, fr, T) DEF Adds
    <3>2. Any(s) \in s
      BY <2>2, AnyIsOne
    <3> QED
      BY <2>0, <3>1, <3>2
  <2>4. h[s] = gr[Any(s)].value + h[s \ {Any(s)}]
    BY ONLY <2>0, <2>2, Adds(h, gr, S) DEF Adds
  <2>5. s \ {Any(s)} \notin P
    BY <2>1, <2>3
  <2> QED
    BY <2>1, <2>3, <2>4, <2>5
<1> QED
  BY <1>1

(* Any element may be taken off first.                                     *)
LEMMA AddsAny ==
    ASSUME NEW T, NEW fr, Valued(fr, T), NEW g, Adds(g, fr, T)
    PROVE  \A s \in SUBSET T : \A x \in s : g[s] = fr[x].value + g[s \ {x}]
<1> DEFINE P == {s \in SUBSET T : \E x \in s : g[s] # fr[x].value + g[s \ {x}]}
<1>1. ASSUME P # {} PROVE FALSE
  <2>1. PICK s \in P : \A r \in P : r \subseteq s => r = s
    <3>1. P \in SUBSET SUBSET T /\ IsFiniteSet(T)
      BY DEF Valued
    <3> HIDE DEF P
    <3> QED
      BY ONLY <3>1, <1>1, MinimalSubset, SMT
  <2>2. PICK x \in s : g[s] # fr[x].value + g[s \ {x}]
    BY <2>1
  <2> DEFINE c == Any(s)
  <2>3. g[s] = fr[c].value + g[s \ {c}] /\ c \in s /\ s \ {c} \in SUBSET T
    <3>1. s \in SUBSET T /\ s # {}
      BY <2>2
    <3> QED
      BY ONLY <3>1, Adds(g, fr, T), AddsTerm
  <2> HIDE DEF c
  <2>4. c # x
    BY <2>2, <2>3
  <2>5. s \ {c} \notin P /\ x \in s \ {c}
    BY <2>1, <2>2, <2>3, <2>4
  <2>6. g[s \ {c}] = fr[x].value + g[(s \ {c}) \ {x}]
    BY <2>3, <2>5
  <2>7. s \ {x} \notin P /\ c \in s \ {x} /\ s \ {x} \in SUBSET T
    BY <2>1, <2>2, <2>3, <2>4
  <2>8. g[s \ {x}] = fr[c].value + g[(s \ {x}) \ {c}]
    BY <2>7
  <2>9. (s \ {x}) \ {c} = (s \ {c}) \ {x} /\ (s \ {c}) \ {x} \in SUBSET T
    BY <2>3
  <2>10. g[(s \ {c}) \ {x}] \in Int /\ fr[x].value \in Int /\ fr[c].value \in Int
    BY <2>1, <2>2, <2>3, <2>9, AddsInt DEF Valued
  <2> HIDE DEF P
  <2>11. \A i, j, k \in Int : i + (j + k) = j + (i + k)
    OBVIOUS
  <2>12. g[s \ {x}] = fr[c].value + g[(s \ {c}) \ {x}]
    BY <2>8, <2>9
  <2>13. g[s] = fr[c].value + (fr[x].value + g[(s \ {c}) \ {x}])
    BY <2>3, <2>6
  <2>14. g[s] = fr[x].value + (fr[c].value + g[(s \ {c}) \ {x}])
    BY <2>10, <2>11, <2>13
  <2> QED
    BY <2>2, <2>12, <2>14
<1> QED
  BY <1>1

LEMMA CarriedInt == ASSUME NEW S, NEW fr, Valued(fr, S) PROVE Carried(fr, S) \in Int
BY CarriedIs, AddsInt DEF Valued

(* The sum over nobody.                                                    *)
LEMMA CarriedNothing == ASSUME NEW fr PROVE Carried(fr, {}) = 0
BY CarriedIs, AddsNothing, FS_EmptySet

(* A sum depends on the values alone.                                      *)
LEMMA CarriedSame ==
    ASSUME NEW S, IsFiniteSet(S), NEW fr, NEW gr, \A x \in S : fr[x].value = gr[x].value
    PROVE  Carried(fr, S) = Carried(gr, S)
<1>1. PICK g : Adds(g, fr, S) /\ Carried(fr, S) = g[S]
  BY CarriedIs
<1>2. PICK h : Adds(h, gr, S) /\ Carried(gr, S) = h[S]
  BY CarriedIs
<1> QED
  BY <1>1, <1>2, AddsUnique

(* Whoever leaves takes the value along, whatever the order.               *)
LEMMA CarriedWithout ==
    ASSUME NEW S, NEW fr, Valued(fr, S), NEW x \in S
    PROVE  Carried(fr, S) = fr[x].value + Carried(fr, S \ {x})
<1>1. PICK g : Adds(g, fr, S) /\ Carried(fr, S) = g[S]
  BY CarriedIs DEF Valued
<1>2. IsFiniteSet(S) /\ IsFiniteSet(S \ {x})
  BY FS_RemoveElement DEF Valued
<1>3. PICK h : Adds(h, fr, S \ {x}) /\ Carried(fr, S \ {x}) = h[S \ {x}]
  BY <1>2, CarriedIs
<1>4. g[S \ {x}] = h[S \ {x}]
  BY <1>1, <1>2, <1>3, AddsUnique
<1> QED
  BY <1>1, <1>3, <1>4, AddsAny

----------------------------------------------------------------------------
(* The mutex and what a clear() leaves.                                    *)

(* Only updaters lock and unlock.                                          *)
LEMMA OthersKeepLock ==
    ASSUME TypeOK, LockInv, mutex' = mutex, \A u \in Updaters : pc'[u] = pc[u]
    PROVE  LockInv'
BY DEF LockInv

(* What a clear() and a getter leave alone.                                *)
LEMMA ClearerMoves ==
    ASSUME TypeOK, NEW c \in Clearers, ClearMin(c) \/ ClearerStep(c)
    PROVE  /\ \E label \in ClearLabels : pc' = [pc EXCEPT ![c] = label]
           /\ mutex' = mutex /\ frame' = frame /\ reading' = reading
<1> USE DEF Goto, ClearLabels
<1>1. CASE ClearMin(c)
  BY <1>1 DEF ClearMin
<1>2. CASE ClearerStep(c)
  BY <1>2 DEF ClearerStep, ClearMax, ClearSum, ClearCount, ClearM, ClearS, ClearSample
<1> QED
  BY <1>1, <1>2

LEMMA ReaderKeeps ==
    ASSUME NEW r \in Readers, ReaderStep(r)
    PROVE  UNCHANGED <<min, max, sum, count, varM, varS, mutex, sampled, frame, past>>
BY DEF ReaderStep, ReadCount, LoadField

(* variance_mutex_ stays with the one call inside.                         *)
LEMMA LockStep == TypeOK /\ LockInv /\ [Next]_vars => LockInv'
<1> SUFFICES ASSUME TypeOK, LockInv, [Next]_vars PROVE LockInv'
  OBVIOUS
<1>1. CASE UNCHANGED vars
  BY <1>1 DEF vars, LockInv
<1>2. ASSUME NEW u \in Updaters, NEW v \in Values, SampleUpdate(u, v) PROVE LockInv'
  BY <1>2 DEF SampleUpdate, Goto, LockInv, TypeOK, Threads
<1>3. ASSUME NEW u \in Updaters, UpdaterStep(u) PROVE LockInv'
  <2> USE ThreadsAssumption DEF LockInv, Goto, TypeOK, Threads
  <2>1. CASE LoadMax(u) \/ LoadMin(u) \/ TestMax(u) \/ SwapMax(u) \/ FailMax(u)
    BY <2>1 DEF LoadMax, LoadMin, TestMax, SwapMax, FailMax
  <2>2. CASE TestMin(u) \/ SwapMin(u) \/ FailMin(u) \/ AddSum(u) \/ AddCount(u)
    BY <2>2 DEF TestMin, SwapMin, FailMin, AddSum, AddCount
  <2>3. CASE LockVariance(u)
    BY <2>3 DEF LockVariance
  <2>4. CASE LoadS(u) \/ StoreM(u)
    BY <2>4 DEF LoadS, StoreM
  <2>5. CASE StoreFirstM(u) \/ StoreS(u)
    BY <2>5 DEF StoreFirstM, StoreS, Return
  <2> QED
    BY <1>3, <2>1, <2>2, <2>3, <2>4, <2>5 DEF UpdaterStep
<1>4. ASSUME NEW c \in Clearers, ClearMin(c) \/ ClearerStep(c) PROVE LockInv'
  BY <1>4, ClearerMoves, OthersKeepUpdating DEF LockInv
<1>5. ASSUME NEW r \in Readers, ReaderStep(r) PROVE LockInv'
  BY <1>5, ReaderMoves, ReaderKeeps, OthersKeepUpdating DEF LockInv
<1> QED
  BY <1>1, <1>2, <1>3, <1>4, <1>5, StepKinds

(* With no call since the last clear() a step of an updater or a reader    *)
(* changes none of the fields, one of a clearer leaves no field not zero   *)
(* that nobody is still to zero.                                           *)
LEMMA BlankStep == TypeOK /\ BlankInv /\ [Next]_vars => BlankInv'
<1> SUFFICES ASSUME TypeOK, BlankInv, [Next]_vars, ~past'.clearRaced, past'.calls = 0
             PROVE  BlankInv'
  BY DEF BlankInv
<1>1. CASE UNCHANGED vars
  BY <1>1 DEF vars, BlankInv, Updating, AtStore
<1>2. ASSUME NEW u \in Updaters, NEW v \in Values, SampleUpdate(u, v) PROVE FALSE
  <2>1. past'.calls = past.calls + 1 /\ past.calls \in Nat
    BY <1>2 DEF SampleUpdate, TypeOK, PastType
  <2> QED
    BY <2>1
<1>3. ASSUME NEW u \in Updaters, UpdaterStep(u) PROVE FALSE
  <2>1. UpdaterMoved(u) /\ Updating
    BY <1>3, UpdaterMoves DEF UpdaterMoved, Updating
  <2>2. past'.calls = past.calls
    BY <1>3 DEF UpdaterStep, LoadMax, LoadMin, TestMax, SwapMax, FailMax, TestMin, SwapMin,
         FailMin, AddSum, AddCount, LockVariance, LoadS, StoreFirstM, StoreM, StoreS, TypeOK, PastType
  <2> QED
    BY <2>1, <2>2 DEF UpdaterMoved, BlankInv
<1>4. ASSUME NEW c \in Clearers, ClearMin(c) PROVE BlankInv'
  <2>1. past'.clearRaced = Updating /\ Updating' = Updating
        /\ past'.total = 0 /\ past'.squares = 0
    BY <1>4, OthersKeepUpdating DEF ClearMin, FreshPast, Goto
  <2>2. pc'[c] = "clearMax"
    BY <1>4 DEF ClearMin, Goto, TypeOK, Threads
  <2> QED
    BY <1>4, <2>1, <2>2 DEF BlankInv, AtStore, ClearMin, ClearLabels
<1>5. ASSUME NEW c \in Clearers, ClearerStep(c) PROVE BlankInv'
  <2>1. past' = past
    BY <1>5 DEF ClearerStep, ClearMax, ClearSum, ClearCount, ClearM, ClearS, ClearSample
  <2>2. Updating' = Updating
    BY <1>5, ClearerMoves, OthersKeepUpdating
  <2> USE <2>1, <2>2 DEF BlankInv, AtStore, ClearLabels, Goto, TypeOK, Threads
  <2>3. CASE ClearMax(c)
    BY <2>3 DEF ClearMax
  <2>4. CASE ClearSum(c)
    BY <2>4 DEF ClearSum
  <2>5. CASE ClearCount(c)
    BY <2>5 DEF ClearCount
  <2>6. CASE ClearM(c)
    BY <2>6 DEF ClearM
  <2>7. CASE ClearS(c)
    BY <2>7 DEF ClearS
  <2>8. CASE ClearSample(c)
    BY <2>8 DEF ClearSample
  <2> QED
    BY <1>5, <2>3, <2>4, <2>5, <2>6, <2>7, <2>8 DEF ClearerStep
<1>6. ASSUME NEW r \in Readers, ReaderStep(r) PROVE BlankInv'
  <2>1. /\ UNCHANGED <<min, max, sum, count, varM, varS, sampled, past>>
        /\ Updating' = Updating /\ \A c \in Clearers : pc'[c] = pc[c]
    BY <1>6, ReaderMoves, ReaderKeeps, OthersKeepClearing, OthersKeepUpdating
  <2> QED
    BY <2>1 DEF BlankInv, AtStore
<1> QED
  BY <1>1, <1>2, <1>3, <1>4, <1>5, <1>6, StepKinds

(* The state after a clear() that met no call.                             *)
Blank ==
    /\ past.total = 0 /\ past.squares = 0 /\ min = 0 /\ max = 0 /\ sum = 0 /\ count = 0
    /\ varM = 0 /\ varS = 0 /\ sampled = 0 /\ mutex = NoThread

(* When no clear() is under way any more, the histogram is as new.         *)
LEMMA ClearedBlank ==
    TypeOK /\ LockInv /\ BlankInv /\ Undisturbed /\ past.calls = 0 => Blank
<1> SUFFICES ASSUME TypeOK, LockInv, BlankInv, Undisturbed, past.calls = 0 PROVE Blank
  OBVIOUS
<1>1. \A c \in Clearers : pc[c] = "idle"
  BY DEF Undisturbed, Clearing
<1>2. \A u \in Updaters : pc[u] = "idle"
  BY DEF BlankInv, Undisturbed, Updating
<1>3. mutex = NoThread
  BY <1>2 DEF LockInv, TypeOK
<1> QED
  BY <1>1, <1>3 DEF Blank, BlankInv, Undisturbed, AtStore, ClearLabels

(* A step of a clearer after which the histogram is undisturbed ends the   *)
(* last clear() under way.                                                 *)
LEMMA ClearLeavesBlank ==
    ASSUME TypeOK, ClearInv, LockInv, BlankInv, [Next]_vars,
           NEW c \in Clearers, ClearMin(c) \/ ClearerStep(c), Undisturbed'
    PROVE  Blank' /\ ~Updating' /\ past'.calls = 0
<1>1. TypeOK' /\ LockInv' /\ BlankInv'
  BY TypeStep, LockStep, BlankStep
<1>2. ~Updating' /\ past'.calls = 0
  BY ClearEnds
<1>3. (TypeOK /\ LockInv /\ BlankInv /\ Undisturbed /\ past.calls = 0 => Blank)'
  BY ClearedBlank, PTL
<1> QED
  BY <1>1, <1>2, <1>3

----------------------------------------------------------------------------
(* The sum and the sample.                                                 *)

(* Division with remainder is unique.                                      *)
LEMMA SameRemainder ==
    ASSUME NEW m \in Nat, NEW q \in Int, NEW r \in 0 .. m - 1,
           NEW p \in Int, NEW s \in 0 .. m - 1, m * q + r = m * p + s
    PROVE  r = s
<1>1. ASSUME NEW a \in Int, NEW b \in Int, a < b PROVE m * a + m <= m * b
  <2>1. m * b - m * a = m * (b - a)
    OBVIOUS
  <2>2. \A d \in Int : d >= 1 => m * d >= m
    OBVIOUS
  <2>3. m * (b - a) >= m
    BY <1>1, <2>2
  <2>4. m * a \in Int /\ m * b \in Int /\ m * (b - a) \in Int
    OBVIOUS
  <2> QED
    BY <2>1, <2>3, <2>4
<1>2. m * q \in Int /\ m * p \in Int
  OBVIOUS
<1>3. CASE q < p
  BY <1>1, <1>2, <1>3
<1>4. CASE p < q
  BY <1>1, <1>2, <1>4
<1>5. CASE p = q
  BY <1>2, <1>5
<1> QED
  BY <1>3, <1>4, <1>5

(* Addition wraps around at the end as it would at every step.             *)
LEMMA WrapAdds ==
    ASSUME NEW x \in Int, NEW y \in Int PROVE Wrap(Wrap(x) + y) = Wrap(x + y)
<1> DEFINE m == 2 * Half
           q == (x + Half) \div m
           r == (x + Half) % m
           p == (r + y) \div m
           s == (r + y) % m
           k == (x + y + Half) \div m
           t == (x + y + Half) % m
<1>m. m \in Nat /\ m > 0 /\ Half \in Nat
  BY NumbersAssumption
<1> HIDE DEF m
<1>d. \A a \in Int : /\ a \div m \in Int /\ a % m \in 0 .. m - 1
                     /\ a = m * (a \div m) + (a % m)
  BY <1>m
<1>1. x + Half = m * q + r /\ q \in Int /\ r \in 0 .. m - 1
  BY <1>m, <1>d
<1>2. r + y = m * p + s /\ p \in Int /\ s \in 0 .. m - 1
  BY <1>1, <1>d
<1>3. x + y + Half = m * k + t /\ k \in Int /\ t \in 0 .. m - 1
  BY <1>m, <1>d
<1>w. /\ Wrap(x) = r - Half
      /\ Wrap(x + y) = t - Half
  BY <1>m DEF Wrap, m
<1> HIDE DEF q, r, k, t
<1>4. Wrap(Wrap(x) + y) = s - Half
  <2>1. (r - Half) + y + Half = r + y
    BY <1>1, <1>m
  <2> QED
    BY <1>w, <2>1 DEF Wrap, m
<1> HIDE DEF p, s
<1>5. m * (q + p) + s = m * k + t
  <2>1. m * (q + p) = m * q + m * p /\ m * q \in Int /\ m * p \in Int /\ m * k \in Int
    BY <1>1, <1>2, <1>3, <1>m
  <2> QED
    BY <1>1, <1>2, <1>3, <1>m, <2>1
<1>6. s = t
  <2>1. q + p \in Int
    BY <1>1, <1>2
  <2> QED
    BY <1>m, <1>2, <1>3, <1>5, <2>1, SameRemainder
<1> QED
  BY <1>4, <1>6, <1>w

(* What Accounting counts is finite and has values.                        *)
LEMMA UnsummedValued ==
    ASSUME TypeOK PROVE IsFiniteSet(Unsummed) /\ Valued(frame, Unsummed) /\ Carried(frame, Unsummed) \in Int
<1>1. IsFiniteSet(Unsummed)
  BY UncountedFinite, FS_Subset DEF Unsummed
<1>2. Valued(frame, Unsummed)
  BY <1>1 DEF Valued, Unsummed, Uncounted, UpdatersAt, TypeOK, FrameType
<1> QED
  BY <1>1, <1>2, CarriedInt

(* The sum after a step that changes neither the terms nor the calls.      *)
LEMMA SumKept ==
    ASSUME TypeOK, SumExact, sum' = sum, past'.total = past.total, Unsummed' = Unsummed,
           \A u \in Unsummed : frame'[u].value = frame[u].value
    PROVE  SumExact'
<1>1. Carried(frame', Unsummed) = Carried(frame, Unsummed)
  BY UnsummedValued, CarriedSame
<1> QED
  BY <1>1 DEF SumExact

(* Each update adds its value to sum_ once.                                *)
LEMMA SumStep ==
    ASSUME TypeOK, ClearInv, LockInv, BlankInv, Undisturbed => SumExact /\ SampleExact,
           [Next]_vars, Undisturbed'
    PROVE  SumExact' /\ SampleExact'
<1>1. CASE UNCHANGED vars
  BY <1>1 DEF vars, Undisturbed, Clearing, Uncounted, Unsummed, UpdatersAt, SumExact, SampleExact
<1>2. ASSUME NEW u \in Updaters, NEW v \in Values, SampleUpdate(u, v)
      PROVE  SumExact' /\ SampleExact'
  <2>0. SumExact /\ SampleExact
    BY <1>2, UndisturbedBefore
  <2>1. Unsummed' = Unsummed \cup {u} /\ u \notin Unsummed
    BY <1>2 DEF SampleUpdate, Goto, Unsummed, Uncounted, UpdatersAt, BeforeCount, TypeOK, Threads
  <2>2. past'.calls = past.calls + 1 /\ past'.total = past.total + v
        /\ sum' = sum /\ sampled' = sampled + 1
    BY <1>2 DEF SampleUpdate, TypeOK, PastType
  <2>3. \A w \in Unsummed : frame'[w].value = frame[w].value
    BY <1>2, <2>1 DEF SampleUpdate, TypeOK, Unsummed, Uncounted, UpdatersAt
  <2>4. frame'[u].value = v /\ v \in Int /\ past.total \in Int
    BY <1>2, NumbersAssumption DEF SampleUpdate, TypeOK, FrameType, PastType
  <2>5. Valued(frame', Unsummed \cup {u})
    BY <2>3, <2>4, UnsummedValued, FS_AddElement DEF Valued
  <2>6. Carried(frame', Unsummed \cup {u}) = v + Carried(frame', Unsummed)
    <3>1. (Unsummed \cup {u}) \ {u} = Unsummed
      BY <2>1
    <3>2. Carried(frame', Unsummed \cup {u})
            = frame'[u].value + Carried(frame', (Unsummed \cup {u}) \ {u})
      BY <2>5, CarriedWithout
    <3> QED
      BY <3>1, <3>2, <2>4
  <2>7. Carried(frame', Unsummed) = Carried(frame, Unsummed)
    BY <2>3, UnsummedValued, CarriedSame
  <2>8. past'.total - Carried(frame', Unsummed') = past.total - Carried(frame, Unsummed)
    <3>1. Carried(frame', Unsummed') = v + Carried(frame, Unsummed)
      BY <2>1, <2>6, <2>7
    <3>2. \A a, b, c \in Int : (a + b) - (b + c) = a - c
      OBVIOUS
    <3> QED
      BY <2>2, <2>4, <3>1, <3>2, UnsummedValued
  <2> QED
    BY <2>0, <2>2, <2>8 DEF SumExact, SampleExact
<1>3. ASSUME NEW u \in Updaters, UpdaterStep(u) PROVE SumExact' /\ SampleExact'
  <2>0. SumExact /\ SampleExact
    BY <1>3, UndisturbedBefore
  <2>1. sampled' = sampled /\ past'.calls = past.calls /\ past'.total = past.total
    BY <1>3 DEF UpdaterStep, LoadMax, LoadMin, TestMax, SwapMax, FailMax, TestMin, SwapMin,
       FailMin, AddSum, AddCount, LockVariance, LoadS, StoreFirstM, StoreM, StoreS, TypeOK, PastType
  <2>2. CASE AddSum(u)
    <3>1. Unsummed' = Unsummed \ {u} /\ u \in Unsummed /\ frame' = frame
      BY <2>2 DEF AddSum, Goto, Unsummed, Uncounted, UpdatersAt, BeforeCount, TypeOK, Threads
    <3> DEFINE w == frame[u].value
               c == Carried(frame, Unsummed \ {u})
    <3>2. Carried(frame, Unsummed) = w + c
      BY <3>1, UnsummedValued, CarriedWithout
    <3>3. w \in Int /\ c \in Int /\ past.total \in Int
      <4>1. Valued(frame, Unsummed \ {u})
        BY <3>1, UnsummedValued, FS_Subset DEF Valued
      <4> QED
        BY <4>1, CarriedInt DEF TypeOK, FrameType, PastType
    <3>4. sum' = Wrap(Wrap(past.total - (w + c)) + w)
      BY <2>0, <2>2, <3>2 DEF AddSum, SumExact
    <3>5. SumExact' <=> sum' = Wrap(past.total - c)
      BY <2>1, <3>1 DEF SumExact
    <3> HIDE DEF w, c
    <3>6. past.total - (w + c) \in Int /\ (past.total - (w + c)) + w = past.total - c
      BY <3>3
    <3> QED
      BY <2>0, <2>1, <3>3, <3>4, <3>5, <3>6, WrapAdds DEF SampleExact
  <2>3. CASE ~AddSum(u)
    <3> USE DEF UpdaterStep, Goto, Unsummed, Uncounted, UpdatersAt, BeforeCount, TypeOK, Threads
    <3>1. Unsummed' = Unsummed /\ sum' = sum
      BY <1>3, <2>3 DEF LoadMax, LoadMin, TestMax, SwapMax, FailMax, TestMin, SwapMin,
         FailMin, AddCount, LockVariance, LoadS, StoreFirstM, StoreM, StoreS, Return
    <3>2. \A w \in Unsummed : frame'[w].value = frame[w].value
      <4>1. CASE LoadMax(u) \/ LoadMin(u) \/ TestMax(u) \/ SwapMax(u) \/ FailMax(u) \/ TestMin(u)
        BY <4>1 DEF LoadMax, LoadMin, TestMax, SwapMax, FailMax, TestMin, FrameType
      <4>2. CASE SwapMin(u)
        BY <4>2 DEF SwapMin
      <4>5. CASE FailMin(u)
        BY <4>5 DEF FailMin, FrameType
      <4>6. CASE AddCount(u)
        BY <4>6 DEF AddCount, FrameType
      <4>3. CASE LockVariance(u) \/ LoadS(u) \/ StoreM(u)
        BY <4>3 DEF LockVariance, LoadS, StoreM, FrameType
      <4>4. CASE StoreFirstM(u) \/ StoreS(u)
        BY <4>4 DEF StoreFirstM, StoreS, Return
      <4> QED
        BY <1>3, <2>3, <4>1, <4>2, <4>3, <4>4, <4>5, <4>6
    <3>3. SumExact'
      BY ONLY TypeOK, <2>0, <2>1, <3>1, <3>2, SumKept
    <3> QED
      BY <2>0, <2>1, <3>3 DEF SampleExact
  <2> QED
    BY <2>2, <2>3
<1>4. ASSUME NEW c \in Clearers, ClearMin(c) \/ ClearerStep(c) PROVE SumExact' /\ SampleExact'
  <2>1. Blank' /\ ~Updating' /\ past'.calls = 0
    BY <1>4, ClearLeavesBlank
  <2>2. Unsummed' = {}
    BY <2>1 DEF Updating, Unsummed, Uncounted, UpdatersAt, BeforeCount
  <2>3. Carried(frame', Unsummed') = 0
    BY <2>2, CarriedNothing
  <2>4. Wrap(0) = 0
    BY NumbersAssumption DEF Wrap
  <2>5. past'.total - Carried(frame', Unsummed') = 0
    BY <2>1, <2>3 DEF Blank
  <2> QED
    BY <2>1, <2>4, <2>5 DEF Blank, SumExact, SampleExact
<1>5. ASSUME NEW r \in Readers, ReaderStep(r) PROVE SumExact' /\ SampleExact'
  <2>1. /\ UNCHANGED <<sum, sampled, frame, past>>
        /\ Clearing' = Clearing /\ \A u \in Updaters : pc'[u] = pc[u]
    BY <1>5, ReaderMoves, ReaderKeeps, OthersKeepClearing, OthersKeepUpdating
  <2>2. Undisturbed /\ Unsummed' = Unsummed
    BY <2>1 DEF Undisturbed, Unsummed, Uncounted, UpdatersAt
  <2> QED
    BY <2>1, <2>2 DEF SumExact, SampleExact
<1> QED
  BY <1>1, <1>2, <1>3, <1>4, <1>5, StepKinds

----------------------------------------------------------------------------
(* The variance.                                                           *)

(* Both factors of the product storeS adds have the same sign: dividing by *)
(* a count moves the difference towards 0.                                 *)
LEMMA ProductNotNegative ==
    ASSUME NEW d \in Int, NEW n \in Nat, n > 1 PROVE d * (d - (d \div n)) >= 0
<1> DEFINE q == d \div n
           r == d % n
<1>1. q \in Int /\ r \in 0 .. n - 1 /\ d = n * q + r
  OBVIOUS
<1> HIDE DEF q, r
<1>2. \A a, b \in Int : (a >= 0 /\ b >= 0) \/ (a <= 0 /\ b <= 0) => a * b >= 0
  OBVIOUS
<1>3. \A a \in Int : a >= 1 => n * a >= n
  OBVIOUS
<1>m. n * q \in Int /\ n * (-q) \in Int /\ n * (-q) = -(n * q)
  BY <1>1
<1>4. CASE q >= 0
  <2>1. n * q >= q
    <3>1. \A a \in Int : a >= 0 => n * a >= a
      OBVIOUS
    <3> QED
      BY <1>1, <1>4, <3>1
  <2>2. d >= 0 /\ d - q >= 0 /\ d - q \in Int
    BY <1>1, <1>4, <1>m, <2>1
  <2> QED
    BY <1>2, <2>2 DEF q
<1>5. CASE q < 0
  <2>1. n * q + r <= q
    <3>1. \A a \in Int : a >= 1 => (n - 1) * a >= n - 1
      OBVIOUS
    <3>2. (n - 1) * (-q) >= n - 1
      BY <1>1, <1>5, <3>1
    <3>3. (n - 1) * (-q) = q - n * q
      BY <1>1
    <3> QED
      BY <1>1, <1>m, <3>2, <3>3
  <2>2. d <= 0 /\ d - q <= 0 /\ d - q \in Int
    BY <1>1, <1>5, <1>m, <2>1
  <2> QED
    BY <1>2, <2>2 DEF q
<1> QED
  BY <1>1, <1>4, <1>5

(* What the call inside variance_mutex_ knows stays true.                  *)
LEMMA VarianceStep ==
    ASSUME TypeOK, ClearInv, LockInv, BlankInv, Undisturbed => VarianceInv,
           [Next]_vars, Undisturbed'
    PROVE  VarianceInv'
<1> USE DEF VarianceInv
<1>1. CASE UNCHANGED vars
  BY <1>1 DEF vars, Undisturbed, Clearing
<1>2. ASSUME NEW u \in Updaters, NEW v \in Values, SampleUpdate(u, v) PROVE VarianceInv'
  <2>1. VarianceInv
    BY <1>2, UndisturbedBefore
  <2> QED
    BY <1>2, <2>1 DEF SampleUpdate, Goto, TypeOK, FrameType, Threads
<1>3. ASSUME NEW u \in Updaters, UpdaterStep(u) PROVE VarianceInv'
  <2>1. VarianceInv
    BY <1>3, UndisturbedBefore
  <2> USE <2>1 DEF Goto, TypeOK, FrameType, Threads
  <2>2. CASE LoadMax(u) \/ LoadMin(u) \/ TestMax(u)
    BY <2>2 DEF LoadMax, LoadMin, TestMax
  <2>3. CASE SwapMax(u) \/ FailMax(u)
    BY <2>3 DEF SwapMax, FailMax
  <2>4. CASE TestMin(u) \/ SwapMin(u) \/ FailMin(u)
    BY <2>4 DEF TestMin, SwapMin, FailMin
  <2>5. CASE AddSum(u)
    BY <2>5 DEF AddSum
  <2>6. CASE AddCount(u)
    BY <2>6 DEF AddCount
  <2>7. CASE LockVariance(u)
    BY <2>7 DEF LockVariance
  <2>8. CASE LoadS(u)
    BY <2>8 DEF LoadS
  <2>9. CASE StoreFirstM(u)
    <3>1. \A w \in Updaters : w # u => pc[w] \notin {"loadS", "storeM", "storeS"}
      BY <2>9 DEF StoreFirstM, LockInv
    <3> QED
      BY <2>9, <3>1 DEF StoreFirstM, Return
  <2>10. CASE StoreM(u)
    <3>1. \A w \in Updaters : w # u => pc[w] \notin {"loadS", "storeM", "storeS"}
      BY <2>10 DEF StoreM, LockInv
    <3> QED
      BY <2>10, <3>1 DEF StoreM
  <2>11. CASE StoreS(u)
    <3>1. \A w \in Updaters : w # u => pc[w] \notin {"loadS", "storeM", "storeS"}
      BY <2>11 DEF StoreS, LockInv
    <3> DEFINE d == Scale * frame[u].value - frame[u].oldM
               n == frame[u].newCount
    <3>2. d \in Int /\ n \in Nat /\ n > 1 /\ frame[u].oldM \in Int /\ frame[u].oldS >= 0
          /\ frame[u].oldS \in Int
      BY <2>11, NumbersAssumption DEF StoreS
    <3>3. varM = frame[u].oldM + (d \div n)
      BY <2>11 DEF StoreS
    <3>4. Scale * frame[u].value - varM = d - (d \div n)
      <4>1. Scale * frame[u].value \in Int /\ d \div n \in Int
        BY <3>2, NumbersAssumption
      <4> QED
        BY <3>2, <3>3, <4>1
    <3>5. varS' = frame[u].oldS + d * (d - (d \div n))
      BY <2>11, <3>4 DEF StoreS
    <3> HIDE DEF d, n
    <3> DEFINE p == d * (d - (d \div n))
    <3>6. p >= 0
      BY ONLY <3>2, ProductNotNegative
    <3>7. p \in Int
      <4>1. \A a, b \in Int : a * (a - b) \in Int
        OBVIOUS
      <4>2. d \div n \in Int
        BY <3>2
      <4> QED
        BY <3>2, <4>1, <4>2
    <3>8. varS' = frame[u].oldS + p
      BY <3>5
    <3> HIDE DEF p
    <3>9. varS' >= 0
      BY ONLY <3>2, <3>6, <3>7, <3>8
    <3> QED
      BY <2>11, <3>1, <3>9 DEF StoreS, Return
  <2> QED
    BY <1>3, <2>2, <2>3, <2>4, <2>5, <2>6, <2>7, <2>8, <2>9, <2>10, <2>11 DEF UpdaterStep
<1>4. ASSUME NEW c \in Clearers, ClearMin(c) \/ ClearerStep(c) PROVE VarianceInv'
  <2>1. Blank' /\ \A u \in Updaters : pc'[u] = "idle"
    BY <1>4, ClearLeavesBlank DEF Updating
  <2> QED
    BY <2>1 DEF Blank
<1>5. ASSUME NEW r \in Readers, ReaderStep(r) PROVE VarianceInv'
  <2>1. /\ UNCHANGED <<varM, varS, frame, past>>
        /\ Clearing' = Clearing /\ \A u \in Updaters : pc'[u] = pc[u]
    BY <1>5, ReaderMoves, ReaderKeeps, OthersKeepClearing, OthersKeepUpdating
  <2> QED
    BY <2>1 DEF Undisturbed
<1> QED
  BY <1>1, <1>2, <1>3, <1>4, <1>5, StepKinds

----------------------------------------------------------------------------
(* The readers.                                                            *)

(* A history without a clear() has none after a step of one.               *)
LEMMA ClearersClear ==
    ASSUME TypeOK, past.clears = 0 => ReadersInv,
           NEW c \in Clearers, ClearMin(c) \/ ClearerStep(c)
    PROVE  past'.clears # 0
<1>1. CASE ClearMin(c)
  BY <1>1 DEF ClearMin, FreshPast, TypeOK, PastType
<1>2. CASE ClearerStep(c)
  <2>1. Clearing /\ past' = past
    BY <1>2 DEF ClearerStep, ClearMax, ClearSum, ClearCount, ClearM, ClearS, ClearSample, Clearing
  <2> QED
    BY <2>1 DEF ReadersInv, Undisturbed
<1> QED
  BY <1>1, <1>2

(* A step of update() keeps what the readers have, loses no value begun    *)
(* and lowers no count.                                                    *)
LEMMA UpdaterKeepsReaders ==
    ASSUME TypeOK, NEW u \in Updaters, UpdaterStep(u) \/ \E v \in Values : SampleUpdate(u, v)
    PROVE  /\ reading' = reading /\ \A r \in Readers : pc'[r] = pc[r]
           /\ past.begun \subseteq past'.begun /\ past'.clears = past.clears
           /\ count <= count' /\ Clearing' = Clearing
<1>1. ASSUME NEW label, pc' = [pc EXCEPT ![u] = label]
      PROVE  Clearing' = Clearing /\ \A r \in Readers : pc'[r] = pc[r]
  <2>1. Clearing' = Clearing
    BY <1>1, OthersKeepClearing
  <2> QED
    BY <1>1, <2>1, ThreadsAssumption DEF TypeOK, Threads
<1>2. ASSUME NEW v \in Values, SampleUpdate(u, v)
      PROVE  /\ reading' = reading /\ pc' = [pc EXCEPT ![u] = "loadMax"]
             /\ past.begun \subseteq past'.begun /\ past'.clears = past.clears /\ count <= count'
  <2>1. past'.begun = past.begun \cup {v} /\ past'.clears = past.clears
    BY <1>2 DEF SampleUpdate, TypeOK, PastType
  <2>2. reading' = reading /\ pc' = [pc EXCEPT ![u] = "loadMax"] /\ count' = count
    BY <1>2 DEF SampleUpdate, Goto
  <2> QED
    BY <2>1, <2>2 DEF TypeOK
<1>3. CASE UpdaterStep(u)
  <2>1. UpdaterMoved(u)
    BY <1>3, UpdaterMoves
  <2>2. reading' = reading /\ past'.clears = past.clears /\ count <= count'
    BY <1>3 DEF UpdaterStep, LoadMax, LoadMin, TestMax, SwapMax, FailMax, TestMin, SwapMin,
         FailMin, AddSum, AddCount, LockVariance, LoadS, StoreFirstM, StoreM, StoreS, TypeOK, PastType
  <2> QED
    BY <1>1, <2>1, <2>2 DEF UpdaterMoved
<1> QED
  BY <1>1, <1>2, <1>3

(* With no clear(), what a getter found stays true.                        *)
LEMMA ReadersStep ==
    ASSUME TypeOK, Undisturbed => SeedInv, past.clears = 0 => ReadersInv,
           [Next]_vars, past'.clears = 0
    PROVE  ReadersInv'
<1> USE DEF ReadersInv
<1>1. CASE UNCHANGED vars
  BY <1>1 DEF vars, Undisturbed, Clearing
<1>2. ASSUME NEW u \in Updaters, UpdaterStep(u) \/ \E v \in Values : SampleUpdate(u, v)
      PROVE  ReadersInv'
  <2>1. ReadersInv
    BY <1>2, UpdaterKeepsReaders
  <2>2. ~past'.clearRaced /\ past'.calls = past'.started
    <3>1. ASSUME NEW v \in Values, SampleUpdate(u, v)
          PROVE  past'.clearRaced = (past.clearRaced \/ Clearing) /\ past'.calls = past'.started
      BY <2>1, <3>1 DEF SampleUpdate, TypeOK, PastType
    <3>2. ASSUME UpdaterStep(u) PROVE past'.clearRaced = past.clearRaced /\ past'.calls = past'.started
      BY <2>1, <3>2 DEF UpdaterStep, LoadMax, LoadMin, TestMax, SwapMax, FailMax, TestMin, SwapMin,
         FailMin, AddSum, AddCount, LockVariance, LoadS, StoreFirstM, StoreM, StoreS, TypeOK, PastType
    <3> QED
      BY <1>2, <2>1, <3>1, <3>2 DEF Undisturbed
  <2>3. count \in Nat /\ count' \in Nat /\ \A r \in Readers : reading[r].counted \in Nat
    BY TypeStep DEF TypeOK
  <2> QED
    BY <1>2, <2>1, <2>2, <2>3, UpdaterKeepsReaders DEF Undisturbed
<1>3. ASSUME NEW c \in Clearers, ClearMin(c) \/ ClearerStep(c) PROVE ReadersInv'
  BY <1>3, ClearersClear
<1>4. ASSUME NEW r \in Readers, ReaderStep(r) PROVE ReadersInv'
  <2>1. UNCHANGED <<min, max, sum, count, varM, varS, mutex, sampled, frame, past>>
    BY <1>4, ReaderKeeps
  <2>2. Undisturbed' /\ Undisturbed
    BY <1>4, <2>1, ReaderMoves, OthersKeepClearing DEF Undisturbed
  <2>3. ReadersInv /\ SeedInv
    BY <2>1, <2>2
  <2> USE <2>1, <2>2, <2>3 DEF TypeOK, Threads, Goto, Getters
  <2>4. ASSUME NEW op \in Getters, ReadCount(r, op) PROVE ReadersInv'
    BY <2>4 DEF ReadCount, Needed
  <2>5. CASE LoadField(r)
    <3>1. /\ reading' = [reading EXCEPT ![r].loaded = Loaded(pc[r])]
          /\ pc' = [pc EXCEPT ![r] = "idle"] /\ pc[r] # "idle"
      BY <2>5 DEF LoadField
    <3>2. pc[r] \in {"max", "min"} => Loaded(pc[r]) \in past.begun
      BY DEF SeedInv, Loaded
    <3> QED
      BY <3>1, <3>2
  <2> QED
    BY <1>4, <2>4, <2>5 DEF ReaderStep
<1> QED
  BY <1>1, <1>2, <1>3, <1>4, StepKinds

----------------------------------------------------------------------------
(* The mean.                                                               *)

(* A value not negative bounds the others from above or from below.        *)
LEMMA LeastValue ==
    ASSUME NoOverflow, NEW S \in SUBSET Values, S # {}
    PROVE  \E v \in S : v \in 0 .. Half - 1 /\ \A w \in S : v <= w
<1>1. S \in SUBSET Nat /\ \A v \in S : v \in 0 .. Half - 1
  BY NumbersAssumption DEF NoOverflow
<1>2. PICK v \in S : \A w \in S : v <= w
  BY ONLY <1>1, S # {}, LeastNatural
<1> QED
  BY <1>1, <1>2

(* With values at all there is a greatest one.                             *)
LEMMA GreatestValue ==
    ASSUME NoOverflow, Values # {}
    PROVE  \E v \in Values : v \in 0 .. Half - 1 /\ \A w \in Values : w <= v
<1> DEFINE N == {Half - 1 - v : v \in Values}
<1>1. \A v \in Values : v \in 0 .. Half - 1
  BY NumbersAssumption DEF NoOverflow
<1>2. N \in SUBSET Nat /\ N # {}
  <2>1. \A v \in Values : Half - 1 - v \in Nat
    BY <1>1, NumbersAssumption
  <2> QED
    BY <2>1
<1> HIDE DEF N
<1>3. PICK n \in N : \A m \in N : n <= m
  BY <1>2, LeastNatural
<1>4. PICK v \in Values : n = Half - 1 - v
  BY DEF N
<1>5. ASSUME NEW w \in Values PROVE w <= v
  <2>1. Half - 1 - w \in N
    BY DEF N
  <2> QED
    BY <1>1, <1>3, <1>4, <2>1, NumbersAssumption
<1> QED
  BY <1>1, <1>5

(* The calls past their addition to the sum.                               *)
AtAddCount == UpdatersAt({"addCount"})

(* The calls that have added and not counted are finitely many.            *)
LEMMA AtAddCountFinite == IsFiniteSet(AtAddCount) /\ Cardinality(AtAddCount) \in Nat
BY ThreadsAssumption, FS_Subset, FS_CardinalityType DEF AtAddCount, UpdatersAt

(* The call about to add its value has not been counted and is one of at   *)
(* most MaxUpdates.                                                        *)
LEMMA SummedBounded ==
    ASSUME TypeOK, CountExact, past.calls = past.started, NEW u \in Updaters, pc[u] = "addSum"
    PROVE  Summed \in Nat /\ Summed + 1 <= MaxUpdates
<1>1. /\ IsFiniteSet(AtAddCount) /\ Cardinality(AtAddCount) \in Nat
      /\ IsFiniteSet(Uncounted) /\ Cardinality(Uncounted) \in Nat
  BY AtAddCountFinite, UncountedFinite, FS_CardinalityType
<1>2. u \notin AtAddCount /\ AtAddCount \cup {u} \subseteq Uncounted
  BY DEF AtAddCount, Uncounted, UpdatersAt, BeforeCount
<1>3. Cardinality(AtAddCount \cup {u}) = Cardinality(AtAddCount) + 1
  BY <1>1, <1>2, FS_AddElement
<1>4. Cardinality(AtAddCount \cup {u}) <= Cardinality(Uncounted)
  BY <1>1, <1>2, FS_Subset
<1>5. Summed = count + Cardinality(AtAddCount) /\ count \in Nat
  BY DEF Summed, AtAddCount, TypeOK
<1>6. count + Cardinality(Uncounted) = past.started /\ past.started <= MaxUpdates
  BY <1>1, <1>5 DEF CountExact, TypeOK, PastType
<1> QED
  BY <1>1, <1>3, <1>4, <1>5, <1>6, NumbersAssumption DEF TypeOK, PastType

(* Products of larger factors are larger.                                  *)
LEMMA Monotone ==
    ASSUME NEW b \in Nat, NEW x \in Int, NEW y \in Int, x <= y PROVE b * x <= b * y
<1>1. b * y = b * x + b * (y - x) /\ b * x \in Int /\ b * (y - x) \in Int
  OBVIOUS
<1>2. y - x \in Nat
  OBVIOUS
<1>3. \A a, c \in Nat : a * c \in Nat
  OBVIOUS
<1>4. b * (y - x) \in Nat
  BY <1>2, <1>3
<1> QED
  BY <1>1, <1>4

(* The bounds of the sum, and of a mean a reader took.                     *)
SumBetween ==
    \A b \in 0 .. Half - 1 :
        /\ (\A v \in Values : v <= b) => sum <= b * Summed
        /\ (\A v \in past.begun : b <= v) => b * Summed <= sum

MeansCover ==
    \A b \in 0 .. Half - 1 : (\A v \in past.begun : b <= v) =>
        \A r \in Readers : pc[r] = "idle" /\ reading[r].op = "mean" =>
            b * reading[r].counted <= reading[r].loaded

(* MeanInv in its two halves.                                              *)
LEMMA MeanInvParts == MeanInv <=> SumBetween /\ MeansCover
BY DEF MeanInv, SumBetween, MeansCover

(* The sum moves with the number of its terms.                             *)
LEMMA SumBetweenStep ==
    ASSUME TypeOK, SeedInv, CountExact, ReadersInv, NoOverflow, SumBetween,
           NEW u \in Updaters, UpdaterStep(u)
    PROVE  SumBetween'
<1>b. past'.begun = past.begun
  BY UpdaterMoves DEF UpdaterMoved
<1>f. IsFiniteSet(AtAddCount) /\ Cardinality(AtAddCount) \in Nat /\ count \in Nat
  BY AtAddCountFinite DEF TypeOK
<1>s. Summed = count + Cardinality(AtAddCount) /\ Summed' = count' + Cardinality(AtAddCount')
  BY DEF Summed, AtAddCount
<1>1. CASE AddSum(u)
  <2> DEFINE w == frame[u].value
  <2>1. pc[u] = "addSum" /\ sum' = Wrap(sum + w) /\ count' = count
        /\ AtAddCount' = AtAddCount \cup {u} /\ u \notin AtAddCount
    BY <1>1 DEF AddSum, Goto, AtAddCount, UpdatersAt, TypeOK, Threads
  <2>2. Summed' = Summed + 1
    <3>1. Cardinality(AtAddCount \cup {u}) = Cardinality(AtAddCount) + 1
      BY <1>f, <2>1, FS_AddElement
    <3> QED
      BY <1>f, <1>s, <2>1, <3>1
  <2>3. Summed \in Nat /\ Summed + 1 <= MaxUpdates
    BY <2>1, SummedBounded DEF ReadersInv
  <2>4. w \in past.begun /\ w \in Values /\ w \in Int /\ sum \in Int
    <3>1. w \in past.begun
      BY <2>1 DEF SeedInv
    <3>2. past.begun \subseteq Values /\ Values \subseteq Int /\ sum \in Int
      BY NumbersAssumption DEF TypeOK, PastType
    <3> QED
      BY <3>1, <3>2
  <2>5. PICK g \in Values : g \in 0 .. Half - 1 /\ \A v \in Values : v <= g
    BY <2>4, GreatestValue
  <2>6. sum + w <= g * Summed + g /\ g * MaxUpdates < Half /\ 0 <= sum + w
    <3>1. sum <= g * Summed /\ w <= g /\ 0 <= w /\ g * MaxUpdates < Half
      BY <2>4, <2>5 DEF SumBetween, NoOverflow
    <3>2. 0 * Summed <= sum
      <4>1. 0 \in 0 .. Half - 1 /\ \A v \in past.begun : 0 <= v
        BY NumbersAssumption DEF NoOverflow, TypeOK, PastType
      <4> QED
        BY <4>1 DEF SumBetween
    <3>3. 0 * Summed = 0 /\ g * Summed \in Int
      BY <2>3, <2>5
    <3> QED
      BY <2>4, <2>5, <3>1, <3>2, <3>3
  <2>7. g * Summed + g <= g * MaxUpdates
    <3>1. g * (Summed + 1) <= g * MaxUpdates
      BY <2>3, <2>5, Monotone, NumbersAssumption
    <3>2. g * (Summed + 1) = g * Summed + g
      BY <2>3, <2>5
    <3> QED
      BY <3>1, <3>2
  <2>8. sum' = sum + w
    <3>1. 0 <= sum + w /\ sum + w < Half /\ sum + w \in Int
      <4>1. g * Summed + g \in Int /\ g * MaxUpdates \in Int /\ Half \in Int
        BY <2>3, <2>5, NumbersAssumption
      <4> QED
        BY <2>4, <2>6, <2>7, <4>1
    <3> HIDE DEF w
    <3>2. (sum + w + Half) % (2 * Half) = sum + w + Half
      BY <3>1, NumbersAssumption
    <3> QED
      BY <2>1, <2>4, <3>1, <3>2, NumbersAssumption DEF Wrap
  <2> HIDE DEF w
  <2>9. ASSUME NEW b \in 0 .. Half - 1
        PROVE  /\ (\A v \in Values : v <= b) => sum' <= b * Summed'
               /\ (\A v \in past'.begun : b <= v) => b * Summed' <= sum'
    <3>1. b * Summed' = b * Summed + b /\ b * Summed \in Int /\ b \in Int
      BY <2>2, <2>3
    <3>2. ASSUME \A v \in Values : v <= b PROVE sum' <= b * Summed'
      <4>1. sum <= b * Summed /\ w <= b
        BY <2>4, <3>2 DEF SumBetween
      <4> QED
        BY <2>4, <2>8, <3>1, <4>1
    <3>3. ASSUME \A v \in past'.begun : b <= v PROVE b * Summed' <= sum'
      <4>1. b * Summed <= sum /\ b <= w
        BY <1>b, <2>4, <3>3 DEF SumBetween
      <4> QED
        BY <2>4, <2>8, <3>1, <4>1
    <3> QED
      BY <3>2, <3>3
  <2> QED
    BY <2>9 DEF SumBetween
<1>2. CASE ~AddSum(u)
  <2>1. sum' = sum
    BY <1>2 DEF UpdaterStep, LoadMax, LoadMin, TestMax, SwapMax, FailMax, TestMin, SwapMin,
         FailMin, AddCount, LockVariance, LoadS, StoreFirstM, StoreM, StoreS
  <2>2. Summed' = Summed
    <3>1. CASE AddCount(u)
      <4>1. AtAddCount' = AtAddCount \ {u} /\ u \in AtAddCount /\ count' = count + 1
        BY <3>1 DEF AddCount, Goto, AtAddCount, UpdatersAt, TypeOK, Threads
      <4>2. Cardinality(AtAddCount \ {u}) = Cardinality(AtAddCount) - 1
        BY <1>f, <4>1, FS_RemoveElement
      <4> QED
        BY <1>f, <1>s, <4>1, <4>2
    <3>2. CASE ~AddCount(u)
      <4>1. AtAddCount' = AtAddCount /\ count' = count
        BY <1>2, <3>2 DEF UpdaterStep, LoadMax, LoadMin, TestMax, SwapMax, FailMax, TestMin, SwapMin,
         FailMin, LockVariance, LoadS, StoreFirstM, StoreM, StoreS, Return, Goto, AtAddCount,
         UpdatersAt, TypeOK, Threads
      <4> QED
        BY <1>s, <4>1
    <3> QED
      BY <3>1, <3>2
  <2> QED
    BY <1>b, <2>1, <2>2 DEF SumBetween
<1> QED
  BY <1>1, <1>2

(* The sum stays ahead of the count that a mean is computed with.          *)
LEMMA MeanStep ==
    ASSUME TypeOK, Undisturbed => SeedInv, Accounting, past.clears = 0 => ReadersInv,
           past.clears = 0 /\ NoOverflow => MeanInv,
           [Next]_vars, past'.clears = 0, NoOverflow
    PROVE  MeanInv'
<1> SUFFICES SumBetween' /\ MeansCover'
  BY DEF MeanInv, SumBetween, MeansCover
<1>t. TypeOK' /\ ReadersInv'
  BY TypeStep, ReadersStep
<1>1. CASE UNCHANGED vars
  <2>1. SumBetween /\ MeansCover
    BY <1>1, MeanInvParts DEF vars
  <2> QED
    BY <1>1, <2>1 DEF vars, SumBetween, MeansCover, Summed, UpdatersAt
<1>2. ASSUME NEW u \in Updaters, UpdaterStep(u) \/ \E v \in Values : SampleUpdate(u, v)
      PROVE  SumBetween' /\ MeansCover'
  <2>1. /\ reading' = reading /\ \A r \in Readers : pc'[r] = pc[r]
        /\ past.begun \subseteq past'.begun /\ past.clears = 0
    BY <1>2, UpdaterKeepsReaders
  <2>2. SumBetween /\ MeansCover /\ ReadersInv
    BY <2>1, MeanInvParts
  <2>3. SeedInv /\ CountExact
    BY <2>2 DEF ReadersInv, Accounting
  <2>4. MeansCover'
    BY <2>1, <2>2 DEF MeansCover
  <2>5. CASE UpdaterStep(u)
    BY <2>2, <2>3, <2>4, <2>5, SumBetweenStep
  <2>6. ASSUME NEW v \in Values, SampleUpdate(u, v) PROVE SumBetween'
    <3>1. sum' = sum /\ count' = count /\ UpdatersAt({"addCount"})' = UpdatersAt({"addCount"})
      BY <2>6 DEF SampleUpdate, UpdatersAt, Goto, TypeOK, Threads
    <3>2. Summed' = Summed
      BY <3>1 DEF Summed
    <3> QED
      BY <2>1, <2>2, <3>1, <3>2 DEF SumBetween
  <2> QED
    BY <1>2, <2>4, <2>5, <2>6
<1>3. ASSUME NEW c \in Clearers, ClearMin(c) \/ ClearerStep(c) PROVE FALSE
  BY <1>3, ClearersClear
<1>4. ASSUME NEW r \in Readers, ReaderStep(r) PROVE SumBetween' /\ MeansCover'
  <2>1. UNCHANGED <<min, max, sum, count, varM, varS, mutex, sampled, frame, past>>
    BY <1>4, ReaderKeeps
  <2>2. SumBetween /\ MeansCover /\ ReadersInv
    BY <2>1, MeanInvParts
  <2>3. SumBetween'
    <3>1. UpdatersAt({"addCount"})' = UpdatersAt({"addCount"})
      BY <1>4, ReaderMoves, OthersKeepUpdating DEF UpdatersAt
    <3> QED
      BY <2>1, <2>2, <3>1 DEF SumBetween, Summed
  <2>4. ASSUME NEW b \in 0 .. Half - 1, \A v \in past.begun : b <= v,
               NEW q \in Readers, pc'[q] = "idle", reading'[q].op = "mean"
        PROVE  b * reading'[q].counted <= reading'[q].loaded
    <3> USE DEF TypeOK, Threads, Goto, Getters
    <3>1. ASSUME NEW op \in Getters, ReadCount(r, op)
          PROVE  b * reading'[q].counted <= reading'[q].loaded
      <4>1. CASE q = r
        <5>1. reading'[q].counted = 0 /\ reading'[q].loaded = 0
          BY <2>4, <3>1, <4>1 DEF ReadCount
        <5>2. b * 0 = 0
          OBVIOUS
        <5> QED
          BY <5>1, <5>2
      <4>2. CASE q # r
        <5>1. reading'[q] = reading[q] /\ pc'[q] = pc[q]
          BY <3>1, <4>2 DEF ReadCount
        <5> QED
          BY <2>2, <2>4, <5>1 DEF MeansCover
      <4> QED
        BY <4>1, <4>2
    <3>2. CASE LoadField(r)
      <4>1. CASE q = r
        <5>1. /\ reading'[q].op = reading[q].op /\ reading'[q].counted = reading[q].counted
              /\ reading'[q].loaded = Loaded(pc[q]) /\ pc[q] # "idle"
          BY <3>2, <4>1 DEF LoadField
        <5>2. pc[q] = "mean" /\ Loaded(pc[q]) = sum /\ reading[q].counted <= count
              /\ reading[q].counted \in Nat
          BY <2>2, <2>4, <5>1 DEF ReadersInv, Loaded
        <5>3. Summed \in Int /\ reading[q].counted <= Summed
          <6>1. Cardinality(AtAddCount) \in Nat /\ Summed = count + Cardinality(AtAddCount)
            BY AtAddCountFinite DEF Summed, AtAddCount
          <6> QED
            BY <5>2, <6>1
        <5>4. b * Summed <= sum
          BY <2>2, <2>4 DEF SumBetween
        <5>5. b * reading[q].counted <= b * Summed
          BY <5>2, <5>3, Monotone, NumbersAssumption
        <5>6. b * reading[q].counted \in Int /\ b * Summed \in Int /\ sum \in Int
          BY <5>2, <5>3
        <5> QED
          BY <5>1, <5>2, <5>4, <5>5, <5>6
      <4>2. CASE q # r
        <5>1. reading'[q] = reading[q] /\ pc'[q] = pc[q]
          BY <3>2, <4>2 DEF LoadField
        <5> QED
          BY <2>2, <2>4, <5>1 DEF MeansCover
      <4> QED
        BY <4>1, <4>2
    <3> QED
      BY <1>4, <3>1, <3>2 DEF ReaderStep
  <2>5. MeansCover'
    BY <2>1, <2>4 DEF MeansCover
  <2> QED
    BY <2>3, <2>5
<1> QED
  BY <1>1, <1>2, <1>3, <1>4, StepKinds

----------------------------------------------------------------------------
(* The exactness of the variance.                                          *)

(* Arithmetic of the division in Welford's step.                           *)
LEMMA Cancel ==
    ASSUME NEW k \in Int, k > 0, NEW a \in Int, NEW b \in Int, k * a = k * b
    PROVE  a = b
OBVIOUS

LEMMA Quotient ==
    ASSUME NEW n \in Int, n > 0, NEW e \in Int
    PROVE  (n * e) \div n = e
OBVIOUS

LEMMA NoRemainder ==
    ASSUME NEW n \in Int, n > 0, NEW e \in Int, e % n = 0
    PROVE  e = n * (e \div n)
OBVIOUS

(* M and V are the mean and k times the variance of k values, whose sum is *)
(* T and whose sum of squares is Q, in units of 1 / s and 1 / (s * s).     *)
Moments(s, k, T, Q, M, V) == k * M = s * T /\ k * V = s * s * (k * Q - T * T)

(* Welford's step: from the moments of k values those of k + 1.            *)
LEMMA WelfordStep ==
    ASSUME NEW s \in Nat, NEW k \in Nat, k > 0, s % (k * (k + 1)) = 0,
           NEW T \in Int, NEW Q \in Int, NEW x \in Int, NEW M \in Int, NEW V \in Int,
           Moments(s, k, T, Q, M, V), NEW d, d = s * x - M, NEW q, q = d \div (k + 1)
    PROVE  Moments(s, k + 1, T + x, Q + x * x, M + q, V + d * (d - q))
<1> DEFINE n == k + 1
           c == s \div (k * (k + 1))
           e == c * (k * x - T)
<1>0. k \in Int
  OBVIOUS
<1>1. k * n \in Int /\ k * n > 0
  <2>1. \A a, b \in Nat : a > 0 /\ b > 0 => a * b > 0
    OBVIOUS
  <2> QED
    BY <2>1
<1>2. c \in Int /\ s = (k * n) * c
  BY <1>1, NoRemainder
<1> HIDE DEF c
<1>c. c \in Int
  BY <1>2
<1>3. s = k * (n * c)
  BY <1>2
<1>4. M = n * c * T
  <2>1. k * M = k * (n * c * T)
    BY <1>2, <1>3 DEF Moments
  <2>2. n * c * T \in Int
    BY <1>2
  <2> QED
    BY <2>1, <2>2, Cancel
<1>5. V = n * c * s * (k * Q - T * T)
  <2>1. k * V = k * (n * c * s * (k * Q - T * T))
    BY <1>2, <1>3 DEF Moments
  <2>2. n * c * s * (k * Q - T * T) \in Int
    BY <1>2
  <2> QED
    BY <2>1, <2>2, Cancel
<1>6. d = n * e
  BY <1>2, <1>3, <1>4
<1>7. e \in Int
  BY <1>2
<1>8. q = e
  <2> HIDE DEF e
  <2> QED
    BY <1>6, <1>7, Quotient
<1>9. d - q = k * e
  <2>1. \A a \in Int : (k + 1) * a - a = k * a
    OBVIOUS
  <2> HIDE DEF e
  <2> QED
    BY <1>6, <1>7, <1>8, <2>1
<1>10. s = k * (k + 1) * c
  BY <1>2
<1>11. (k + 1) * (M + q) = s * (T + x)
  <2>1. M + q = (k + 1) * c * T + c * (k * x - T)
    BY <1>4, <1>8
  <2>2. (k + 1) * ((k + 1) * c * T + c * (k * x - T)) = (k * (k + 1) * c) * (T + x)
    BY <1>0, <1>c
  <2> QED
    BY ONLY <2>1, <2>2, <1>10, Zenon
<1>12. (k + 1) * (V + d * (d - q)) = s * s * ((k + 1) * (Q + x * x) - (T + x) * (T + x))
  <2>1. V + d * (d - q) = (k + 1) * c * (k * (k + 1) * c) * (k * Q - T * T)
                            + (k + 1) * (c * (k * x - T)) * (k * (c * (k * x - T)))
    <3>1. V = (k + 1) * c * (k * (k + 1) * c) * (k * Q - T * T)
      BY <1>5, <1>10
    <3>2. d * (d - q) = (k + 1) * (c * (k * x - T)) * (k * (c * (k * x - T)))
      BY <1>6, <1>9
    <3> QED
      BY <3>1, <3>2
  <2>2. (k + 1) * ((k + 1) * c * (k * (k + 1) * c) * (k * Q - T * T)
                      + (k + 1) * (c * (k * x - T)) * (k * (c * (k * x - T))))
             = (k * (k + 1) * c) * (k * (k + 1) * c)
                 * ((k + 1) * (Q + x * x) - (T + x) * (T + x))
    BY <1>0, <1>c
  <2> QED
    BY ONLY <2>1, <2>2, <1>10, Zenon
<1> QED
  BY <1>11, <1>12 DEF Moments

(* What the variance took: numbers, and unchanged by a step that moves no  *)
(* call into or out of update().                                           *)
LEMMA InUpdateFinite ==
    IsFiniteSet(InUpdate) /\ Cardinality(InUpdate) \in Nat
BY ThreadsAssumption, FS_Subset, FS_CardinalityType DEF InUpdate

(* The squares of the values are integers, too.                            *)
LEMMA SquaredValue ==
    ASSUME TypeOK, NEW u \in Updaters
    PROVE  Squared(frame)[u].value = frame[u].value * frame[u].value
           /\ Squared(frame)[u].value \in Int
BY DEF Squared, TypeOK, FrameType

LEMMA InUpdateValued ==
    ASSUME TypeOK
    PROVE  Valued(frame, InUpdate) /\ Valued(Squared(frame), InUpdate)
BY InUpdateFinite, SquaredValue DEF Valued, InUpdate, TypeOK, FrameType

(* Count, sum and sum of squares of the values taken.                      *)
LEMMA TakenType ==
    ASSUME TypeOK PROVE Taken \in Int /\ TakenTotal \in Int /\ TakenSquares \in Int
BY InUpdateFinite, InUpdateValued, CarriedInt DEF Taken, TakenTotal, TakenSquares, TypeOK, PastType

LEMMA TakenSame ==
    ASSUME TypeOK, TypeOK', InUpdate' = InUpdate,
           past'.calls = past.calls, past'.total = past.total, past'.squares = past.squares,
           \A u \in InUpdate : frame'[u].value = frame[u].value
    PROVE  Taken' = Taken /\ TakenTotal' = TakenTotal /\ TakenSquares' = TakenSquares
<1>1. Carried(frame', InUpdate) = Carried(frame, InUpdate)
  BY InUpdateFinite, CarriedSame
<1>2. Carried(Squared(frame'), InUpdate) = Carried(Squared(frame), InUpdate)
  <2>1. \A u \in InUpdate : Squared(frame')[u].value = Squared(frame)[u].value
    BY DEF InUpdate, Squared
  <2> QED
    BY <2>1, InUpdateFinite, CarriedSame
<1> QED
  BY <1>1, <1>2 DEF Taken, TakenTotal, TakenSquares

(* A call that begins is not taken yet.                                    *)
LEMMA TakenBegin ==
    ASSUME TypeOK, TypeOK', NEW u \in Updaters, NEW v \in Values, SampleUpdate(u, v)
    PROVE  Taken' = Taken /\ TakenTotal' = TakenTotal /\ TakenSquares' = TakenSquares
<1>1. InUpdate' = InUpdate \cup {u} /\ u \notin InUpdate
  BY DEF SampleUpdate, Goto, InUpdate, TypeOK, Threads
<1>2. /\ past'.calls = past.calls + 1 /\ past'.total = past.total + v
      /\ past'.squares = past.squares + v * v
  BY DEF SampleUpdate, TypeOK, PastType
<1>3. /\ frame'[u].value = v /\ \A w \in InUpdate : frame'[w].value = frame[w].value
      /\ v \in Int
  BY <1>1, NumbersAssumption DEF SampleUpdate, TypeOK, FrameType, InUpdate
<1>4. /\ Squared(frame')[u].value = v * v
      /\ \A w \in InUpdate : Squared(frame')[w].value = Squared(frame)[w].value
  BY <1>3 DEF Squared, InUpdate
<1>5. Valued(frame', InUpdate \cup {u}) /\ Valued(Squared(frame'), InUpdate \cup {u})
  <2>1. IsFiniteSet(InUpdate \cup {u})
    BY InUpdateFinite, FS_AddElement
  <2>2. v * v \in Int
    BY <1>3
  <2> QED
    BY <1>3, <1>4, <2>1, <2>2, InUpdateValued DEF Valued
<1>6. (InUpdate \cup {u}) \ {u} = InUpdate
  BY <1>1
<1>7. Carried(frame', InUpdate \cup {u}) = v + Carried(frame, InUpdate)
  <2>1. Carried(frame', InUpdate \cup {u}) = v + Carried(frame', InUpdate)
    BY <1>3, <1>5, <1>6, CarriedWithout
  <2>2. Carried(frame', InUpdate) = Carried(frame, InUpdate)
    BY <1>3, InUpdateFinite, CarriedSame
  <2> QED
    BY <2>1, <2>2
<1>8. Carried(Squared(frame'), InUpdate \cup {u}) = v * v + Carried(Squared(frame), InUpdate)
  <2>1. Carried(Squared(frame'), InUpdate \cup {u}) = v * v + Carried(Squared(frame'), InUpdate)
    BY <1>4, <1>5, <1>6, CarriedWithout
  <2>2. Carried(Squared(frame'), InUpdate) = Carried(Squared(frame), InUpdate)
    BY <1>4, InUpdateFinite, CarriedSame
  <2> QED
    BY <2>1, <2>2
<1>9. Cardinality(InUpdate') = Cardinality(InUpdate) + 1
  BY <1>1, InUpdateFinite, FS_AddElement
<1>10. \A a, b, c \in Int : (a + b) - (b + c) = a - c
  OBVIOUS
<1>11. /\ Carried(frame, InUpdate) \in Int /\ Carried(Squared(frame), InUpdate) \in Int
       /\ past.total \in Int /\ past.squares \in Int /\ past.calls \in Int /\ v * v \in Int
  BY <1>3, InUpdateValued, CarriedInt DEF TypeOK, PastType
<1>12. TakenTotal' = TakenTotal
  <2>1. TakenTotal' = (past.total + v) - (v + Carried(frame, InUpdate))
    BY <1>1, <1>2, <1>7 DEF TakenTotal
  <2> QED
    BY <1>3, <1>10, <1>11, <2>1 DEF TakenTotal
<1>13. TakenSquares' = TakenSquares
  <2>1. TakenSquares' = (past.squares + v * v) - (v * v + Carried(Squared(frame), InUpdate))
    BY <1>1, <1>2, <1>8 DEF TakenSquares
  <2> QED
    BY <1>10, <1>11, <2>1 DEF TakenSquares
<1>14. Taken' = Taken
  BY <1>2, <1>9, <1>11, InUpdateFinite DEF Taken
<1> QED
  BY <1>12, <1>13, <1>14

(* A call that returns is taken.                                           *)
LEMMA TakenReturn ==
    ASSUME TypeOK, TypeOK', NEW u \in Updaters, pc[u] # "idle", Return(u),
           past'.calls = past.calls, past'.total = past.total, past'.squares = past.squares
    PROVE  /\ Taken' = Taken + 1
           /\ TakenTotal' = TakenTotal + frame[u].value
           /\ TakenSquares' = TakenSquares + frame[u].value * frame[u].value
<1> DEFINE v == frame[u].value
<1>1. InUpdate' = InUpdate \ {u} /\ u \in InUpdate
  BY DEF Return, Goto, InUpdate, TypeOK, Threads
<1>2. \A w \in InUpdate \ {u} : frame'[w].value = frame[w].value
  BY DEF Return, InUpdate, TypeOK
<1>3. \A w \in InUpdate \ {u} : Squared(frame')[w].value = Squared(frame)[w].value
  BY <1>2 DEF Squared, InUpdate
<1>4. IsFiniteSet(InUpdate \ {u}) /\ Cardinality(InUpdate') = Cardinality(InUpdate) - 1
  BY <1>1, InUpdateFinite, FS_RemoveElement
<1>5. Valued(frame, InUpdate \ {u}) /\ Valued(Squared(frame), InUpdate \ {u})
  BY <1>4, InUpdateValued DEF Valued
<1>6. v \in Int /\ v * v \in Int
  BY DEF TypeOK, FrameType
<1> DEFINE a == Carried(frame, InUpdate \ {u})
           b == Carried(Squared(frame), InUpdate \ {u})
<1>7. a \in Int /\ b \in Int
  BY <1>5, CarriedInt
<1>8. Carried(frame, InUpdate) = v + a /\ Carried(frame', InUpdate') = a
  <2>1. Carried(frame, InUpdate) = v + a
    BY <1>1, InUpdateValued, CarriedWithout
  <2>2. Carried(frame', InUpdate \ {u}) = a
    BY <1>2, <1>4, CarriedSame
  <2> QED
    BY <1>1, <2>1, <2>2
<1>9. Carried(Squared(frame), InUpdate) = v * v + b /\ Carried(Squared(frame'), InUpdate') = b
  <2>1. Carried(Squared(frame), InUpdate) = Squared(frame)[u].value + b
    BY <1>1, InUpdateValued, CarriedWithout
  <2>2. Carried(Squared(frame'), InUpdate \ {u}) = b
    BY <1>3, <1>4, CarriedSame
  <2> QED
    BY <1>1, <2>1, <2>2, SquaredValue
<1> HIDE DEF a, b
<1>10. past.total \in Int /\ past.squares \in Int /\ past.calls \in Int
  BY DEF TypeOK, PastType
<1>11. \A i, j, k \in Int : i - k = (i - (j + k)) + j
  OBVIOUS
<1>12. TakenTotal' = TakenTotal + v
  <2> HIDE DEF v
  <2> QED
    BY <1>6, <1>7, <1>8, <1>10, <1>11 DEF TakenTotal
<1>13. TakenSquares' = TakenSquares + v * v
  <2>1. TakenSquares' = past.squares - b /\ TakenSquares = past.squares - (v * v + b)
    BY <1>9 DEF TakenSquares
  <2> HIDE DEF v
  <2> QED
    BY <1>6, <1>7, <1>10, <1>11, <2>1
<1>14. Taken' = Taken + 1
  BY <1>4, <1>10, InUpdateFinite DEF Taken
<1> QED
  BY <1>12, <1>13, <1>14

(* A step of update() other than the three that store keeps what the       *)
(* variance took, the variance and the threads about to store it.          *)
LEMMA WelfordKept ==
    ASSUME TypeOK, TypeOK', WelfordInv, varM' = varM, varS' = varS,
           Taken' = Taken, TakenTotal' = TakenTotal, TakenSquares' = TakenSquares,
           UpdatersAt({"storeS"})' = UpdatersAt({"storeS"}),
           \A u \in UpdatersAt({"storeS"}) :
              frame'[u].newCount = frame[u].newCount /\ frame'[u].oldM = frame[u].oldM
    PROVE  WelfordInv'
BY DEF WelfordInv

(* The thread inside the mutex is the next in the order of the counts if   *)
(* its count is one more than what the variance took.                      *)
LEMMA NextIsTaken ==
    ASSUME TypeOK, CountExact, NEW u \in Updaters, NextInOrder(u)
    PROVE  frame[u].newCount = Taken + 1
<1> DEFINE Waiting == UpdatersAt({"lock", "loadS", "storeM", "storeS"})
<1>1. InUpdate = Uncounted \cup Waiting /\ Uncounted \cap Waiting = {}
  BY DEF InUpdate, Uncounted, UpdatersAt, BeforeCount, TypeOK, UpdateLabels
<1>2. IsFiniteSet(Waiting) /\ IsFiniteSet(Uncounted)
  BY UncountedFinite, ThreadsAssumption, FS_Subset DEF UpdatersAt
<1>3. Cardinality(Waiting) \in Nat /\ Cardinality(Uncounted) \in Nat
  BY <1>2, FS_CardinalityType
<1>n. frame[u].newCount + Cardinality(Waiting) = count + 1
  BY DEF NextInOrder
<1> HIDE DEF Waiting
<1>4. Cardinality(InUpdate) = Cardinality(Uncounted) + Cardinality(Waiting)
  <2>1. Cardinality(Uncounted \cap Waiting) = 0
    BY <1>1, FS_EmptySet
  <2>2. Cardinality(Uncounted \cup Waiting)
          = Cardinality(Uncounted) + Cardinality(Waiting) - Cardinality(Uncounted \cap Waiting)
    BY <1>2, FS_Union
  <2> QED
    BY <1>1, <1>3, <2>1, <2>2
<1>5. Taken = past.calls - Cardinality(InUpdate) /\ count = past.calls - Cardinality(Uncounted)
  BY DEF Taken, CountExact
<1>6. past.calls \in Int /\ count \in Int /\ frame[u].newCount \in Int
  BY DEF TypeOK, FrameType, PastType
<1> QED
  BY ONLY <1>3, <1>4, <1>n, <1>5, <1>6

(* What a thread that has the mutex at its store excludes.                 *)
LEMMA AloneInside ==
    ASSUME LockInv, NEW u \in Updaters, pc[u] \in {"storeM", "storeS"}
    PROVE  \A w \in Updaters : w # u => pc[w] \notin {"loadS", "storeM", "storeS"}
BY DEF LockInv

(* The first call stores its value as the mean.                            *)
LEMMA WelfordFirst ==
    ASSUME TypeOK, TypeOK', LockInv, CountExact, WelfordInv,
           NEW u \in Updaters, StoreFirstM(u), past'.inOrder
    PROVE  WelfordInv'
<1>1. NextInOrder(u) /\ past'.calls = past.calls /\ past'.total = past.total
      /\ past'.squares = past.squares
  <2>1. past'.inOrder = (past.inOrder /\ NextInOrder(u))
    BY DEF StoreFirstM, TypeOK, PastType
  <2>2. past'.calls = past.calls /\ past'.total = past.total /\ past'.squares = past.squares
    BY DEF StoreFirstM, TypeOK, PastType
  <2> QED
    BY <2>1, <2>2, Zenon
<1> DEFINE x == frame[u].value
<1>2. pc[u] = "storeM" /\ Return(u) /\ frame[u].newCount <= 1 /\ varM' = Scale * x /\ varS' = varS
  BY DEF StoreFirstM
<1>3. /\ Taken' = Taken + 1
      /\ TakenTotal' = TakenTotal + x
      /\ TakenSquares' = TakenSquares + x * x
  BY <1>1, <1>2, TakenReturn
<1>4. Taken = 0 \/ Taken < 0
  BY <1>1, <1>2, NextIsTaken, TakenType DEF TypeOK, FrameType
<1>5. Taken = 0
  BY <1>4, TakenType DEF WelfordInv
<1>6. Taken' = 1 /\ TakenTotal' = x /\ TakenSquares' = x * x /\ varS' = 0 /\ x \in Int
  <2>1. TakenTotal = 0 /\ TakenSquares = 0 /\ varS = 0 /\ x \in Int /\ x * x \in Int
    BY <1>5 DEF WelfordInv, TypeOK, FrameType
  <2> HIDE DEF x
  <2> QED
    BY <1>2, <1>3, <1>5, <2>1
<1>7. UpdatersAt({"storeS"})' = {}
  BY <1>2, AloneInside DEF Return, Goto, UpdatersAt, TypeOK, Threads
<1>8. 1 * 0 = Scale * Scale * (1 * (x * x) - x * x) /\ 1 * (Scale * x) = Scale * x
  <2> HIDE DEF x
  <2> QED
    BY <1>6, NumbersAssumption
<1> HIDE DEF x
<1> QED
  BY <1>2, <1>6, <1>7, <1>8 DEF WelfordInv

(* Between the two stores nothing counts as taken yet.                     *)
LEMMA WelfordMeanStored ==
    ASSUME TypeOK, TypeOK', LockInv, CountExact, VarianceInv, WelfordInv,
           NEW u \in Updaters, StoreM(u), past'.inOrder
    PROVE  WelfordInv'
<1>1. NextInOrder(u) /\ past'.calls = past.calls /\ past'.total = past.total
      /\ past'.squares = past.squares
  <2>1. past'.inOrder = (past.inOrder /\ NextInOrder(u))
    BY DEF StoreM, TypeOK, PastType
  <2>2. past'.calls = past.calls /\ past'.total = past.total /\ past'.squares = past.squares
    BY DEF StoreM, TypeOK, PastType
  <2> QED
    BY <2>1, <2>2, Zenon
<1>2. pc[u] = "storeM" /\ frame' = frame /\ varS' = varS /\ pc' = [pc EXCEPT ![u] = "storeS"]
  BY DEF StoreM, Goto
<1>3. InUpdate' = InUpdate
  BY <1>2 DEF InUpdate, TypeOK, Threads
<1>4. Taken' = Taken /\ TakenTotal' = TakenTotal /\ TakenSquares' = TakenSquares
  BY <1>1, <1>2, <1>3, TakenSame
<1>5. UpdatersAt({"storeS"}) = {} /\ UpdatersAt({"storeS"})' = {u}
  BY <1>2, AloneInside DEF UpdatersAt, TypeOK, Threads
<1>6. frame[u].oldM = varM /\ frame[u].newCount = Taken + 1
  BY <1>1, <1>2, NextIsTaken DEF VarianceInv
<1> QED
  BY <1>2, <1>4, <1>5, <1>6 DEF WelfordInv

(* The second store takes the value.                                       *)
LEMMA WelfordStored ==
    ASSUME TypeOK, TypeOK', LockInv, VarianceInv, WelfordInv, ExactScale, CountExact,
           past.calls <= past.started, NEW u \in Updaters, StoreS(u)
    PROVE  WelfordInv'
<1> DEFINE x == frame[u].value
           k == Taken
           M == frame[u].oldM
           V == varS
           d == Scale * x - M
           q == d \div (k + 1)
<1>1. pc[u] = "storeS" /\ Return(u) /\ varM' = varM /\ past' = past
      /\ varS' = frame[u].oldS + d * (Scale * x - varM)
  BY DEF StoreS
<1>2. /\ frame[u].oldS = V /\ frame[u].newCount > 1 /\ frame[u].newCount = k + 1
      /\ varM = M + (d \div frame[u].newCount)
      /\ k * M = Scale * TakenTotal
      /\ k * V = Scale * Scale * (k * TakenSquares - TakenTotal * TakenTotal)
  BY <1>1 DEF VarianceInv, WelfordInv, UpdatersAt
<1>3. /\ x \in Int /\ M \in Int /\ V \in Int /\ k \in Int /\ k > 0 /\ k \in Nat
      /\ TakenTotal \in Int /\ TakenSquares \in Int /\ Scale \in Nat
  BY <1>2, TakenType, NumbersAssumption DEF TypeOK, FrameType
<1>4. k \in 1 .. MaxUpdates - 1
  <2>1. Cardinality(InUpdate) >= 1
    <3>1. u \in InUpdate
      BY <1>1 DEF InUpdate
    <3> QED
      BY <3>1, InUpdateFinite, FS_EmptySet
  <2>2. past.calls \in Int /\ past.started \in Int /\ past.started <= MaxUpdates
    BY NumbersAssumption DEF TypeOK, PastType
  <2> QED
    BY <1>3, <2>1, <2>2, InUpdateFinite, NumbersAssumption DEF Taken
<1>5. Scale % (k * (k + 1)) = 0
  BY <1>4 DEF ExactScale
<1>6. /\ Taken' = k + 1
      /\ TakenTotal' = TakenTotal + x
      /\ TakenSquares' = TakenSquares + x * x
  BY <1>1, TakenReturn
<1>7. UpdatersAt({"storeS"})' = {}
  BY <1>1, AloneInside DEF Return, Goto, UpdatersAt, TypeOK, Threads
<1>8. varM = M + q /\ q \in Int /\ d \in Int
  <2>1. d \in Int
    BY <1>3
  <2> HIDE DEF d, k
  <2> QED
    BY <1>2, <1>3, <2>1
<1>9. varS' = V + d * (d - q)
  <2>1. Scale * x - varM = d - q
    <3>1. Scale * x \in Int
      BY <1>3
    <3> HIDE DEF q
    <3> QED
      BY <1>3, <1>8, <3>1
  <2> QED
    BY <1>1, <1>2, <2>1
<1>10. Moments(Scale, k + 1, TakenTotal + x, TakenSquares + x * x, M + q, V + d * (d - q))
  <2>1. Moments(Scale, k, TakenTotal, TakenSquares, M, V)
    BY <1>2 DEF Moments
  <2>2. d = Scale * x - M /\ q = d \div (k + 1)
    OBVIOUS
  <2> HIDE DEF x, k, M, V, d, q
  <2> QED
    BY ONLY <1>3, <1>5, <2>1, <2>2, WelfordStep, Zenon
<1> HIDE DEF x, k, M, V, d, q
<1> QED
  BY <1>1, <1>3, <1>6, <1>7, <1>8, <1>9, <1>10 DEF WelfordInv, Moments

(* Welford's recurrence under every step.                                  *)
LEMMA ExactStep ==
    ASSUME TypeOK, ClearInv, LockInv, BlankInv, Undisturbed => CountExact,
           Undisturbed => VarianceInv, past.calls <= past.started, ExactScale,
           Undisturbed /\ past.inOrder => WelfordInv, [Next]_vars, Undisturbed', past'.inOrder
    PROVE  WelfordInv'
<1>t. TypeOK'
  BY TypeStep
<1>1. CASE UNCHANGED vars
  <2>1. WelfordInv
    BY <1>1 DEF vars, Undisturbed, Clearing
  <2>2. InUpdate' = InUpdate /\ UpdatersAt({"storeS"})' = UpdatersAt({"storeS"})
    BY <1>1 DEF vars, InUpdate, UpdatersAt
  <2>3. Taken' = Taken /\ TakenTotal' = TakenTotal /\ TakenSquares' = TakenSquares
    BY <1>t, <1>1, <2>2, TakenSame DEF vars
  <2> QED
    BY <1>t, <1>1, <2>1, <2>2, <2>3, WelfordKept DEF vars
<1>2. ASSUME NEW u \in Updaters, NEW v \in Values, SampleUpdate(u, v) PROVE WelfordInv'
  <2>1. past.inOrder = past'.inOrder
    BY <1>2 DEF SampleUpdate, TypeOK, PastType
  <2>2. WelfordInv
    BY <1>2, <2>1, UndisturbedBefore
  <2>3. Taken' = Taken /\ TakenTotal' = TakenTotal /\ TakenSquares' = TakenSquares
    BY <1>t, <1>2, TakenBegin
  <2>4. /\ varM' = varM /\ varS' = varS
        /\ UpdatersAt({"storeS"})' = UpdatersAt({"storeS"})
        /\ \A w \in UpdatersAt({"storeS"}) :
              frame'[w].newCount = frame[w].newCount /\ frame'[w].oldM = frame[w].oldM
    BY <1>2 DEF SampleUpdate, Goto, UpdatersAt, TypeOK, Threads
  <2> QED
    BY <1>t, <2>2, <2>3, <2>4, WelfordKept
<1>3. ASSUME NEW u \in Updaters, UpdaterStep(u) PROVE WelfordInv'
  <2>1. Undisturbed
    BY <1>3, UndisturbedBefore
  <2>2. past.inOrder
    <3>1. CASE StoreFirstM(u) \/ StoreM(u)
      <4>1. past'.inOrder = (past.inOrder /\ NextInOrder(u))
        BY <3>1 DEF StoreFirstM, StoreM, TypeOK, PastType
      <4> QED
        BY <4>1, Zenon
    <3>2. CASE ~(StoreFirstM(u) \/ StoreM(u))
      <4>1. past'.inOrder = past.inOrder
        BY <1>3, <3>2 DEF UpdaterStep, LoadMax, LoadMin, TestMax, SwapMax, FailMax, TestMin, SwapMin,
         FailMin, AddSum, AddCount, LockVariance, LoadS, StoreS, TypeOK, PastType
      <4> QED
        BY <4>1
    <3> QED
      BY <3>1, <3>2
  <2>3. WelfordInv /\ CountExact /\ VarianceInv
    BY <2>1, <2>2
  <2>4. CASE StoreFirstM(u)
    BY <1>t, <2>3, <2>4, WelfordFirst
  <2>5. CASE StoreM(u)
    BY <1>t, <2>3, <2>5, WelfordMeanStored
  <2>6. CASE StoreS(u)
    BY <1>t, <2>3, <2>6, WelfordStored
  <2>7. CASE ~StoreFirstM(u) /\ ~StoreM(u) /\ ~StoreS(u)
    <3>1. /\ varM' = varM /\ varS' = varS
          /\ past'.calls = past.calls /\ past'.total = past.total /\ past'.squares = past.squares
      BY <1>3, <2>7 DEF UpdaterStep, LoadMax, LoadMin, TestMax, SwapMax, FailMax, TestMin, SwapMin,
         FailMin, AddSum, AddCount, LockVariance, LoadS, TypeOK, PastType
    <3>2. InUpdate' = InUpdate /\ UpdatersAt({"storeS"})' = UpdatersAt({"storeS"})
      BY <1>3, <2>7 DEF UpdaterStep, LoadMax, LoadMin, TestMax, SwapMax, FailMax, TestMin, SwapMin,
         FailMin, AddSum, AddCount, LockVariance, LoadS, Goto, InUpdate, UpdatersAt, TypeOK, Threads
    <3>3. \A w \in InUpdate : frame'[w].value = frame[w].value
      <4> USE DEF InUpdate, TypeOK, FrameType
      <4>1. CASE LoadMax(u) \/ LoadMin(u) \/ TestMax(u) \/ SwapMax(u) \/ FailMax(u) \/ TestMin(u)
        BY <4>1 DEF LoadMax, LoadMin, TestMax, SwapMax, FailMax, TestMin
      <4>2. CASE SwapMin(u) \/ FailMin(u) \/ AddSum(u)
        BY <4>2 DEF SwapMin, FailMin, AddSum
      <4>3. CASE AddCount(u)
        BY <4>3 DEF AddCount
      <4>4. CASE LockVariance(u) \/ LoadS(u)
        BY <4>4 DEF LockVariance, LoadS
      <4> QED
        BY <1>3, <2>7, <4>1, <4>2, <4>3, <4>4 DEF UpdaterStep
    <3>4. \A w \in UpdatersAt({"storeS"}) :
             frame'[w].newCount = frame[w].newCount /\ frame'[w].oldM = frame[w].oldM
      <4>1. ASSUME NEW w \in UpdatersAt({"storeS"}) PROVE frame'[w] = frame[w]
        <5>1. (w \in Updaters /\ w # u) \/ frame' = frame
          BY <1>3, <2>7, <4>1 DEF UpdaterStep, LoadMax, LoadMin, TestMax, SwapMax, FailMax, TestMin,
         SwapMin, FailMin, AddSum, AddCount, LockVariance, LoadS, UpdatersAt
        <5> QED
          BY <1>3, <2>7, <4>1, <5>1 DEF UpdaterStep, LoadMax, LoadMin, TestMax, SwapMax, FailMax, TestMin,
         SwapMin, FailMin, AddSum, AddCount, LockVariance, LoadS, UpdatersAt, TypeOK
      <4> QED
        BY <4>1
    <3>5. Taken' = Taken /\ TakenTotal' = TakenTotal /\ TakenSquares' = TakenSquares
      BY <1>t, <3>1, <3>2, <3>3, TakenSame
    <3> QED
      BY <1>t, <2>3, <3>1, <3>2, <3>4, <3>5, WelfordKept
  <2> QED
    BY <2>4, <2>5, <2>6, <2>7
<1>4. ASSUME NEW c \in Clearers, ClearMin(c) \/ ClearerStep(c) PROVE WelfordInv'
  <2>1. Blank' /\ ~Updating' /\ past'.calls = 0
    BY <1>4, ClearLeavesBlank
  <2>2. InUpdate' = {} /\ UpdatersAt({"storeS"})' = {}
    BY <2>1 DEF Updating, InUpdate, UpdatersAt
  <2>3. Cardinality(InUpdate') = 0 /\ Carried(frame', InUpdate') = 0
        /\ Carried(Squared(frame'), InUpdate') = 0
    BY <2>2, CarriedNothing, FS_EmptySet
  <2>4. Taken' = 0 /\ TakenTotal' = 0 /\ TakenSquares' = 0 /\ varS' = 0 /\ varM' = 0
    BY <2>1, <2>3 DEF Taken, TakenTotal, TakenSquares, Blank
  <2>5. 0 * 0 = Scale * Scale * (0 * 0 - 0 * 0) /\ 0 * 0 = Scale * 0
    BY NumbersAssumption
  <2> QED
    BY <2>2, <2>4, <2>5 DEF WelfordInv
<1>5. ASSUME NEW r \in Readers, ReaderStep(r) PROVE WelfordInv'
  <2>1. /\ UNCHANGED <<varM, varS, frame, past>>
        /\ Clearing' = Clearing /\ \A u \in Updaters : pc'[u] = pc[u]
    BY <1>5, ReaderMoves, ReaderKeeps, OthersKeepClearing, OthersKeepUpdating
  <2>2. WelfordInv /\ InUpdate' = InUpdate /\ UpdatersAt({"storeS"})' = UpdatersAt({"storeS"})
    BY <2>1 DEF Undisturbed, InUpdate, UpdatersAt
  <2>3. Taken' = Taken /\ TakenTotal' = TakenTotal /\ TakenSquares' = TakenSquares
    BY <1>t, <2>1, <2>2, TakenSame
  <2> QED
    BY <1>t, <2>1, <2>2, <2>3, WelfordKept
<1> QED
  BY <1>1, <1>2, <1>3, <1>4, <1>5, StepKinds

----------------------------------------------------------------------------
(* The invariant.                                                          *)

(* The invariant holds at the beginning.                                   *)
LEMMA IndInit == Init => IndInv
<1> SUFFICES ASSUME Init PROVE IndInv
  OBVIOUS
<1>1. ExtremesInv
  BY ExtremesInit
<1>2. \A t \in Threads : pc[t] = "idle"
  BY DEF Init
<1>3. /\ past.calls = 0 /\ past.total = 0 /\ past.squares = 0
      /\ past.begun = {} /\ past.started = 0
      /\ past.clearRaced = FALSE
  BY DEF Init, FreshPast
<1>4. Undisturbed /\ ~Updating
  BY <1>2, <1>3 DEF Undisturbed, Clearing, Updating, Threads
<1>5. LockInv
  BY <1>2, ThreadsAssumption DEF LockInv, Threads, Init
<1>6. BlankInv
  BY <1>4 , <1>3 DEF BlankInv, Init
<1>7. Uncounted = {} /\ Unsummed = {} /\ UpdatersAt({"addCount"}) = {}
  BY <1>2 DEF Unsummed, Uncounted, UpdatersAt, BeforeCount, Threads
<1>8. Accounting
  <2>1. Carried(frame, Unsummed) = 0 /\ Cardinality(Uncounted) = 0
    BY <1>7, CarriedNothing, FS_EmptySet
  <2>2. Wrap(0) = 0
    BY NumbersAssumption DEF Wrap
  <2>3. past.total - Carried(frame, Unsummed) = 0
    BY <1>3, <2>1
  <2> QED
    BY <1>3, <2>1, <2>2, <2>3 DEF Accounting, CountExact, SumExact, SampleExact, Init
<1>9. VarianceInv
  BY <1>2 DEF VarianceInv, Threads, Init
<1>12. WelfordInv
  <2>1. InUpdate = {} /\ UpdatersAt({"storeS"}) = {}
    BY <1>2 DEF InUpdate, UpdatersAt, Threads
  <2>2. Cardinality(InUpdate) = 0 /\ Carried(frame, InUpdate) = 0
        /\ Carried(Squared(frame), InUpdate) = 0
    BY <2>1, CarriedNothing, FS_EmptySet
  <2>3. Taken = 0 /\ TakenTotal = 0 /\ TakenSquares = 0 /\ varS = 0 /\ varM = 0
    BY <1>3, <2>2 DEF Taken, TakenTotal, TakenSquares, Init
  <2>4. 0 * 0 = Scale * Scale * (0 * 0 - 0 * 0) /\ 0 * 0 = Scale * 0
    BY NumbersAssumption
  <2> QED
    BY <2>1, <2>3, <2>4 DEF WelfordInv
<1>10. ReadersInv
  BY <1>2, <1>3, <1>4 DEF ReadersInv, Threads, Init
<1>11. MeanInv
  <2>1. Summed = 0
    BY <1>7, FS_EmptySet DEF Summed, Init
  <2>2. sum = 0 /\ \A r \in Readers : reading[r].counted = 0 /\ reading[r].loaded = 0
    BY DEF Init
  <2>3. \A b \in 0 .. Half - 1 : b * 0 = 0
    BY NumbersAssumption
  <2> QED
    BY <2>1, <2>2, <2>3 DEF MeanInv
<1> QED
  BY <1>1, <1>3, <1>5, <1>6, <1>8, <1>9, <1>10, <1>11, <1>12 DEF IndInv

(* No call is counted as begun before it started.                          *)
LEMMA StartedStep ==
    ASSUME TypeOK, past.calls <= past.started, [Next]_vars PROVE past'.calls <= past'.started
<1> USE DEF TypeOK, PastType
<1>1. CASE UNCHANGED vars
  BY <1>1 DEF vars
<1>2. ASSUME NEW u \in Updaters, NEW v \in Values, SampleUpdate(u, v)
      PROVE  past'.calls <= past'.started
  BY <1>2 DEF SampleUpdate
<1>3. ASSUME NEW u \in Updaters, UpdaterStep(u) PROVE past'.calls <= past'.started
  BY <1>3 DEF UpdaterStep, LoadMax, LoadMin, TestMax, SwapMax, FailMax, TestMin, SwapMin,
     FailMin, AddSum, AddCount, LockVariance, LoadS, StoreFirstM, StoreM, StoreS
<1>4. ASSUME NEW c \in Clearers, ClearMin(c) PROVE past'.calls <= past'.started
  BY <1>4 DEF ClearMin, FreshPast
<1>5. ASSUME NEW c \in Clearers, ClearerStep(c) PROVE past' = past
  BY <1>5 DEF ClearerStep, ClearMax, ClearSum, ClearCount, ClearM, ClearS, ClearSample
<1>6. ASSUME NEW r \in Readers, ReaderStep(r) PROVE past' = past
  BY <1>6, ReaderKeeps
<1> QED
  BY <1>1, <1>2, <1>3, <1>4, <1>5, <1>6, StepKinds

(* The invariant under every step, part by part.                           *)
LEMMA IndStep == IndInv /\ [Next]_vars => IndInv'
<1> SUFFICES ASSUME IndInv, [Next]_vars PROVE IndInv'
  OBVIOUS
<1>1. /\ ExtremesInv /\ LockInv /\ BlankInv /\ Accounting
      /\ past.calls <= past.started
      /\ Undisturbed => VarianceInv
      /\ Undisturbed /\ past.inOrder /\ ExactScale => WelfordInv
      /\ past.clears = 0 => ReadersInv
      /\ past.clears = 0 /\ NoOverflow => MeanInv
  BY DEF IndInv
<1>2. TypeOK /\ ClearInv /\ (Undisturbed => SeedInv)
  BY <1>1 DEF ExtremesInv
<1>3. ExtremesInv'
  BY <1>1, TypeStep, ClearInvStep, SeedStep, CalmStep DEF ExtremesInv, Quiet, CalmInv
<1>4. LockInv' /\ BlankInv'
  BY <1>1, <1>2, LockStep, BlankStep
<1>5. Undisturbed' => CountExact'
  BY <1>1, <1>2, CountStep DEF Accounting
<1>6. Undisturbed' => SumExact' /\ SampleExact'
  BY <1>1, <1>2, SumStep DEF Accounting
<1>7. Accounting'
  BY <1>5, <1>6 DEF Accounting
<1>8. Undisturbed' => VarianceInv'
  BY <1>1, <1>2, VarianceStep
<1>9. past'.clears = 0 => ReadersInv'
  BY <1>1, <1>2, ReadersStep
<1>10. past'.clears = 0 /\ NoOverflow => MeanInv'
  BY <1>1, <1>2, MeanStep
<1>11. Undisturbed' /\ past'.inOrder /\ ExactScale => WelfordInv'
  BY <1>1, <1>2, ExactStep DEF Accounting
<1>12. past'.calls <= past'.started
  BY <1>1, <1>2, StartedStep
<1> QED
  BY <1>3, <1>4, <1>7, <1>8, <1>9, <1>10, <1>11, <1>12 DEF IndInv, NoOverflow, ExactScale

(* IndInv holds in every reachable state of any instance.                  *)
THEOREM IndInvHolds == Spec => []IndInv
BY IndInit, IndStep, PTL DEF Spec

(* At every moment the count, the sum in 64-bit arithmetic and the sample  *)
(* are those of the calls that reached them, in every interleaving that    *)
(* does not meet clear().                                                  *)
THEOREM AccountingHolds == Spec => []Accounting
<1>1. IndInv => Accounting
  BY DEF IndInv
<1> QED
  BY <1>1, IndInvHolds, PTL

(* The variance is never negative, in whatever order the calls take        *)
(* variance_mutex_: the thread inside it owns both fields.                 *)
THEOREM VarianceNonNegativeHolds == Spec => []VarianceNonNegative
<1>1. IndInv => VarianceNonNegative
  BY DEF IndInv, VarianceNonNegative, VarianceInv
<1> QED
  BY <1>1, IndInvHolds, PTL

(* With no call under way variance_s_ / (count - 1) is the variance of the *)
(* values, if the calls took variance_mutex_ in the order of their counts, *)
(* in a unit that divides by the counts.                                   *)
THEOREM VarianceExactHolds == Spec => [](ExactScale => VarianceExact)
<1>1. IndInv => (ExactScale => VarianceExact)
  <2> SUFFICES ASSUME IndInv, ExactScale, Undisturbed, past.inOrder, ~Updating
               PROVE  count * varS
                        = Scale * Scale * (count * past.squares - past.total * past.total)
    BY DEF VarianceExact
  <2>1. TypeOK /\ CountExact /\ WelfordInv
    BY DEF IndInv, ExtremesInv, Accounting
  <2>2. InUpdate = {} /\ Uncounted = {}
    BY DEF Updating, InUpdate, Uncounted, UpdatersAt, BeforeCount
  <2>3. Cardinality(InUpdate) = 0 /\ Cardinality(Uncounted) = 0
        /\ Carried(frame, InUpdate) = 0 /\ Carried(Squared(frame), InUpdate) = 0
    BY <2>2, CarriedNothing, FS_EmptySet
  <2>4. Taken = count /\ TakenTotal = past.total /\ TakenSquares = past.squares
    BY <2>1, <2>3 DEF Taken, TakenTotal, TakenSquares, CountExact, TypeOK, PastType
  <2> QED
    BY <2>1, <2>4 DEF WelfordInv
<1> QED
  BY <1>1, IndInvHolds, PTL

(* A clear() that met no call of update() leaves the object as new.        *)
THEOREM ClearedIsNewHolds == Spec => []ClearedIsNew
<1>1. IndInv => ClearedIsNew
  BY ClearedBlank DEF IndInv, ExtremesInv, ClearedIsNew, Blank
<1> QED
  BY <1>1, IndInvHolds, PTL

(* What max() and min() return without a clear() was passed to update().   *)
THEOREM ExtremeReadsRecordedHolds == Spec => []ExtremeReadsRecorded
<1>1. IndInv => ExtremeReadsRecorded
  BY DEF IndInv, ReadersInv, ExtremeReadsRecorded
<1> QED
  BY <1>1, IndInvHolds, PTL

(* The mean a thread gets, without a clear() and without overflow, is not  *)
(* below the least value ever passed to update().                          *)
THEOREM MeanCoversCountedHolds == Spec => []MeanCoversCounted
<1>1. IndInv => MeanCoversCounted
  <2> SUFFICES ASSUME IndInv, past.clears = 0, NoOverflow,
                      NEW r \in Readers, pc[r] = "idle", reading[r].op = "mean",
                      reading[r].counted > 0
               PROVE  reading[r].loaded >= reading[r].counted * Min(past.begun)
    BY DEF MeanCoversCounted
  <2>1. TypeOK /\ SeedInv /\ ReadersInv /\ MeansCover
    BY MeanInvParts DEF IndInv, ExtremesInv, ReadersInv
  <2>2. count > 0 /\ past.begun # {} /\ past.begun \in SUBSET Values
    BY <2>1 DEF ReadersInv, SeedInv, TypeOK, PastType
  <2>3. PICK v \in past.begun : v \in 0 .. Half - 1 /\ \A w \in past.begun : v <= w
    BY <2>2, LeastValue
  <2>4. Min(past.begun) = v
    <3>1. \A w \in past.begun : w \in Int
      BY <2>2, NumbersAssumption
    <3> QED
      BY <2>3, <3>1 DEF Min
  <2>5. v * reading[r].counted <= reading[r].loaded
    BY <2>1, <2>3 DEF MeansCover
  <2>6. v * reading[r].counted = reading[r].counted * v
        /\ v * reading[r].counted \in Int /\ reading[r].loaded \in Int
    BY <2>1, <2>3 DEF TypeOK
  <2> QED
    BY <2>4, <2>5, <2>6
<1> QED
  BY <1>1, IndInvHolds, PTL
=============================================================================
