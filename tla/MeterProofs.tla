---------------------------- MODULE MeterProofs ----------------------------
(***************************************************************************)
(* Theorems about Meter for every number of threads, every interval, every *)
(* clock and every smoothing.                                              *)
(***************************************************************************)
EXTENDS Meter, TLAPS

(* What integer division gives, for the ticks that are due and the rates.  *)
LEMMA DivFacts ==
    ASSUME NEW a \in Int, NEW d \in Nat \ {0}
    PROVE  /\ a \div d \in Int
           /\ d * (a \div d) <= a
           /\ a < d * (a \div d) + d
OBVIOUS

(* After more than an interval at least one tick is due, and no more ticks *)
(* than there is time for; before that none is.                            *)
LEMMA RequiredFacts ==
    ASSUME NEW age \in Int
    PROVE  /\ Required(age) \in Nat
           /\ age > Interval => Required(age) > 0 /\ Interval * Required(age) <= age
           /\ age <= Interval => Required(age) = 0
<1>1. /\ age \div Interval \in Int
      /\ Interval * (age \div Interval) <= age
      /\ age < Interval * (age \div Interval) + Interval
  BY DivFacts, MeterAssumption
<1>2. ASSUME age > Interval, age \div Interval <= 0 PROVE FALSE
  <2>1. Interval * (age \div Interval) <= 0
    BY <1>1, <1>2, MeterAssumption
  <2> QED
    BY <1>1, <1>2, <2>1, MeterAssumption
<1> QED
  BY <1>1, <1>2, MeterAssumption DEF Required


LEMMA CallMarkStep ==
    ASSUME MeterInv, NEW t \in Threads, NEW n \in Amounts, CallMark(t, n)
    PROVE  MeterInv'
<1> USE MeterAssumption DEF CallMark, Goto, averages, locals, Inside, Ticking, Averages
<1>1. TypeOK'
  BY RequiredFacts DEF MeterInv, TypeOK, MutexInv, Body, Smoothed
<1>2. MutexInv'
  BY RequiredFacts DEF MeterInv, TypeOK, MutexInv, Body, Required
<1>3. NothingLost'
  BY DEF MeterInv, TypeOK, MutexInv, NothingLost, InHand, Owed, Body
<1>4. TicksNotEarly'
  BY DEF MeterInv, TypeOK, MutexInv, TicksNotEarly, DueOf, Body
<1>5. InStep'
  BY DEF MeterInv, TypeOK, MutexInv, InStep, DueOf, Body
<1> QED
  BY <1>1, <1>2, <1>3, <1>4, <1>5 DEF MeterInv

LEMMA CallRateStep ==
    ASSUME MeterInv, NEW t \in Threads, NEW i \in Averages, CallRate(t, i)
    PROVE  MeterInv'
<1> USE MeterAssumption DEF CallRate, Goto, averages, locals, Inside, Ticking, Averages
<1>1. TypeOK'
  BY RequiredFacts DEF MeterInv, TypeOK, MutexInv, Body, Smoothed
<1>2. MutexInv'
  BY RequiredFacts DEF MeterInv, TypeOK, MutexInv, Body, Required
<1>3. NothingLost'
  BY DEF MeterInv, TypeOK, MutexInv, NothingLost, InHand, Owed, Body
<1>4. TicksNotEarly'
  BY DEF MeterInv, TypeOK, MutexInv, TicksNotEarly, DueOf, Body
<1>5. InStep'
  BY DEF MeterInv, TypeOK, MutexInv, InStep, DueOf, Body
<1> QED
  BY <1>1, <1>2, <1>3, <1>4, <1>5 DEF MeterInv

LEMMA LockStep ==
    ASSUME MeterInv, NEW t \in Threads, Lock(t)
    PROVE  MeterInv'
<1> USE MeterAssumption DEF Lock, Goto, averages, locals, Inside, Ticking, Averages
<1>1. TypeOK'
  BY RequiredFacts DEF MeterInv, TypeOK, MutexInv, Body, Smoothed
<1>2. MutexInv'
  BY RequiredFacts DEF MeterInv, TypeOK, MutexInv, Body, Required
<1>3. NothingLost'
  BY DEF MeterInv, TypeOK, MutexInv, NothingLost, InHand, Owed, Body
<1>4. TicksNotEarly'
  BY DEF MeterInv, TypeOK, MutexInv, TicksNotEarly, DueOf, Body
<1>5. InStep'
  BY DEF MeterInv, TypeOK, MutexInv, InStep, DueOf, Body
<1> QED
  BY <1>1, <1>2, <1>3, <1>4, <1>5 DEF MeterInv

LEMMA ReadClockStep ==
    ASSUME MeterInv, NEW t \in Threads, ReadClock(t)
    PROVE  MeterInv'
<1> USE MeterAssumption DEF ReadClock, Goto, averages, locals, Inside, Ticking, Averages
<1>1. TypeOK'
  BY RequiredFacts DEF MeterInv, TypeOK, MutexInv, Body, Smoothed
<1>2. MutexInv'
  <2>1. now - lastTick \in Int
    BY DEF MeterInv, TypeOK
  <2>2. /\ Required(now - lastTick) \in Nat
        /\ Required(now - lastTick) > 0 =>
              /\ now - lastTick > Interval
              /\ Required(now - lastTick) = (now - lastTick) \div Interval
    BY <2>1, RequiredFacts DEF Required
  <2>3. /\ seen' = [seen EXCEPT ![t] = now]
        /\ due' = [due EXCEPT ![t] = Required(now - lastTick)]
        /\ pc' = [pc EXCEPT ![t] = IF Required(now - lastTick) > 0 THEN "store" ELSE Body(t)]
        /\ Body(t) \in {"count", "read"}
        /\ pc[t] = "clock"
        /\ UNCHANGED <<lastTick, mutex, uncounted, at, taken>>
    BY DEF Body
  <2> HIDE DEF ReadClock
  <2> QED
    BY <2>1, <2>2, <2>3 DEF MeterInv, TypeOK, MutexInv
<1>3. NothingLost'
  BY DEF MeterInv, TypeOK, MutexInv, NothingLost, InHand, Owed, Body
<1>4. TicksNotEarly'
  BY DEF MeterInv, TypeOK, MutexInv, TicksNotEarly, DueOf, Body
<1>5. InStep'
  BY DEF MeterInv, TypeOK, MutexInv, InStep, DueOf, Body
<1> QED
  BY <1>1, <1>2, <1>3, <1>4, <1>5 DEF MeterInv

LEMMA StoreTickStep ==
    ASSUME MeterInv, NEW t \in Threads, StoreTick(t)
    PROVE  MeterInv'
<1> USE MeterAssumption DEF StoreTick, Goto, averages, locals, Inside, Ticking, Averages
<1>1. TypeOK'
  BY RequiredFacts DEF MeterInv, TypeOK, MutexInv, Body, Smoothed
<1>2. MutexInv'
  BY RequiredFacts DEF MeterInv, TypeOK, MutexInv, Body, Required
<1>3. NothingLost'
  BY DEF MeterInv, TypeOK, MutexInv, NothingLost, InHand, Owed, Body
<1>4. TicksNotEarly'
  <2> SUFFICES ASSUME NEW i \in Averages
               PROVE  Interval * (ticks[i] + DueOf(i)')  <= lastTick'
    BY DEF TicksNotEarly
  <2>a. mutex = t
    BY DEF MeterInv, MutexInv
  <2>b. /\ seen[t] \in Int /\ lastTick \in Int /\ ticks[i] \in Nat /\ due[t] \in Nat
        /\ seen[t] - lastTick \in Int
    BY DEF MeterInv, TypeOK
  <2>1. /\ mutex = t
        /\ seen[t] \in Int /\ lastTick \in Int /\ ticks[i] \in Nat /\ due[t] \in Nat
        /\ seen[t] - lastTick \in Int
    BY <2>a, <2>b
  <2>0. due[t] = (seen[t] - lastTick) \div Interval
    BY DEF MeterInv, MutexInv
  <2>2. Interval * ticks[i] <= lastTick
    BY <2>1 DEF MeterInv, TicksNotEarly, DueOf, TypeOK
  <2>3. Interval * due[t] <= seen[t] - lastTick
    BY <2>0, <2>1, DivFacts
  <2>4. DueOf(i)' = due[t] /\ lastTick' = seen[t]
    BY <2>1 DEF MeterInv, TypeOK, DueOf
  <2>5. Interval * (ticks[i] + due[t]) = Interval * ticks[i] + Interval * due[t]
    BY <2>1
  <2> QED
    BY <2>1, <2>2, <2>3, <2>4, <2>5
<1>5. InStep'
  BY DEF MeterInv, TypeOK, MutexInv, InStep, DueOf, Body
<1> QED
  BY <1>1, <1>2, <1>3, <1>4, <1>5 DEF MeterInv

LEMMA TakeUncountedStep ==
    ASSUME MeterInv, NEW t \in Threads, TakeUncounted(t)
    PROVE  MeterInv'
<1> USE MeterAssumption DEF TakeUncounted, Goto, averages, locals, Inside, Ticking, Averages
<1>1. TypeOK'
  BY RequiredFacts DEF MeterInv, TypeOK, MutexInv, Body, Smoothed
<1>2. MutexInv'
  BY RequiredFacts DEF MeterInv, TypeOK, MutexInv, Body, Required
<1>3. NothingLost'
  BY DEF MeterInv, TypeOK, MutexInv, NothingLost, InHand, Owed, Body
<1>4. TicksNotEarly'
  BY DEF MeterInv, TypeOK, MutexInv, TicksNotEarly, DueOf, Body
<1>5. InStep'
  BY DEF MeterInv, TypeOK, MutexInv, InStep, DueOf, Body
<1> QED
  BY <1>1, <1>2, <1>3, <1>4, <1>5 DEF MeterInv

LEMMA ClearUncountedStep ==
    ASSUME MeterInv, NEW t \in Threads, ClearUncounted(t)
    PROVE  MeterInv'
<1> USE MeterAssumption DEF ClearUncounted, Goto, averages, locals, Inside, Ticking, Averages
<1>1. TypeOK'
  BY RequiredFacts DEF MeterInv, TypeOK, MutexInv, Body, Smoothed
<1>2. MutexInv'
  BY RequiredFacts DEF MeterInv, TypeOK, MutexInv, Body, Required
<1>3. NothingLost'
  BY DEF MeterInv, TypeOK, MutexInv, NothingLost, InHand, Owed, Body
<1>4. TicksNotEarly'
  BY DEF MeterInv, TypeOK, MutexInv, TicksNotEarly, DueOf, Body
<1>5. InStep'
  BY DEF MeterInv, TypeOK, MutexInv, InStep, DueOf, Body
<1> QED
  BY <1>1, <1>2, <1>3, <1>4, <1>5 DEF MeterInv

LEMMA FoldStep ==
    ASSUME MeterInv, NEW t \in Threads, Fold(t)
    PROVE  MeterInv'
<1> USE MeterAssumption DEF Fold, Goto, averages, locals, Inside, Ticking, Averages
<1>1. TypeOK'
  BY RequiredFacts DEF MeterInv, TypeOK, MutexInv, Body, Smoothed
<1>2. MutexInv'
  BY RequiredFacts DEF MeterInv, TypeOK, MutexInv, Body, Required
<1>3. NothingLost'
  BY DEF MeterInv, TypeOK, MutexInv, NothingLost, InHand, Owed, Body
<1>a. ASSUME NEW j \in Averages
      PROVE  (ticks[j] + DueOf(j))' = ticks[j] + DueOf(j)
  <2>1. /\ mutex = t /\ mutex' = t /\ t # NoThread
        /\ at[t] \in 1 .. 3 /\ due[t] \in Nat /\ due[t] > 0 /\ ticks[j] \in Nat
    BY DEF MeterInv, TypeOK, MutexInv
  <2>2. DueOf(j) = IF j < at[t] THEN due[t] - 1 ELSE due[t]
    BY <2>1 DEF DueOf
  <2>3. ticks'[j] = IF j = at[t] THEN ticks[j] + 1 ELSE ticks[j]
    BY DEF MeterInv, TypeOK
  <2>4. /\ pc'[t] = IF at[t] < 3 \/ due[t] > 1 THEN "take" ELSE Body(t)
        /\ at'[t] = IF at[t] < 3 THEN at[t] + 1 ELSE 1
        /\ due'[t] = IF at[t] < 3 THEN due[t] ELSE due[t] - 1
    BY DEF MeterInv, TypeOK
  <2>5. DueOf(j)' = IF at[t] < 3 THEN IF j < at[t] + 1 THEN due[t] - 1 ELSE due[t]
                    ELSE due[t] - 1
    BY <2>1, <2>4 DEF DueOf, Body
  <2> QED
    BY <2>1, <2>2, <2>3, <2>5
<1>4. TicksNotEarly'
  BY <1>a DEF MeterInv, TicksNotEarly
<1>b. ASSUME at[t] = 3, NEW j \in Averages
      PROVE  folded'[j] = count
  BY <1>b DEF MeterInv, TypeOK, MutexInv, NothingLost, InHand, Owed
<1>c. ASSUME at[t] < 3
      PROVE  pc'[t] \in Ticking
  BY <1>c DEF MeterInv, TypeOK
<1>5. InStep'
  <2> SUFFICES ASSUME NEW j \in Averages, NEW k \in Averages
               PROVE  /\ (ticks[j] + DueOf(j))' = (ticks[k] + DueOf(k))'
                      /\ (\A u \in Threads : pc'[u] \notin Ticking) => folded'[j] = folded'[k]
    BY DEF InStep
  <2>1. (ticks[j] + DueOf(j))' = (ticks[k] + DueOf(k))'
    BY <1>a DEF MeterInv, InStep
  <2>2. at[t] = 3 \/ at[t] < 3
    BY DEF MeterInv, TypeOK
  <2> QED
    BY <1>b, <1>c, <2>1, <2>2
<1> QED
  BY <1>1, <1>2, <1>3, <1>4, <1>5 DEF MeterInv

LEMMA AddCountStep ==
    ASSUME MeterInv, NEW t \in Threads, AddCount(t)
    PROVE  MeterInv'
<1> USE MeterAssumption DEF AddCount, Goto, averages, locals, Inside, Ticking, Averages
<1>1. TypeOK'
  BY RequiredFacts DEF MeterInv, TypeOK, MutexInv, Body, Smoothed
<1>2. MutexInv'
  BY RequiredFacts DEF MeterInv, TypeOK, MutexInv, Body, Required
<1>3. NothingLost'
  BY DEF MeterInv, TypeOK, MutexInv, NothingLost, InHand, Owed, Body
<1>4. TicksNotEarly'
  BY DEF MeterInv, TypeOK, MutexInv, TicksNotEarly, DueOf, Body
<1>5. InStep'
  BY DEF MeterInv, TypeOK, MutexInv, InStep, DueOf, Body
<1> QED
  BY <1>1, <1>2, <1>3, <1>4, <1>5 DEF MeterInv

LEMMA UpdateStep ==
    ASSUME MeterInv, NEW t \in Threads, Update(t)
    PROVE  MeterInv'
<1> USE MeterAssumption DEF Update, Goto, averages, locals, Inside, Ticking, Averages
<1>1. TypeOK'
  BY RequiredFacts DEF MeterInv, TypeOK, MutexInv, Body, Smoothed
<1>2. MutexInv'
  BY RequiredFacts DEF MeterInv, TypeOK, MutexInv, Body, Required
<1>3. NothingLost'
  BY DEF MeterInv, TypeOK, MutexInv, NothingLost, InHand, Owed, Body
<1>4. TicksNotEarly'
  BY DEF MeterInv, TypeOK, MutexInv, TicksNotEarly, DueOf, Body
<1>5. InStep'
  BY DEF MeterInv, TypeOK, MutexInv, InStep, DueOf, Body
<1> QED
  BY <1>1, <1>2, <1>3, <1>4, <1>5 DEF MeterInv

LEMMA ReadRateStep ==
    ASSUME MeterInv, NEW t \in Threads, ReadRate(t)
    PROVE  MeterInv'
<1> USE MeterAssumption DEF ReadRate, Goto, averages, locals, Inside, Ticking, Averages
<1>1. TypeOK'
  BY RequiredFacts DEF MeterInv, TypeOK, MutexInv, Body, Smoothed
<1>2. MutexInv'
  BY RequiredFacts DEF MeterInv, TypeOK, MutexInv, Body, Required
<1>3. NothingLost'
  BY DEF MeterInv, TypeOK, MutexInv, NothingLost, InHand, Owed, Body
<1>4. TicksNotEarly'
  BY DEF MeterInv, TypeOK, MutexInv, TicksNotEarly, DueOf, Body
<1>5. InStep'
  BY DEF MeterInv, TypeOK, MutexInv, InStep, DueOf, Body
<1> QED
  BY <1>1, <1>2, <1>3, <1>4, <1>5 DEF MeterInv

LEMMA UnlockStep ==
    ASSUME MeterInv, NEW t \in Threads, Unlock(t)
    PROVE  MeterInv'
<1> USE MeterAssumption DEF Unlock, Goto, averages, locals, Inside, Ticking, Averages
<1>1. TypeOK'
  BY RequiredFacts DEF MeterInv, TypeOK, MutexInv, Body, Smoothed
<1>2. MutexInv'
  BY RequiredFacts DEF MeterInv, TypeOK, MutexInv, Body, Required
<1>3. NothingLost'
  BY DEF MeterInv, TypeOK, MutexInv, NothingLost, InHand, Owed, Body
<1>4. TicksNotEarly'
  BY DEF MeterInv, TypeOK, MutexInv, TicksNotEarly, DueOf, Body
<1>5. InStep'
  BY DEF MeterInv, TypeOK, MutexInv, InStep, DueOf, Body
<1> QED
  BY <1>1, <1>2, <1>3, <1>4, <1>5 DEF MeterInv

LEMMA MoveClockStep ==
    ASSUME MeterInv, NEW d \in Steps, MoveClock(d)
    PROVE  MeterInv'
<1> USE MeterAssumption DEF MoveClock, Goto, averages, locals, Inside, Ticking, Averages
<1>1. TypeOK'
  BY RequiredFacts DEF MeterInv, TypeOK, MutexInv, Body, Smoothed
<1>2. MutexInv'
  BY RequiredFacts DEF MeterInv, TypeOK, MutexInv, Body, Required
<1>3. NothingLost'
  BY DEF MeterInv, TypeOK, MutexInv, NothingLost, InHand, Owed, Body
<1>4. TicksNotEarly'
  BY DEF MeterInv, TypeOK, MutexInv, TicksNotEarly, DueOf, Body
<1>5. InStep'
  BY DEF MeterInv, TypeOK, MutexInv, InStep, DueOf, Body
<1> QED
  BY <1>1, <1>2, <1>3, <1>4, <1>5 DEF MeterInv

(* The invariant holds at the start, every step preserves it.              *)
LEMMA MeterInvInit == Init => MeterInv
BY MeterAssumption
   DEF Init, MeterInv, TypeOK, MutexInv, NothingLost, TicksNotEarly, InStep, InHand, Owed, DueOf,
       Inside, Ticking, Averages

LEMMA MeterInvStep == MeterInv /\ [Next]_vars => MeterInv'
<1> SUFFICES ASSUME MeterInv, [Next]_vars PROVE MeterInv'
  OBVIOUS
<1>1. CASE UNCHANGED vars
  BY <1>1
     DEF vars, averages, locals, MeterInv, TypeOK, MutexInv, NothingLost, TicksNotEarly, InStep,
         InHand, Owed, DueOf
<1>2. ASSUME NEW t \in Threads, ThreadStep(t) PROVE MeterInv'
  BY <1>2, LockStep, ReadClockStep, StoreTickStep, TakeUncountedStep, ClearUncountedStep, FoldStep,
     AddCountStep, UpdateStep, ReadRateStep, UnlockStep DEF ThreadStep
<1> QED
  BY <1>1, <1>2, CallMarkStep, CallRateStep, MoveClockStep DEF Next

(* Types, the mutex, the conservation of events and the pace of the ticks  *)
(* hold in every state, whatever the interleaving and the clock.           *)
THEOREM MeterInvHolds == Spec => []MeterInv
BY MeterInvInit, MeterInvStep, PTL DEF Spec

(* No interleaving of marks and ticks loses or doubles an event.           *)
THEOREM NothingLostHolds == Spec => []NothingLost
<1>1. MeterInv => NothingLost
  BY DEF MeterInv
<1> QED
  BY <1>1, MeterInvHolds, PTL

(* Between calls the three averages agree with each other and with count().*)
THEOREM AveragesAgreeHolds == Spec => []AveragesAgree
<1>1. MeterInv => AveragesAgree
  <2> SUFFICES ASSUME MeterInv, \A t \in Threads : pc[t] \notin Inside,
                      NEW i \in Averages, NEW j \in Averages
               PROVE  /\ ticks[i] = ticks[j]
                      /\ folded[i] = folded[j]
                      /\ folded[i] + uncounted[i] = count
    BY DEF AveragesAgree
  <2>1. mutex = NoThread
    BY DEF MeterInv, TypeOK, MutexInv
  <2>2. \A k \in Averages : InHand(k) = 0 /\ Owed(k) = 0 /\ DueOf(k) = 0
    BY <2>1 DEF InHand, Owed, DueOf
  <2>3. \A t \in Threads : pc[t] \notin Ticking
    BY DEF Inside
  <2> QED
    BY <2>2, <2>3 DEF MeterInv, TypeOK, NothingLost, InStep
<1> QED
  BY <1>1, MeterInvHolds, PTL

(* last_tick_ never goes back, even if the clock does.                     *)
THEOREM LastTickOnlyGrowsHolds == Spec => LastTickOnlyGrows
<1>1. MeterInv /\ [Next]_vars => [lastTick' >= lastTick]_vars
  <2> SUFFICES ASSUME MeterInv, [Next]_vars PROVE lastTick' >= lastTick \/ UNCHANGED vars
    OBVIOUS
  <2>1. lastTick \in Int
    BY DEF MeterInv, TypeOK
  <2>2. ASSUME NEW t \in Threads, StoreTick(t) PROVE lastTick' >= lastTick
    <3>1. seen[t] - lastTick > Interval /\ seen[t] \in Int /\ lastTick' = seen[t]
      BY <2>2 DEF StoreTick, MeterInv, MutexInv, TypeOK
    <3> QED
      BY <2>1, <3>1, MeterAssumption
  <2>3. ASSUME ~(\E t \in Threads : StoreTick(t)), ~UNCHANGED vars PROVE lastTick' = lastTick
    BY <2>3
       DEF Next, ThreadStep, CallMark, CallRate, Lock, ReadClock, TakeUncounted, ClearUncounted,
           Fold, AddCount, Update, ReadRate, Unlock, MoveClock
  <2> QED
    BY <2>1, <2>2, <2>3
<1> QED
  BY <1>1, MeterInvHolds, PTL DEF Spec, LastTickOnlyGrows

(* A rate is read with no whole interval left to make up.                  *)
THEOREM ReadIsFreshHolds == Spec => []ReadIsFresh
<1>1. Init => ReadIsFresh
  BY DEF Init, ReadIsFresh
<1>2. MeterInv /\ ReadIsFresh /\ [Next]_vars => ReadIsFresh'
  <2> SUFFICES ASSUME MeterInv, ReadIsFresh, [Next]_vars, NEW t \in Threads, pc'[t] = "read"
               PROVE  due'[t] = 0 /\ seen'[t] - lastTick' <= Interval
    BY DEF ReadIsFresh
  <2> USE MeterAssumption DEF Goto, Averages
  <2>1. CASE ReadClock(t)
    <3>1. now - lastTick \in Int /\ Required(now - lastTick) = 0
      BY <2>1, RequiredFacts DEF ReadClock, MeterInv, TypeOK
    <3>2. ~(now - lastTick > Interval)
      BY <3>1, RequiredFacts
    <3>3. seen'[t] = now /\ lastTick' = lastTick /\ due'[t] = 0
      BY <2>1, <3>1 DEF ReadClock, MeterInv, TypeOK
    <3> QED
      BY <3>1, <3>2, <3>3 DEF MeterInv, TypeOK
  <2>2. CASE Fold(t)
    <3>1. at[t] = 3 /\ due[t] = 1
      BY <2>2 DEF Fold, MeterInv, MutexInv, TypeOK, Ticking
    <3>2. seen[t] = lastTick /\ seen[t] \in Int
      BY <2>2 DEF Fold, MeterInv, MutexInv, TypeOK, Ticking
    <3>3. due'[t] = 0 /\ seen' = seen /\ lastTick' = lastTick
      BY <2>2, <3>1 DEF Fold, MeterInv, TypeOK
    <3> QED
      BY <3>2, <3>3
  <2>3. CASE ~ReadClock(t) /\ ~Fold(t)
    <3>1. pc[t] = "read"
      BY <2>3
         DEF Next, ThreadStep, CallMark, CallRate, Lock, ReadClock, StoreTick, TakeUncounted,
             ClearUncounted, Fold, AddCount, Update, ReadRate, Unlock, MoveClock, MeterInv, TypeOK,
             vars
    <3>2. mutex = t
      BY <3>1 DEF MeterInv, MutexInv, Inside
    <3>3. due'[t] = due[t] /\ seen'[t] = seen[t] /\ lastTick' = lastTick
      BY <3>1, <3>2
         DEF Next, ThreadStep, CallMark, CallRate, Lock, ReadClock, StoreTick, TakeUncounted,
             ClearUncounted, Fold, AddCount, Update, ReadRate, Unlock, MoveClock, MeterInv, TypeOK,
             MutexInv, Inside, Ticking, vars, locals
    <3> QED
      BY <3>1, <3>3 DEF ReadIsFresh
  <2> QED
    BY <2>1, <2>2, <2>3
<1> QED
  BY <1>1, <1>2, MeterInvHolds, PTL DEF Spec

(* One tick moves a rate towards the events of the interval and never past *)
(* them.                                                                   *)
LEMMA SmoothingFacts ==
    ASSUME NEW r \in Int, NEW x \in Int, NEW d \in Nat \ {0}
    PROVE  /\ x >= r => r <= r + (x - r) \div d /\ r + (x - r) \div d <= x
           /\ x <= r => x <= r + (x - r) \div d /\ r + (x - r) \div d <= r
<1> DEFINE q == (x - r) \div d
<1>1. q \in Int /\ d * q <= x - r /\ x - r < d * q + d
  BY DivFacts
<1> HIDE DEF q
<1>2. ASSUME x >= r PROVE 0 <= q /\ q <= x - r
  <2>1. ASSUME q < 0 PROVE FALSE
    <3>1. d * q <= -d
      BY <1>1, <2>1
    <3> QED
      BY <1>1, <1>2, <3>1
  <2>2. q <= d * q
    BY <1>1, <2>1
  <2> QED
    BY <1>1, <2>1, <2>2
<1>3. ASSUME x <= r PROVE x - r <= q /\ q <= 0
  <2>1. ASSUME q > 0 PROVE FALSE
    <3>1. d * q >= d
      BY <1>1, <2>1
    <3> QED
      BY <1>1, <1>3, <3>1
  <2>2. ASSUME q < x - r PROVE FALSE
    <3>1. q + 1 <= x - r /\ q + 1 <= 0
      BY <1>1, <1>3, <2>2
    <3>2. d * (q + 1) <= q + 1
      BY <1>1, <3>1
    <3>3. d * (q + 1) = d * q + d
      BY <1>1
    <3> QED
      BY <1>1, <3>1, <3>2, <3>3
  <2> QED
    BY <1>1, <2>1, <2>2
<1> QED
  BY <1>1, <1>2, <1>3 DEF q

(* The rates stay between nothing and the largest number of events that    *)
(* was ever folded in one tick, for every smoothing.                       *)
THEOREM RatesBoundedHolds == Spec => []RatesBounded
<1>1. Init => RatesBounded
  BY MeterAssumption DEF Init, RatesBounded, Averages
<1>2. MeterInv /\ RatesBounded /\ [Next]_vars => RatesBounded'
  <2> SUFFICES ASSUME MeterInv, RatesBounded, [Next]_vars
               PROVE  RatesBounded'
    OBVIOUS
  <2>1. ASSUME NEW t \in Threads, Fold(t) PROVE RatesBounded'
    <3> SUFFICES ASSUME NEW i \in Averages PROVE 0 <= rate'[i] /\ rate'[i] <= Scale * peak'
      BY DEF RatesBounded
    <3>1. /\ at[t] \in Averages /\ taken[t] \in Nat /\ peak \in Nat /\ Scale \in Nat
          /\ rate[i] \in Int /\ Denominator[i] \in Nat \ {0}
      BY MeterAssumption DEF MeterInv, TypeOK
    <3>2. peak' \in Nat /\ peak' >= peak /\ peak' >= taken[t]
      BY <2>1, <3>1 DEF Fold
    <3>3. Scale * peak' >= Scale * peak /\ Scale * peak' >= Scale * taken[t] /\ Scale * taken[t] >= 0
      BY <3>1, <3>2
    <3>4. 0 <= rate[i] /\ rate[i] <= Scale * peak
      BY DEF RatesBounded
    <3>5. CASE i # at[t]
      <4>1. rate'[i] = rate[i]
        BY <2>1, <3>5 DEF Fold, MeterInv, TypeOK
      <4> QED
        BY <3>1, <3>2, <3>3, <3>4, <4>1
    <3>6. CASE i = at[t]
      <4>1. rate'[i] = Smoothed(i, taken[t])
        BY <2>1, <3>6 DEF Fold, MeterInv, TypeOK
      <4> DEFINE x == Scale * taken[t]
                 s == rate[i] + (x - rate[i]) \div Denominator[i]
      <4>2. x \in Int
        BY <3>1
      <4>3. s \in Int
        BY <3>1, <4>2, DivFacts
      <4>4. /\ x >= rate[i] => rate[i] <= s /\ s <= x
            /\ x <= rate[i] => x <= s /\ s <= rate[i]
        BY <3>1, <4>2, SmoothingFacts
      <4>5. rate'[i] = s \/ rate'[i] = x
        BY <4>1 DEF Smoothed
      <4>6. Scale * peak \in Int /\ Scale * peak' \in Int
        BY <3>1, <3>2
      <4> HIDE DEF s
      <4>7. 0 <= s /\ s <= Scale * peak'
        BY <3>1, <3>3, <3>4, <4>2, <4>3, <4>4, <4>6
      <4> QED
        BY <3>3, <4>5, <4>7
    <3> QED
      BY <3>5, <3>6
  <2>2. ASSUME ~(\E t \in Threads : Fold(t)) PROVE rate' = rate /\ peak' = peak
    BY <2>2
       DEF Next, ThreadStep, CallMark, CallRate, Lock, ReadClock, StoreTick, TakeUncounted,
           ClearUncounted, AddCount, Update, ReadRate, Unlock, MoveClock, vars, averages
  <2> QED
    BY <2>1, <2>2 DEF RatesBounded
<1> QED
  BY <1>1, <1>2, MeterInvHolds, PTL DEF Spec
=============================================================================
