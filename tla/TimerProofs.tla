----------------------------- MODULE TimerProofs -----------------------------
(***************************************************************************)
(* Proofs about Timer for every number of threads, contexts, activations   *)
(* and calls of clear().                                                   *)
(***************************************************************************)
EXTENDS Timer, FiniteSetTheorems, TLAPS

(* What [f EXCEPT ![t] = r] is, for the calls of the threads.              *)
LEMMA CallUpdated ==
    ASSUME TypeOK, NEW t \in Threads, NEW r \in CallType, call' = [call EXCEPT ![t] = r]
    PROVE  /\ call' \in [Threads -> CallType]
           /\ call'[t] = r
           /\ \A s \in Threads : s # t => call'[s] = call[s]
BY DEF TypeOK

LEMMA CallMoved ==
    ASSUME TypeOK, NEW t \in Threads,
           NEW label \in {"idle", "func", "update", "mark", "return"}, At(t, label)
    PROVE  /\ call' \in [Threads -> CallType]
           /\ call'[t].at = label
           /\ call'[t].place = call[t].place /\ call'[t].number = call[t].number
           /\ \A s \in Threads : s # t => call'[s] = call[s]
BY DEF TypeOK, At, CallType

LEMMA ContextUpdated ==
    ASSUME TypeOK, NEW c \in Contexts, NEW x \in ContextType,
           context' = [context EXCEPT ![c] = x]
    PROVE  /\ context' \in [Contexts -> ContextType]
           /\ context'[c] = x
           /\ \A d \in Contexts : d # c => context'[d] = context[d]
BY DEF TypeOK

(* The records the steps put there.                                        *)
LEMMA Records ==
    ASSUME TypeOK
    PROVE  /\ Absent \in ContextType /\ Moved \in ContextType /\ Idle \in CallType
           /\ \A n \in 0 .. MaxActivations : Started(n) \in ContextType
           /\ Absent.active = FALSE /\ Moved.active = FALSE
           /\ Idle.at = "idle" /\ Idle.place = "none"
           /\ \A n : /\ Started(n).active = TRUE /\ Started(n).number = n
                     /\ Started(n).life = "live"
<1> USE TimerAssumption
<1>1. 0 \in 0 .. MaxTime /\ 0 \in 0 .. MaxActivations
  OBVIOUS
<1>2. Absent \in ContextType /\ Absent.active = FALSE
  BY <1>1 DEF Absent, ContextType
<1>3. Moved \in ContextType /\ Moved.active = FALSE
  BY <1>1 DEF Absent, Moved, ContextType
<1>4. Idle \in CallType /\ Idle.at = "idle" /\ Idle.place = "none"
  BY <1>1 DEF Idle, CallType, Places
<1>5. \A n \in 0 .. MaxActivations : Started(n) \in ContextType
  BY DEF Started, ContextType, TypeOK
<1>6. \A n : /\ Started(n).active = TRUE /\ Started(n).number = n
             /\ Started(n).life = "live"
  BY DEF Started
<1> QED
  BY <1>2, <1>3, <1>4, <1>5, <1>6

----------------------------------------------------------------------------
(* The steps of three kinds: a context begins an activation, a call takes  *)
(* one up, a call moves on.                                                *)

(* The constructor, reset() and time().                                    *)
ContextBegins(c) ==
    /\ Unused(c) /\ Begin
    /\ context' = [context EXCEPT ![c] = Started(begun + 1)]
    /\ UNCHANGED <<now, calls, marks, recorded, cleared, clears>>

LEMMA BeginNumbers ==
    ASSUME TimerInv, Begin
    PROVE  /\ begun' \in 0 .. MaxActivations /\ begun' = begun + 1
           /\ begun + 1 \in Numbers /\ 1 .. begun \subseteq 1 .. begun'
           /\ 1 .. begun' = 1 .. begun \cup {begun + 1}
BY TimerAssumption DEF TimerInv, TypeOK, Begin, Numbers

LEMMA ContextBeginsStep ==
    ASSUME TimerInv, NEW c \in Contexts, ContextBegins(c), UNCHANGED call,
           dropped' \subseteq 1 .. begun
    PROVE  TimerInv'
<1> USE TimerAssumption
<1>1. /\ TypeOK /\ UseInv /\ NumbersInv
      /\ UNCHANGED <<now, calls, marks, recorded, cleared, clears, call>>
  BY DEF TimerInv, ContextBegins
<1>2. /\ begun' \in 0 .. MaxActivations /\ begun' = begun + 1
      /\ begun + 1 \in Numbers /\ 1 .. begun \subseteq 1 .. begun'
  BY BeginNumbers DEF ContextBegins
<1>3. /\ context' \in [Contexts -> ContextType]
      /\ context'[c] = Started(begun + 1)
      /\ \A d \in Contexts : d # c => context'[d] = context[d]
  BY <1>1, <1>2, ContextUpdated, Records DEF ContextBegins, Numbers
<1>4. /\ context'[c].active /\ context'[c].number = begun + 1 /\ context'[c].life = "live"
  <2>1. /\ Started(begun + 1).active = TRUE /\ Started(begun + 1).number = begun + 1
        /\ Started(begun + 1).life = "live"
    BY <1>1, Records
  <2> QED
    BY <1>3, <2>1
<1>5. \A t \in Threads : call[t].place # c
  BY DEF ContextBegins, Unused
<1>6. TypeOK'
  BY <1>1, <1>2, <1>3 DEF TypeOK, Numbers
<1>7. UseInv'
  BY <1>1, <1>3, <1>4, <1>5 DEF UseInv, Free
<1>8. NumbersInv'
  BY <1>1, <1>2, <1>3, <1>4 DEF NumbersInv, Free, TypeOK, Numbers
<1> QED
  BY <1>6, <1>7, <1>8 DEF TimerInv

(* stop(), the destructor and the end of func: a call takes up what its    *)
(* context timed.                                                          *)
LEMMA MeasureStep ==
    ASSUME TimerInv, NEW t \in Threads, NEW c \in Contexts, NEW dies \in BOOLEAN,
           context[c].active,
           \A s \in Threads : call[s].place = c => s = t,
           Measure(t, c, dies),
           UNCHANGED <<now, context, calls, marks, begun, past>>
    PROVE  TimerInv'
<1> USE TimerAssumption
<1> DEFINE r == [at |-> "update", place |-> c, duration |-> now - context[c].start,
                 number |-> context[c].number, dies |-> dies]
<1>1. /\ TypeOK /\ UseInv /\ NumbersInv
      /\ UNCHANGED <<now, context, calls, marks, begun, recorded, dropped, cleared, clears>>
  BY DEF TimerInv, past
<1>2. r \in CallType
  <2>1. now - context[c].start \in Int /\ context[c].number \in 0 .. MaxActivations
    BY <1>1 DEF TypeOK, ContextType
  <2> QED
    BY <2>1 DEF CallType, Places
<1>3. /\ call' \in [Threads -> CallType]
      /\ call'[t] = r
      /\ \A s \in Threads : s # t => call'[s] = call[s]
  BY <1>1, <1>2, CallUpdated DEF Measure
<1>4. call'[t].at = "update" /\ call'[t].place = c /\ call'[t].number = context[c].number
  BY <1>3
<1> HIDE DEF r
<1>5. TypeOK'
  BY <1>1, <1>3 DEF TypeOK
<1>6. UseInv'
  BY <1>1, <1>3, <1>4 DEF UseInv, Free
<1>7. NumbersInv'
  BY <1>1, <1>3, <1>4 DEF NumbersInv, Free
<1> QED
  BY <1>5, <1>6, <1>7 DEF TimerInv

(* Ignore, FeedHistogram and Mark: the call moves on and keeps its context *)
(* and its number.                                                         *)
LEMMA CallMovesStep ==
    ASSUME TimerInv, NEW t \in Threads, NEW label \in {"mark", "return"}, At(t, label),
           ~Free(t), UNCHANGED <<now, context, begun, cleared, clears>>,
           calls' \in Nat, marks' \in Nat, recorded' \in [Numbers -> Nat],
           dropped' \subseteq Numbers,
           \A n \in Numbers : n > begun => recorded'[n] = 0 /\ n \notin dropped'
    PROVE  TimerInv'
<1>1. TypeOK /\ UseInv /\ NumbersInv
  BY DEF TimerInv
<1>2. /\ call' \in [Threads -> CallType]
      /\ call'[t].at = label
      /\ call'[t].place = call[t].place /\ call'[t].number = call[t].number
      /\ \A s \in Threads : s # t => call'[s] = call[s]
  BY <1>1, CallMoved
<1>3. TypeOK'
  BY <1>1, <1>2 DEF TypeOK
<1>4. UseInv'
  BY <1>1, <1>2 DEF UseInv, Free
<1>5. NumbersInv'
  BY <1>1, <1>2 DEF NumbersInv, Free
<1> QED
  BY <1>3, <1>4, <1>5 DEF TimerInv

----------------------------------------------------------------------------
(* The other steps that change a context or begin a call.                  *)

LEMMA MoveStep ==
    ASSUME TimerInv, NEW c \in Contexts, NEW d \in Contexts, Move(c, d)
    PROVE  TimerInv'
<1>1. /\ TypeOK /\ UseInv /\ NumbersInv /\ c # d
      /\ \A t \in Threads : call[t].place # c
      /\ context[d].life = "absent"
      /\ UNCHANGED <<now, call, calls, marks, begun, recorded, dropped, cleared, clears>>
  BY DEF TimerInv, Move, Unused, past
<1>2. ~context[d].active
  BY <1>1 DEF UseInv
<1>3. \A t \in Threads : call[t].place # d
  BY <1>1, <1>2 DEF UseInv
<1>4. /\ context' \in [Contexts -> ContextType]
      /\ context'[d] = context[c] /\ context'[c] = Moved
      /\ \A e \in Contexts : e # c /\ e # d => context'[e] = context[e]
  BY <1>1, Records DEF Move, TypeOK
<1>5. context'[c].active = FALSE
  BY <1>1, <1>4, Records
<1>6. TypeOK'
  BY <1>1, <1>4 DEF TypeOK
<1>7. UseInv'
  BY <1>1, <1>2, <1>3, <1>4, <1>5 DEF UseInv, Free
<1>8. NumbersInv'
  BY <1>1, <1>4, <1>5 DEF NumbersInv, Free
<1> QED
  BY <1>6, <1>7, <1>8 DEF TimerInv

LEMMA DestroyStep ==
    ASSUME TimerInv, NEW t \in Threads, NEW c \in Contexts, Destroy(t, c)
    PROVE  TimerInv'
<1>1. /\ TypeOK /\ UseInv /\ NumbersInv
      /\ \A s \in Threads : call[s].place # c
      /\ UNCHANGED <<now, calls, marks, begun, past>>
  BY DEF TimerInv, Destroy, Unused
<1>2. CASE context[c].active /\ Measure(t, c, TRUE) /\ UNCHANGED context
  BY <1>1, <1>2, MeasureStep
<1>3. CASE ~context[c].active /\ context' = [context EXCEPT ![c] = Absent] /\ UNCHANGED call
  <2>1. /\ context' \in [Contexts -> ContextType]
        /\ context'[c] = Absent
        /\ \A d \in Contexts : d # c => context'[d] = context[d]
    BY <1>1, <1>3, Records, ContextUpdated
  <2>2. context'[c].active = FALSE
    BY <1>1, <2>1, Records
  <2>3. TypeOK'
    BY <1>1, <1>3, <2>1 DEF TypeOK, past
  <2>4. UseInv'
    BY <1>1, <1>3, <2>1, <2>2 DEF UseInv, Free
  <2>5. NumbersInv'
    BY <1>1, <1>3, <2>1, <2>2 DEF NumbersInv, Free, past
  <2> QED
    BY <2>3, <2>4, <2>5 DEF TimerInv
<1> QED
  BY <1>2, <1>3 DEF Destroy

LEMMA TimeStep ==
    ASSUME TimerInv, NEW t \in Threads, NEW c \in Contexts, Time(t, c)
    PROVE  TimerInv'
<1> USE TimerAssumption
<1> DEFINE r == [at |-> "func", place |-> c, duration |-> 0,
                 number |-> begun + 1, dies |-> TRUE]
<1>1. /\ TypeOK /\ UseInv /\ NumbersInv /\ Free(t)
      /\ \A s \in Threads : call[s].place # c
      /\ UNCHANGED <<now, calls, marks, recorded, dropped, cleared, clears>>
  BY DEF TimerInv, Time, Unused, past
<1>2. /\ begun' \in 0 .. MaxActivations /\ begun' = begun + 1
      /\ begun + 1 \in Numbers /\ 1 .. begun \subseteq 1 .. begun'
  BY BeginNumbers DEF Time
<1>3. /\ context' \in [Contexts -> ContextType]
      /\ context'[c] = Started(begun + 1)
      /\ \A d \in Contexts : d # c => context'[d] = context[d]
  BY <1>1, <1>2, ContextUpdated, Records DEF Time, Numbers
<1>4. /\ context'[c].active /\ context'[c].number = begun + 1 /\ context'[c].life = "live"
  <2>1. /\ Started(begun + 1).active = TRUE /\ Started(begun + 1).number = begun + 1
        /\ Started(begun + 1).life = "live"
    BY <1>1, Records
  <2> QED
    BY <1>3, <2>1
<1>5. r \in CallType
  BY <1>2 DEF CallType, Places, Numbers
<1>6. /\ call' \in [Threads -> CallType]
      /\ call'[t] = r
      /\ \A s \in Threads : s # t => call'[s] = call[s]
  BY <1>1, <1>5, CallUpdated DEF Time
<1>7. call'[t].at = "func" /\ call'[t].place = c /\ call'[t].number = begun + 1
  BY <1>6
<1> HIDE DEF r
<1>8. TypeOK'
  BY <1>1, <1>2, <1>3, <1>6 DEF TypeOK, Numbers
<1>9. UseInv'
  BY <1>1, <1>3, <1>4, <1>6, <1>7 DEF UseInv, Free
<1>10. NumbersInv'
  <2>1. begun \in Int /\ begun + 1 \in 1 .. begun'
    BY <1>1, <1>2 DEF TypeOK, Numbers
  <2>2. \A d \in Contexts : context'[d].active => context'[d].number \in 1 .. begun'
    BY <1>1, <1>2, <1>3, <1>4, <2>1 DEF NumbersInv
  <2>3. \A s \in Threads : ~Free(s)' => call'[s].number \in 1 .. begun'
    BY <1>1, <1>2, <1>6, <1>7, <2>1 DEF NumbersInv, Free
  <2>4. \A n \in Numbers : n > begun' => n > begun
    BY <1>2, <2>1 DEF Numbers
  <2> QED
    BY <1>1, <2>2, <2>3, <2>4 DEF NumbersInv
<1> QED
  BY <1>8, <1>9, <1>10 DEF TimerInv

LEMMA UpdateBeginsStep ==
    ASSUME TimerInv, NEW t \in Threads, NEW d \in Int, Update(t, d)
    PROVE  TimerInv'
<1> USE TimerAssumption
<1> DEFINE r == [at |-> "update", place |-> "none", duration |-> d,
                 number |-> begun + 1, dies |-> FALSE]
<1>1. /\ TypeOK /\ UseInv /\ NumbersInv /\ Free(t)
      /\ UNCHANGED <<now, context, calls, marks, recorded, dropped, cleared, clears>>
  BY DEF TimerInv, Update, past
<1>2. /\ begun' \in 0 .. MaxActivations /\ begun' = begun + 1
      /\ begun + 1 \in Numbers /\ 1 .. begun \subseteq 1 .. begun'
  BY BeginNumbers DEF Update
<1>3. r \in CallType
  BY <1>2 DEF CallType, Places, Numbers
<1>4. /\ call' \in [Threads -> CallType]
      /\ call'[t] = r
      /\ \A s \in Threads : s # t => call'[s] = call[s]
  BY <1>1, <1>3, CallUpdated DEF Update
<1>5. call'[t].at = "update" /\ call'[t].place = "none" /\ call'[t].number = begun + 1
  BY <1>4
<1> HIDE DEF r
<1>6. TypeOK'
  BY <1>1, <1>2, <1>4 DEF TypeOK, Numbers
<1>7. UseInv'
  BY <1>1, <1>4, <1>5 DEF UseInv, Free
<1>8. NumbersInv'
  BY <1>1, <1>2, <1>4, <1>5 DEF NumbersInv, Free, TypeOK, Numbers
<1> QED
  BY <1>6, <1>7, <1>8 DEF TimerInv

LEMMA ReturnStep ==
    ASSUME TimerInv, NEW t \in Threads, Return(t)
    PROVE  TimerInv'
<1> USE TimerAssumption
<1>1. /\ TypeOK /\ UseInv /\ NumbersInv /\ call[t].at = "return"
      /\ UNCHANGED <<now, calls, marks, begun, recorded, dropped, cleared, clears>>
  BY DEF TimerInv, Return, past
<1>2. /\ call' \in [Threads -> CallType]
      /\ call'[t] = Idle
      /\ \A s \in Threads : s # t => call'[s] = call[s]
  BY <1>1, Records, CallUpdated DEF Return
<1>3. Idle.at = "idle" /\ Idle.place = "none"
  BY <1>1, Records
<1>4. /\ context' \in [Contexts -> ContextType]
      /\ \A c \in Contexts : c # call[t].place => context'[c] = context[c]
      /\ \A c \in Contexts : c = call[t].place => context'[c].active = FALSE
  <2>1. \A c \in Contexts : [context[c] EXCEPT !.active = FALSE] \in ContextType
    BY <1>1 DEF TypeOK, ContextType
  <2>2. \A c \in Contexts : [context[c] EXCEPT !.active = FALSE].active = FALSE
    BY <1>1 DEF TypeOK, ContextType
  <2>3. context' = [c \in Contexts |->
              IF c # call[t].place THEN context[c]
              ELSE IF call[t].dies THEN Absent
              ELSE [context[c] EXCEPT !.active = FALSE]]
    BY DEF Return
  <2> QED
    BY <1>1, <2>1, <2>2, <2>3, Records DEF TypeOK
<1>5. TypeOK'
  BY <1>1, <1>2, <1>4 DEF TypeOK
<1>6. UseInv'
  BY <1>1, <1>2, <1>3, <1>4 DEF UseInv, Free
<1>7. NumbersInv'
  BY <1>1, <1>2, <1>3, <1>4 DEF NumbersInv, Free
<1> QED
  BY <1>5, <1>6, <1>7 DEF TimerInv

LEMMA TimerStep ==
    ASSUME TimerInv, [Next]_vars
    PROVE  TimerInv'
<1> USE TimerAssumption
<1>1. /\ TypeOK /\ UseInv /\ NumbersInv
      /\ dropped \subseteq 1 .. begun
  BY DEF TimerInv, TypeOK, NumbersInv, Numbers
<1>2. CASE MoveClock
  BY <1>1, <1>2 DEF MoveClock, TimerInv, TypeOK, UseInv, NumbersInv, Free, past
<1>3. CASE Clear
  BY <1>1, <1>3 DEF Clear, TimerInv, TypeOK, UseInv, NumbersInv, Free
<1>4. ASSUME NEW c \in Contexts, NEW d \in Contexts, Move(c, d) PROVE TimerInv'
  BY <1>4, MoveStep
<1>5. ASSUME NEW t \in Threads, UpdateStep(t) PROVE TimerInv'
  <2>1. CASE Ignore(t)
    <3>1. call[t].number \in 1 .. begun /\ begun \in 0 .. MaxActivations
      BY <1>1, <2>1 DEF Ignore, NumbersInv, Free, TypeOK
    <3>2. /\ dropped' = dropped \cup {call[t].number}
          /\ UNCHANGED <<now, context, calls, marks, begun, recorded, cleared, clears>>
          /\ At(t, "return") /\ ~Free(t)
      BY <2>1 DEF Ignore, Free
    <3>3. call[t].number \in Int /\ begun \in Int /\ call[t].number \in Numbers
      BY <3>1 DEF Numbers
    <3>5. dropped' \subseteq Numbers
      BY <1>1, <3>2, <3>3 DEF TypeOK
    <3>4. \A n \in Numbers : n > begun => recorded'[n] = 0 /\ n \notin dropped'
      BY <1>1, <3>1, <3>2, <3>3 DEF NumbersInv, Numbers
    <3> QED
      BY <1>1, <3>2, <3>4, <3>5, CallMovesStep DEF TypeOK
  <2>2. CASE FeedHistogram(t)
    <3>1. call[t].number \in 1 .. begun /\ begun \in 0 .. MaxActivations
      BY <1>1, <2>2 DEF FeedHistogram, NumbersInv, Free, TypeOK
    <3>2. recorded[call[t].number] \in Nat
      BY <1>1, <3>1 DEF TypeOK, Numbers
    <3>3. /\ recorded' \in [Numbers -> Nat]
          /\ \A n \in Numbers : n > begun => recorded'[n] = 0 /\ n \notin dropped'
      BY <1>1, <2>2, <3>1, <3>2 DEF FeedHistogram, NumbersInv, TypeOK, Numbers
    <3>4. /\ At(t, "mark") /\ ~Free(t) /\ calls' \in Nat /\ marks' \in Nat
          /\ UNCHANGED <<now, context, begun, dropped, cleared, clears>>
      BY <1>1, <2>2 DEF FeedHistogram, Free, TypeOK
    <3> QED
      BY <1>1, <3>3, <3>4, CallMovesStep DEF TypeOK
  <2>3. CASE Mark(t)
    <3>1. /\ At(t, "return") /\ ~Free(t) /\ calls' \in Nat /\ marks' \in Nat
          /\ UNCHANGED <<now, context, begun, recorded, dropped, cleared, clears>>
      BY <1>1, <2>3 DEF Mark, Free, TypeOK, past
    <3> QED
      BY <1>1, <3>1, CallMovesStep DEF TypeOK, NumbersInv
  <2>4. CASE Return(t)
    BY <2>4, ReturnStep
  <2> QED
    BY <1>5, <2>1, <2>2, <2>3, <2>4 DEF UpdateStep
<1>6. ASSUME NEW t \in Threads, FuncEnds(t) PROVE TimerInv'
  <2>1. /\ call[t].place \in Contexts
        /\ context[call[t].place].active
        /\ \A s \in Threads : call[s].place = call[t].place => s = t
    BY <1>1, <1>6 DEF FuncEnds, UseInv
  <2> QED
    BY <1>6, <2>1, MeasureStep DEF FuncEnds
<1>7. ASSUME NEW t \in Threads, NEW d \in {-1, 1}, Update(t, d) PROVE TimerInv'
  BY <1>7, UpdateBeginsStep
<1>8. ASSUME NEW t \in Threads, NEW c \in Contexts, TimeScope(t, c) PROVE TimerInv'
  BY <1>1, <1>8, ContextBeginsStep DEF TimeScope, ContextBegins, past
<1>9. ASSUME NEW t \in Threads, NEW c \in Contexts, Reset(t, c) PROVE TimerInv'
  <2>1. dropped' \subseteq 1 .. begun
    BY <1>1, <1>9 DEF Reset, NumbersInv
  <2> QED
    BY <1>9, <2>1, ContextBeginsStep DEF Reset, ContextBegins, Usable
<1>10. ASSUME NEW t \in Threads, NEW c \in Contexts, Stop(t, c) PROVE TimerInv'
  BY <1>10, MeasureStep DEF Stop, Usable, Unused
<1>11. ASSUME NEW t \in Threads, NEW c \in Contexts, Destroy(t, c) PROVE TimerInv'
  BY <1>11, DestroyStep
<1>12. ASSUME NEW t \in Threads, NEW c \in Contexts, Time(t, c) PROVE TimerInv'
  BY <1>12, TimeStep
<1>13. CASE UNCHANGED vars
  BY <1>1, <1>13 DEF vars, TimerInv, TypeOK, UseInv, NumbersInv, Free, past
<1> QED
  BY <1>2, <1>3, <1>4, <1>5, <1>6, <1>7, <1>8, <1>9, <1>10, <1>11, <1>12, <1>13 DEF Next

(* A context that a call uses is in that call alone, active and with the   *)
(* number of an activation, and only a live context is active.             *)
THEOREM TimerInvHolds == Spec => []TimerInv
<1>1. ASSUME Init PROVE TimerInv
  <2>1. /\ Absent \in ContextType /\ Absent.active = FALSE
        /\ Idle \in CallType /\ Idle.at = "idle" /\ Idle.place = "none"
    BY TimerAssumption DEF Absent, ContextType, Idle, CallType, Places
  <2>2. /\ call \in [Threads -> CallType] /\ \A t \in Threads : call[t] = Idle
        /\ context \in [Contexts -> ContextType] /\ \A c \in Contexts : context[c] = Absent
        /\ recorded \in [Numbers -> Nat] /\ \A n \in Numbers : recorded[n] = 0
    BY <1>1, <2>1 DEF Init
  <2>3. TypeOK
    BY <1>1, <2>2, TimerAssumption DEF Init, TypeOK
  <2>4. UseInv
    BY <2>1, <2>2, TimerAssumption DEF UseInv, Free
  <2>5. NumbersInv
    BY <1>1, <2>1, <2>2 DEF Init, NumbersInv, Free
  <2> QED
    BY <2>3, <2>4, <2>5 DEF TimerInv
<1> QED
  BY <1>1, TimerStep, PTL DEF Spec
----------------------------------------------------------------------------
(* What the steps that begin a call or take up a context do to the calls.  *)

LEMMA MeasureEffect ==
    ASSUME TypeOK, NEW t \in Threads, NEW c, NEW dies, Measure(t, c, dies)
    PROVE  /\ call'[t].at = "update" /\ call'[t].place = c
           /\ call'[t].number = context[c].number
           /\ \A s \in Threads : s # t => call'[s] = call[s]
BY DEF TypeOK, Measure

LEMMA TimeEffect ==
    ASSUME TypeOK, NEW t \in Threads, NEW c, Time(t, c)
    PROVE  /\ call'[t].at = "func" /\ call'[t].place = c /\ call'[t].number = begun + 1
           /\ \A s \in Threads : s # t => call'[s] = call[s]
BY DEF TypeOK, Time

LEMMA UpdateEffect ==
    ASSUME TypeOK, NEW t \in Threads, NEW d, Update(t, d)
    PROVE  /\ call'[t].at = "update" /\ call'[t].place = "none"
           /\ call'[t].number = begun + 1
           /\ \A s \in Threads : s # t => call'[s] = call[s]
BY DEF TypeOK, Update

----------------------------------------------------------------------------
(* Counting the calls between the histogram and the meter.                 *)

LEMMA HalvesStep ==
    ASSUME TimerInv, HalvesAgree, [Next]_vars
    PROVE  HalvesAgree'
<1> USE TimerAssumption
<1>1. /\ TypeOK /\ UseInv /\ calls \in Nat /\ marks \in Nat /\ cleared \in Nat
      /\ calls + cleared = marks + Cardinality(Between)
  BY DEF TimerInv, TypeOK, HalvesAgree, Shown
<1>2. IsFiniteSet(Between) /\ Cardinality(Between) \in Nat
  <2>1. Between \subseteq Threads
    BY DEF Between
  <2> QED
    BY <2>1, FS_Subset, FS_CardinalityType
<1>3. SUFFICES calls' + cleared' = marks' + Cardinality(Between')
  BY DEF HalvesAgree, Shown, Between
<1>4. ASSUME UNCHANGED <<calls, marks, cleared>>,
             \A t \in Threads : call'[t].at = "mark" <=> call[t].at = "mark"
      PROVE  calls' + cleared' = marks' + Cardinality(Between')
  <2>1. Between' = Between
    BY <1>4 DEF Between
  <2> QED
    BY <1>1, <1>4, <2>1
<1>5. ASSUME NEW t \in Threads, FeedHistogram(t)
      PROVE  calls' + cleared' = marks' + Cardinality(Between')
  <2>1. /\ call[t].at = "update" /\ call'[t].at = "mark"
        /\ \A s \in Threads : s # t => call'[s] = call[s]
        /\ calls' = calls + 1 /\ UNCHANGED <<marks, cleared>>
    BY <1>1, <1>5, CallMoved DEF FeedHistogram
  <2>2. Between' = Between \cup {t} /\ t \notin Between
    BY <2>1 DEF Between
  <2>3. Cardinality(Between') = Cardinality(Between) + 1
    BY <1>2, <2>2, FS_AddElement
  <2> QED
    BY <1>1, <1>2, <2>1, <2>3
<1>6. ASSUME NEW t \in Threads, Mark(t)
      PROVE  calls' + cleared' = marks' + Cardinality(Between')
  <2>1. /\ call[t].at = "mark" /\ call'[t].at = "return"
        /\ \A s \in Threads : s # t => call'[s] = call[s]
        /\ marks' = marks + 1 /\ UNCHANGED <<calls, cleared>>
    BY <1>1, <1>6, CallMoved DEF Mark, past
  <2>2. Between' = Between \ {t} /\ t \in Between
    BY <2>1 DEF Between
  <2>3. Cardinality(Between') = Cardinality(Between) - 1
    BY <1>2, <2>2, FS_RemoveElement
  <2> QED
    BY <1>1, <1>2, <2>1, <2>3
<1>7. CASE Clear
  <2>1. Between' = Between /\ calls' = 0 /\ cleared' = cleared + calls /\ marks' = marks
    BY <1>7 DEF Clear, Between
  <2> QED
    BY <1>1, <2>1
<1>8. CASE UNCHANGED vars \/ MoveClock \/ \E c, d \in Contexts : Move(c, d)
  <2>1. UNCHANGED <<call, calls, marks, cleared>>
    BY <1>8 DEF vars, MoveClock, Move, past
  <2> QED
    BY <1>4, <2>1
<1>9. ASSUME NEW t \in Threads, Ignore(t) \/ Return(t)
      PROVE  calls' + cleared' = marks' + Cardinality(Between')
  <2>1. UNCHANGED <<calls, marks, cleared>> /\ call[t].at # "mark"
    BY <1>9 DEF Ignore, Return, past
  <2>2. call'[t].at # "mark" /\ \A s \in Threads : s # t => call'[s] = call[s]
    <3>1. CASE Ignore(t)
      BY <1>1, <3>1, CallMoved DEF Ignore
    <3>2. CASE Return(t)
      BY <1>1, <3>2, CallUpdated, Records DEF Return
    <3> QED
      BY <1>9, <3>1, <3>2
  <2> QED
    BY <1>4, <2>1, <2>2
<1>10. ASSUME NEW t \in Threads,
              call[t].at \in {"idle", "func"}, call'[t].at \in {"func", "update"},
              \A s \in Threads : s # t => call'[s] = call[s],
              UNCHANGED <<calls, marks, cleared>>
       PROVE  calls' + cleared' = marks' + Cardinality(Between')
  <2>1. \A s \in Threads : call'[s].at = "mark" <=> call[s].at = "mark"
    BY <1>10
  <2> QED
    BY <1>4, <1>10, <2>1
<1>11. ASSUME NEW t \in Threads, FuncEnds(t)
       PROVE  calls' + cleared' = marks' + Cardinality(Between')
  <2>1. /\ call'[t].at = "update" /\ \A s \in Threads : s # t => call'[s] = call[s]
        /\ call[t].at = "func" /\ UNCHANGED <<calls, marks, cleared>>
    BY <1>1, <1>11, MeasureEffect DEF FuncEnds, past
  <2> QED
    BY <1>10, <2>1
<1>12. ASSUME NEW t \in Threads, NEW d \in {-1, 1}, Update(t, d)
       PROVE  calls' + cleared' = marks' + Cardinality(Between')
  <2>1. /\ call'[t].at = "update" /\ \A s \in Threads : s # t => call'[s] = call[s]
        /\ call[t].at = "idle" /\ UNCHANGED <<calls, marks, cleared>>
    BY <1>1, <1>12, UpdateEffect DEF Update, Free, past
  <2> QED
    BY <1>10, <2>1
<1>13. ASSUME NEW t \in Threads, NEW c \in Contexts, TimeScope(t, c) \/ Reset(t, c)
       PROVE  calls' + cleared' = marks' + Cardinality(Between')
  <2>1. UNCHANGED <<call, calls, marks, cleared>>
    BY <1>13 DEF TimeScope, Reset, past
  <2> QED
    BY <1>4, <2>1
<1>14. ASSUME NEW t \in Threads, NEW c \in Contexts,
              Stop(t, c) \/ Destroy(t, c) \/ Time(t, c)
       PROVE  calls' + cleared' = marks' + Cardinality(Between')
  <2>1. CASE (Measure(t, c, FALSE) /\ Stop(t, c)) \/ (Measure(t, c, TRUE) /\ Destroy(t, c))
    <3>1. /\ call'[t].at = "update" /\ \A s \in Threads : s # t => call'[s] = call[s]
          /\ call[t].at = "idle" /\ UNCHANGED <<calls, marks, cleared>>
      BY <1>1, <2>1, MeasureEffect DEF Stop, Destroy, Free, past
    <3> QED
      BY <1>10, <3>1
  <2>2. CASE Destroy(t, c) /\ UNCHANGED call
    BY <1>4, <2>2 DEF Destroy, past
  <2>3. CASE Time(t, c)
    <3>1. /\ call'[t].at = "func" /\ \A s \in Threads : s # t => call'[s] = call[s]
          /\ call[t].at = "idle" /\ UNCHANGED <<calls, marks, cleared>>
      BY <1>1, <2>3, TimeEffect DEF Time, Free, past
    <3> QED
      BY <1>10, <3>1
  <2>4. /\ Stop(t, c) => Measure(t, c, FALSE)
        /\ Destroy(t, c) => Measure(t, c, TRUE) \/ UNCHANGED call
    BY DEF Stop, Destroy
  <2> QED
    BY <1>14, <2>1, <2>2, <2>3, <2>4
<1> QED
  BY <1>5, <1>6, <1>7, <1>8, <1>9, <1>11, <1>12, <1>13, <1>14 DEF Next, UpdateStep

(* The histogram and the meter of a timer differ by the calls between the  *)
(* two, and by what clear() took from the histogram alone.                 *)
THEOREM HalvesAgreeHolds == Spec => []HalvesAgree
<1>1. ASSUME Init PROVE HalvesAgree
  <2>1. \A t \in Threads : call[t].at = "idle"
    BY <1>1 DEF Init, Idle
  <2>2. Between = {}
    BY <2>1 DEF Between
  <2> QED
    BY <1>1, <2>2, FS_EmptySet DEF Init, HalvesAgree, Shown
<1> QED
  BY <1>1, HalvesStep, TimerInvHolds, PTL DEF Spec
----------------------------------------------------------------------------
(* What becomes of the activations.                                        *)

LEMMA FateSets ==
    ASSUME NEW n
    PROVE  /\ IsFiniteSet(Held(n)) /\ Cardinality(Held(n)) \in Nat
           /\ IsFiniteSet(Updating(n)) /\ Cardinality(Updating(n)) \in Nat
<1>1. Held(n) \subseteq Contexts /\ Updating(n) \subseteq Threads
  BY DEF Held, Updating
<1> QED
  BY <1>1, TimerAssumption, FS_Subset, FS_CardinalityType

LEMMA LastRemoved ==
    ASSUME NEW S, NEW x \in S, IsFiniteSet(S), Cardinality(S) = 1
    PROVE  Cardinality(S \ {x}) = 0
BY FS_RemoveElement

LEMMA FirstAdded ==
    ASSUME NEW S, NEW x, x \notin S, IsFiniteSet(S), Cardinality(S) = 0
    PROVE  Cardinality(S \cup {x}) = 1
BY FS_AddElement

LEMMA FateKept ==
    ASSUME NEW n, Fates(n) = 1, Held(n)' = Held(n), Updating(n)' = Updating(n),
           recorded'[n] = recorded[n], n \in dropped' <=> n \in dropped
    PROVE  Fates(n)' = 1
BY DEF Fates

(* An activation that a context holds has no other fate, and one that a    *)
(* call is about to record has none but that.                              *)
LEMMA FateOfHeld ==
    ASSUME TypeOK, NEW n \in Numbers, Fates(n) = 1, Held(n) # {}
    PROVE  /\ Cardinality(Held(n)) = 1 /\ Cardinality(Updating(n)) = 0
           /\ recorded[n] = 0 /\ n \notin dropped
<1>1. Cardinality(Held(n)) # 0
  BY FateSets, FS_EmptySet
<1>2. recorded[n] \in Nat
  BY DEF TypeOK
<1> QED
  BY <1>1, <1>2, FateSets DEF Fates

LEMMA FateOfUpdating ==
    ASSUME TypeOK, NEW n \in Numbers, Fates(n) = 1, Updating(n) # {}
    PROVE  /\ Cardinality(Updating(n)) = 1 /\ Cardinality(Held(n)) = 0
           /\ recorded[n] = 0 /\ n \notin dropped
<1>1. Cardinality(Updating(n)) # 0
  BY FateSets, FS_EmptySet
<1>2. recorded[n] \in Nat
  BY DEF TypeOK
<1> QED
  BY <1>1, <1>2, FateSets DEF Fates

LEMMA FateToCome ==
    ASSUME TimerInv, NEW n \in Numbers, n > begun
    PROVE  /\ Held(n) = {} /\ Updating(n) = {}
           /\ recorded[n] = 0 /\ n \notin dropped
<1>1. n \notin 1 .. begun
  BY DEF TimerInv, TypeOK
<1> QED
  BY <1>1 DEF TimerInv, NumbersInv, Held, Updating, Free

(* A new activation is held by the context or call that begins it.         *)
LEMMA NewFate ==
    ASSUME NEW n, NEW x, recorded'[n] = 0, n \notin dropped',
           \/ Held(n)' = {x} /\ Updating(n)' = {}
           \/ Held(n)' = {} /\ Updating(n)' = {x}
    PROVE  Fates(n)' = 1
<1>1. Cardinality({x}) = 1 /\ Cardinality({}) = 0
  BY FS_Singleton, FS_EmptySet
<1> QED
  BY <1>1 DEF Fates

(* The constructor and reset(): what the context timed is dropped.         *)
LEMMA ContextBeginsFate ==
    ASSUME TimerInv, OneFate, NEW c \in Contexts, ContextBegins(c), UNCHANGED call,
           dropped' = dropped \cup (IF context[c].active THEN {context[c].number} ELSE {})
    PROVE  OneFate'
<1> USE TimerAssumption
<1>1. /\ TypeOK /\ NumbersInv /\ Unused(c) /\ recorded' = recorded
      /\ \A t \in Threads : call[t].place # c
  BY DEF TimerInv, ContextBegins, Unused
<1>2. /\ begun' = begun + 1 /\ begun + 1 \in Numbers /\ begun \in Int
      /\ 1 .. begun' = 1 .. begun \cup {begun + 1} /\ 1 .. begun \subseteq Numbers
  BY BeginNumbers DEF ContextBegins, TimerInv, TypeOK, Numbers
<1>3. /\ context'[c] = Started(begun + 1)
      /\ \A d \in Contexts : d # c => context'[d] = context[d]
  <2>1. begun + 1 \in 0 .. MaxActivations
    BY <1>2 DEF Numbers
  <2>2. Started(begun + 1) \in ContextType
    BY <1>1, <2>1, Records
  <2> QED
    BY <1>1, <2>2, ContextUpdated DEF ContextBegins
<1>4. context'[c].active = TRUE /\ context'[c].number = begun + 1
  <2>1. Started(begun + 1).active = TRUE /\ Started(begun + 1).number = begun + 1
    BY <1>1, Records
  <2> QED
    BY <1>3, <2>1
<1>5. \A n : Updating(n)' = Updating(n)
  BY DEF Updating
<1>6. ASSUME NEW n \in 1 .. begun PROVE Fates(n)' = 1
  <2>1. n # begun + 1 /\ n \in Numbers /\ Fates(n) = 1
    BY <1>2 DEF OneFate
  <2>2. Held(n)' = Held(n) \ {c}
    BY <1>3, <1>4, <2>1 DEF Held
  <2>3. CASE context[c].active /\ context[c].number = n
    <3>1. c \in Held(n)
      BY <1>1, <2>3 DEF Held
    <3>2. /\ Cardinality(Held(n)) = 1 /\ Cardinality(Updating(n)) = 0 /\ recorded[n] = 0
      BY <1>1, <2>1, <3>1, FateOfHeld
    <3>3. Cardinality(Held(n) \ {c}) = 0
      <4>1. IsFiniteSet(Held(n))
        BY FateSets
      <4> QED
        BY <3>1, <3>2, <4>1, LastRemoved
    <3>4. n \in dropped'
      BY <2>3
    <3> QED
      BY <1>1, <1>5, <2>2, <3>2, <3>3, <3>4 DEF Fates
  <2>4. CASE ~(context[c].active /\ context[c].number = n)
    <3>1. Held(n)' = Held(n)
      BY <2>2, <2>4 DEF Held
    <3>2. n \in dropped' <=> n \in dropped
      BY <2>4
    <3> QED
      BY <1>1, <1>5, <2>1, <3>1, <3>2, FateKept
  <2> QED
    BY <2>3, <2>4
<1>7. ASSUME NEW n, n = begun + 1 PROVE Fates(n)' = 1
  <2>1. /\ n \in Numbers /\ n > begun
        /\ Held(n) = {} /\ Updating(n) = {} /\ recorded[n] = 0 /\ n \notin dropped
    BY <1>2, <1>7, FateToCome
  <2>2. n \notin dropped'
    BY <1>1, <1>2, <1>7, <2>1 DEF NumbersInv
  <2>3. Held(n)' = {c}
    BY <1>1, <1>3, <1>4, <1>7, <2>1 DEF Held
  <2>4. Updating(n)' = {}
    BY <1>5, <2>1
  <2> QED
    BY <1>1, <2>1, <2>2, <2>3, <2>4, NewFate
<1> QED
  BY <1>2, <1>6, <1>7 DEF OneFate
(* time(func).                                                             *)
LEMMA TimeFate ==
    ASSUME TimerInv, OneFate, NEW t \in Threads, NEW c \in Contexts, Time(t, c)
    PROVE  OneFate'
<1> USE TimerAssumption
<1>1. /\ TypeOK /\ NumbersInv /\ UseInv /\ UNCHANGED <<recorded, dropped>>
      /\ call[t].at = "idle" /\ ~context[c].active
      /\ \A s \in Threads : call[s].place # c
  BY DEF TimerInv, UseInv, Time, Free, Unused, past
<1>2. /\ begun' = begun + 1 /\ begun + 1 \in Numbers /\ begun \in Int
      /\ 1 .. begun' = 1 .. begun \cup {begun + 1} /\ 1 .. begun \subseteq Numbers
  BY BeginNumbers DEF Time, TimerInv, TypeOK, Numbers
<1>3. /\ context'[c] = Started(begun + 1)
      /\ \A d \in Contexts : d # c => context'[d] = context[d]
  <2>1. begun + 1 \in 0 .. MaxActivations
    BY <1>2 DEF Numbers
  <2>2. Started(begun + 1) \in ContextType
    BY <1>1, <2>1, Records
  <2> QED
    BY <1>1, <2>2, ContextUpdated DEF Time
<1>4. context'[c].active = TRUE /\ context'[c].number = begun + 1
  <2>1. Started(begun + 1).active = TRUE /\ Started(begun + 1).number = begun + 1
    BY <1>1, Records
  <2> QED
    BY <1>3, <2>1
<1>5. /\ call'[t].at = "func" /\ call'[t].place = c
      /\ \A s \in Threads : s # t => call'[s] = call[s]
  BY <1>1, TimeEffect
<1>6. call[t].place = "none"
  BY <1>1 DEF UseInv, Free, Idle
<1>7. \A n : Updating(n)' = Updating(n)
  BY <1>1, <1>5 DEF Updating
<1>8. ASSUME NEW n, NEW d \in Contexts, d # c
      PROVE  d \in Held(n)' <=> d \in Held(n)
  BY <1>3, <1>5, <1>6, <1>8 DEF Held
<1>9. ASSUME NEW n \in 1 .. begun PROVE Fates(n)' = 1
  <2>1. n # begun + 1 /\ Fates(n) = 1
    BY <1>2 DEF OneFate
  <2>2. c \notin Held(n)' /\ c \notin Held(n)
    BY <1>1, <1>4, <2>1 DEF Held
  <2>3. Held(n)' = Held(n)
    BY <1>8, <2>2 DEF Held
  <2> QED
    BY <1>1, <1>7, <2>1, <2>3, FateKept
<1>10. ASSUME NEW n, n = begun + 1 PROVE Fates(n)' = 1
  <2>1. /\ n \in Numbers /\ n > begun
        /\ Held(n) = {} /\ Updating(n) = {} /\ recorded[n] = 0 /\ n \notin dropped
    BY <1>2, <1>10, FateToCome
  <2>2. c \in Held(n)'
    BY <1>1, <1>4, <1>5, <1>10 DEF Held
  <2>3. Held(n)' = {c}
    BY <1>8, <2>1, <2>2 DEF Held
  <2>4. Updating(n)' = {}
    BY <1>7, <2>1
  <2> QED
    BY <1>1, <2>1, <2>3, <2>4, NewFate
<1> QED
  BY <1>2, <1>9, <1>10 DEF OneFate

(* update() from the program.                                              *)
LEMMA UpdateFate ==
    ASSUME TimerInv, OneFate, NEW t \in Threads, NEW d, Update(t, d)
    PROVE  OneFate'
<1> USE TimerAssumption
<1>1. /\ TypeOK /\ UseInv /\ UNCHANGED <<context, recorded, dropped>>
      /\ call[t].at = "idle"
  BY DEF TimerInv, Update, Free, past
<1>2. /\ begun' = begun + 1 /\ begun + 1 \in Numbers /\ begun \in Int
      /\ 1 .. begun' = 1 .. begun \cup {begun + 1} /\ 1 .. begun \subseteq Numbers
  BY BeginNumbers DEF Update, TimerInv, TypeOK, Numbers
<1>3. /\ call'[t].at = "update" /\ call'[t].place = "none" /\ call'[t].number = begun + 1
      /\ \A s \in Threads : s # t => call'[s] = call[s]
  BY <1>1, UpdateEffect
<1>4. call[t].place = "none"
  BY <1>1 DEF UseInv, Free, Idle
<1>5. \A n : Held(n)' = Held(n)
  BY <1>1, <1>3, <1>4 DEF Held
<1>6. ASSUME NEW n \in 1 .. begun PROVE Fates(n)' = 1
  <2>1. n # begun + 1 /\ Fates(n) = 1
    BY <1>2 DEF OneFate
  <2>2. Updating(n)' = Updating(n)
    BY <1>1, <1>3, <2>1 DEF Updating
  <2> QED
    BY <1>1, <1>5, <2>1, <2>2, FateKept
<1>7. ASSUME NEW n, n = begun + 1 PROVE Fates(n)' = 1
  <2>1. /\ n \in Numbers /\ n > begun
        /\ Held(n) = {} /\ Updating(n) = {} /\ recorded[n] = 0 /\ n \notin dropped
    BY <1>2, <1>7, FateToCome
  <2>2. Updating(n)' = {t}
    BY <1>3, <1>7, <2>1 DEF Updating
  <2>3. Held(n)' = {}
    BY <1>5, <2>1
  <2> QED
    BY <1>1, <2>1, <2>2, <2>3, NewFate
<1> QED
  BY <1>2, <1>6, <1>7 DEF OneFate

(* stop(), the destructor, the end of func: the context holds the          *)
(* activation no longer, the call does.                                    *)
LEMMA MeasureFate ==
    ASSUME TimerInv, OneFate, NEW t \in Threads, NEW c \in Contexts, NEW dies,
           context[c].active, call[t].at \in {"idle", "func"},
           \A s \in Threads : call[s].place = c => s = t,
           call[t].place # c => call[t].place \notin Contexts,
           Measure(t, c, dies),
           UNCHANGED <<now, context, calls, marks, begun, past>>
    PROVE  OneFate'
<1> USE TimerAssumption
<1>1. /\ TypeOK /\ UseInv /\ NumbersInv /\ UNCHANGED <<context, begun, recorded, dropped>>
      /\ 1 .. begun \subseteq Numbers
  BY DEF TimerInv, TypeOK, Numbers, past
<1>2. /\ call'[t].at = "update" /\ call'[t].place = c
      /\ call'[t].number = context[c].number
      /\ \A s \in Threads : s # t => call'[s] = call[s]
  BY <1>1, MeasureEffect
<1>3. c \in Held(context[c].number)
  BY <1>1 DEF Held, UseInv, Free, Idle
<1>4. \A n : Held(n)' = Held(n) \ {c}
  BY <1>1, <1>2 DEF Held
<1>5. \A n : t \notin Updating(n)
  BY DEF Updating
<1>6. ASSUME NEW n \in 1 .. begun PROVE Fates(n)' = 1
  <2>1. Fates(n) = 1 /\ n \in Numbers
    BY <1>1 DEF OneFate
  <2>2. CASE n = context[c].number
    <3>1. c \in Held(n)
      BY <1>3, <2>2
    <3>2. /\ Cardinality(Held(n)) = 1 /\ Cardinality(Updating(n)) = 0
          /\ recorded[n] = 0 /\ n \notin dropped
      BY <1>1, <2>1, <3>1, FateOfHeld
    <3>3. IsFiniteSet(Held(n)) /\ IsFiniteSet(Updating(n))
      BY FateSets
    <3>4. Cardinality(Held(n) \ {c}) = 0
      BY <3>1, <3>2, <3>3, LastRemoved
    <3>5. Updating(n)' = Updating(n) \cup {t}
      BY <1>2, <2>2 DEF Updating
    <3>6. Cardinality(Updating(n) \cup {t}) = 1
      BY <1>5, <3>2, <3>3, FirstAdded
    <3>7. Cardinality(Held(n))' = 0 /\ Cardinality(Updating(n))' = 1
      BY <1>4, <3>4, <3>5, <3>6
    <3>8. recorded'[n] = 0 /\ n \notin dropped'
      BY <1>1, <3>2
    <3> QED
      BY <3>7, <3>8 DEF Fates
  <2>3. CASE n # context[c].number
    <3>1. Held(n)' = Held(n)
      BY <1>4, <2>3 DEF Held
    <3>2. Updating(n)' = Updating(n)
      BY <1>2, <1>5, <2>3 DEF Updating
    <3> QED
      BY <1>1, <2>1, <3>1, <3>2, FateKept
  <2> QED
    BY <2>2, <2>3
<1> QED
  BY <1>1, <1>6 DEF OneFate
(* A move takes what the context holds along.                              *)
LEMMA MoveFate ==
    ASSUME TimerInv, OneFate, NEW c \in Contexts, NEW d \in Contexts, Move(c, d)
    PROVE  OneFate'
<1>1. /\ TypeOK /\ UseInv /\ c # d /\ UNCHANGED <<call, begun, recorded, dropped>>
      /\ \A t \in Threads : call[t].place # c
      /\ ~context[d].active
  BY DEF TimerInv, UseInv, Move, Unused, past
<1>2. /\ context'[d] = context[c] /\ context'[c].active = FALSE
      /\ \A e \in Contexts : e # c /\ e # d => context'[e] = context[e]
  <2>1. /\ context'[d] = context[c] /\ context'[c] = Moved
        /\ \A e \in Contexts : e # c /\ e # d => context'[e] = context[e]
    BY <1>1 DEF Move, TypeOK
  <2> QED
    BY <1>1, <2>1, Records
<1>3. \A t \in Threads : call[t].place # d
  BY <1>1 DEF UseInv
<1>4. \A n : Updating(n)' = Updating(n)
  BY <1>1 DEF Updating
<1>5. ASSUME NEW n \in 1 .. begun PROVE Fates(n)' = 1
  <2>1. Fates(n) = 1 /\ d \notin Held(n)
    BY <1>1 DEF OneFate, Held
  <2>2. CASE c \in Held(n)
    <3>1. Held(n)' = (Held(n) \ {c}) \cup {d}
      BY <1>1, <1>2, <1>3, <2>2 DEF Held
    <3>2. IsFiniteSet(Held(n)) /\ Cardinality(Held(n)) \in Nat
      BY FateSets
    <3>3. /\ IsFiniteSet(Held(n) \ {c})
          /\ Cardinality(Held(n) \ {c}) = Cardinality(Held(n)) - 1
      BY <2>2, <3>2, FS_RemoveElement
    <3>4. Cardinality((Held(n) \ {c}) \cup {d}) = Cardinality(Held(n) \ {c}) + 1
      BY <2>1, <3>3, FS_AddElement
    <3>5. Cardinality(Held(n))' = Cardinality(Held(n))
      BY <3>1, <3>2, <3>3, <3>4
    <3> QED
      BY <1>1, <1>4, <2>1, <3>5 DEF Fates
  <2>3. CASE c \notin Held(n)
    <3>1. Held(n)' = Held(n)
      BY <1>1, <1>2, <1>3, <2>1, <2>3 DEF Held
    <3> QED
      BY <1>1, <1>4, <2>1, <3>1, FateKept
  <2> QED
    BY <2>2, <2>3
<1> QED
  BY <1>1, <1>5 DEF OneFate

(* Ignore and FeedHistogram decide; what the call used is not held by then.*)
LEMMA DecideFate ==
    ASSUME TimerInv, OneFate, NEW t \in Threads, Ignore(t) \/ FeedHistogram(t)
    PROVE  OneFate'
<1>1. /\ TypeOK /\ NumbersInv /\ UNCHANGED <<context, begun>>
      /\ call[t].at = "update" /\ 1 .. begun \subseteq Numbers
  <2>1. UNCHANGED <<context, begun>> /\ call[t].at = "update"
    BY DEF Ignore, FeedHistogram
  <2>2. TypeOK /\ NumbersInv
    BY DEF TimerInv
  <2>3. 1 .. begun \subseteq Numbers
    BY <2>2, TimerAssumption DEF TypeOK, Numbers
  <2> QED
    BY <2>1, <2>2, <2>3
<1>2. /\ call'[t].at \in {"mark", "return"} /\ call'[t].place = call[t].place
      /\ call'[t].number = call[t].number
      /\ \A s \in Threads : s # t => call'[s] = call[s]
  <2>1. At(t, "mark") \/ At(t, "return")
    BY DEF Ignore, FeedHistogram
  <2> QED
    BY <1>1, <2>1, CallMoved
<1>3. \A n : Held(n)' = Held(n)
  BY <1>1, <1>2 DEF Held
<1>4. ASSUME NEW n \in 1 .. begun PROVE Fates(n)' = 1
  <2>1. Fates(n) = 1 /\ n \in Numbers
    BY <1>1 DEF OneFate
  <2>2. CASE n = call[t].number
    <3>1. t \in Updating(n)
      BY <1>1, <2>2 DEF Updating
    <3>2. /\ Cardinality(Updating(n)) = 1 /\ Cardinality(Held(n)) = 0
          /\ recorded[n] = 0 /\ n \notin dropped
      BY <1>1, <2>1, <3>1, FateOfUpdating
    <3>3. Updating(n)' = Updating(n) \ {t}
      BY <1>1, <1>2, <2>2 DEF Updating
    <3>4. Cardinality(Updating(n) \ {t}) = 0
      BY <3>1, <3>2, FateSets, LastRemoved
    <3>5. Cardinality(Held(n))' = 0 /\ Cardinality(Updating(n))' = 0
      BY <1>3, <3>2, <3>3, <3>4
    <3>6. \/ recorded'[n] = 0 /\ n \in dropped'
          \/ recorded'[n] = 1 /\ n \notin dropped'
      <4>1. CASE Ignore(t)
        BY <2>2, <3>2, <4>1 DEF Ignore
      <4>2. CASE FeedHistogram(t)
        BY <1>1, <2>1, <2>2, <3>2, <4>2 DEF FeedHistogram, TypeOK
      <4> QED
        BY <4>1, <4>2
    <3> QED
      BY <3>5, <3>6 DEF Fates
  <2>3. CASE n # call[t].number
    <3>1. Updating(n)' = Updating(n)
      BY <1>1, <1>2, <2>3 DEF Updating
    <3>2. recorded'[n] = recorded[n] /\ (n \in dropped' <=> n \in dropped)
      <4>1. CASE Ignore(t)
        BY <2>3, <4>1 DEF Ignore
      <4>2. CASE FeedHistogram(t)
        BY <1>1, <2>1, <2>3, <4>2 DEF FeedHistogram, TypeOK
      <4> QED
        BY <4>1, <4>2
    <3> QED
      BY <1>3, <2>1, <3>1, <3>2, FateKept
  <2> QED
    BY <2>2, <2>3
<1> QED
  BY <1>1, <1>4 DEF OneFate

(* No other step changes what is held, updating, recorded or dropped.      *)
LEMMA OtherFate ==
    ASSUME TimerInv, OneFate, [Next]_vars,
           \/ MoveClock \/ Clear \/ UNCHANGED vars
           \/ \E t \in Threads : Mark(t) \/ Return(t)
           \/ /\ UNCHANGED <<call, begun, recorded, dropped>>
              /\ \E c \in Contexts :
                    /\ ~context[c].active /\ context' = [context EXCEPT ![c] = Absent]
    PROVE  OneFate'
<1>1. TypeOK /\ UseInv /\ UNCHANGED <<begun, recorded, dropped>>
  BY DEF TimerInv, MoveClock, Clear, Mark, Return, vars, past
<1>2. SUFFICES ASSUME NEW n PROVE Held(n)' = Held(n) /\ Updating(n)' = Updating(n)
  BY <1>1, FateKept DEF OneFate
<1>3. CASE MoveClock \/ Clear \/ UNCHANGED vars
  BY <1>3 DEF MoveClock, Clear, vars, Held, Updating
<1>4. ASSUME NEW t \in Threads, Mark(t)
      PROVE  Held(n)' = Held(n) /\ Updating(n)' = Updating(n)
  <2>1. /\ call[t].at = "mark" /\ call'[t].at = "return" /\ call'[t].place = call[t].place
        /\ \A s \in Threads : s # t => call'[s] = call[s]
        /\ UNCHANGED context
    BY <1>1, <1>4, CallMoved DEF Mark
  <2> QED
    BY <2>1 DEF Held, Updating
<1>5. ASSUME NEW t \in Threads, Return(t)
      PROVE  Held(n)' = Held(n) /\ Updating(n)' = Updating(n)
  <2>1. /\ call[t].at = "return" /\ call'[t].at = "idle" /\ call'[t].place = "none"
        /\ \A s \in Threads : s # t => call'[s] = call[s]
    BY <1>1, <1>5, CallUpdated, Records DEF Return
  <2>2. /\ \A c \in Contexts : c # call[t].place => context'[c] = context[c]
        /\ \A c \in Contexts : c = call[t].place => context'[c].active = FALSE
    <3>1. \A c \in Contexts : [context[c] EXCEPT !.active = FALSE].active = FALSE
      BY <1>1 DEF TypeOK, ContextType
    <3>2. context' = [c \in Contexts |->
                IF c # call[t].place THEN context[c]
                ELSE IF call[t].dies THEN Absent
                ELSE [context[c] EXCEPT !.active = FALSE]]
      BY <1>5 DEF Return
    <3> QED
      BY <1>1, <3>1, <3>2, Records
  <2>3. Updating(n)' = Updating(n)
    BY <2>1 DEF Updating
  <2>4. \A c \in Contexts : c \in Held(n)' <=> c \in Held(n)
    BY <2>1, <2>2, TimerAssumption DEF Held
  <2> QED
    BY <2>3, <2>4 DEF Held
<1>6. ASSUME NEW c \in Contexts, ~context[c].active,
             context' = [context EXCEPT ![c] = Absent], UNCHANGED call
      PROVE  Held(n)' = Held(n) /\ Updating(n)' = Updating(n)
  <2>1. /\ context'[c].active = FALSE
        /\ \A d \in Contexts : d # c => context'[d] = context[d]
    BY <1>1, <1>6, Records, ContextUpdated
  <2> QED
    BY <1>6, <2>1 DEF Held, Updating
<1> QED
  BY <1>3, <1>4, <1>5, <1>6

LEMMA FateStep ==
    ASSUME TimerInv, OneFate, [Next]_vars
    PROVE  OneFate'
<1> USE TimerAssumption
<1>1. TypeOK /\ UseInv
  BY DEF TimerInv
<1>2. CASE MoveClock \/ Clear \/ UNCHANGED vars
  BY <1>2, OtherFate
<1>3. ASSUME NEW c \in Contexts, NEW d \in Contexts, Move(c, d) PROVE OneFate'
  BY <1>3, MoveFate
<1>4. ASSUME NEW t \in Threads, UpdateStep(t) PROVE OneFate'
  <2>1. CASE Ignore(t) \/ FeedHistogram(t)
    BY <2>1, DecideFate
  <2>2. CASE Mark(t) \/ Return(t)
    BY <2>2, OtherFate
  <2> QED
    BY <1>4, <2>1, <2>2 DEF UpdateStep
<1>5. ASSUME NEW t \in Threads, FuncEnds(t) PROVE OneFate'
  <2>1. /\ call[t].place \in Contexts
        /\ context[call[t].place].active
        /\ \A s \in Threads : call[s].place = call[t].place => s = t
        /\ call[t].at = "func"
    BY <1>1, <1>5 DEF FuncEnds, UseInv
  <2> QED
    BY <1>5, <2>1, MeasureFate DEF FuncEnds
<1>6. ASSUME NEW t \in Threads, NEW d \in {-1, 1}, Update(t, d) PROVE OneFate'
  BY <1>6, UpdateFate
<1>7. ASSUME NEW t \in Threads, NEW c \in Contexts, TimeScope(t, c) PROVE OneFate'
  <2>1. ~context[c].active
    BY <1>1, <1>7 DEF TimeScope, UseInv
  <2>2. dropped' = dropped /\ UNCHANGED call /\ ContextBegins(c)
    BY <1>7 DEF TimeScope, ContextBegins, past
  <2> QED
    BY <2>1, <2>2, ContextBeginsFate
<1>8. ASSUME NEW t \in Threads, NEW c \in Contexts, Reset(t, c) PROVE OneFate'
  BY <1>8, ContextBeginsFate DEF Reset, ContextBegins, Usable
<1>9. ASSUME NEW t \in Threads, NEW c \in Contexts, NEW dies, Free(t), Unused(c),
             context[c].active, Measure(t, c, dies),
             UNCHANGED <<now, context, calls, marks, begun, past>>
      PROVE  OneFate'
  <2>1. call[t].at = "idle" /\ call[t].place = "none"
    BY <1>1, <1>9 DEF Free, UseInv, Idle
  <2> QED
    BY <1>9, <2>1, MeasureFate DEF Unused
<1>10. ASSUME NEW t \in Threads, NEW c \in Contexts, Stop(t, c) PROVE OneFate'
  BY <1>9, <1>10 DEF Stop, Usable
<1>11. ASSUME NEW t \in Threads, NEW c \in Contexts, Destroy(t, c) PROVE OneFate'
  <2>1. CASE context[c].active /\ Measure(t, c, TRUE) /\ UNCHANGED context
    BY <1>9, <1>11, <2>1 DEF Destroy
  <2>2. CASE ~context[c].active /\ context' = [context EXCEPT ![c] = Absent] /\ UNCHANGED call
    <3>1. UNCHANGED <<call, begun, recorded, dropped>>
      BY <1>11, <2>2 DEF Destroy, past
    <3> QED
      BY <2>2, <3>1, OtherFate
  <2> QED
    BY <1>11, <2>1, <2>2 DEF Destroy
<1>12. ASSUME NEW t \in Threads, NEW c \in Contexts, Time(t, c) PROVE OneFate'
  BY <1>12, TimeFate
<1> QED
  BY <1>2, <1>3, <1>4, <1>5, <1>6, <1>7, <1>8, <1>10, <1>11, <1>12 DEF Next

(* Each activation waits in one place, or was recorded once, or was        *)
(* dropped for one of the code's two reasons.                              *)
THEOREM OneFateHolds == Spec => []OneFate
<1>1. Init => OneFate
  BY DEF Init, OneFate
<1> QED
  BY <1>1, FateStep, TimerInvHolds, PTL DEF Spec
=============================================================================
