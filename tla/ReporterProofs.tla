--------------------------- MODULE ReporterProofs ---------------------------
(***************************************************************************)
(* Theorems about the reporters: about PollingReporter, their base class,  *)
(* for any number of controllers and loop threads, and about Reports, the  *)
(* walks of the console, JSON and collectd reporters, for any number of    *)
(* walkers, updates and clear() calls, and any list of metrics.            *)
(*                                                                         *)
(* Of PollingReporter, LoopDiscipline is inductive by itself; the other    *)
(* invariants are consequences of it in every single state.                *)
(***************************************************************************)
EXTENDS PollingReporter, Reports, TLAPS, SequenceTheorems, WellFoundedInduction


(* The steps of the specification one by one, each with the condition      *)
(* std::terminate puts on it: nothing steps once death is set.             *)
Step ==
    \/ \E c \in Controllers :
          \/ StartWins(c) \/ StopWins(c) \/ DestroyDerived(c)
          \/ death = "none" /\ SpawnThread(c)
          \/ death = "none" /\ SpawnFails(c)
          \/ death = "none" /\ AssignThread(c)
          \/ death = "none" /\ Join(c)
          \/ death = "none" /\ JoinThrows(c)
          \/ death = "none" /\ EnterBaseDestructor(c)
          \/ death = "none" /\ DestructorStop(c)
          \/ death = "none" /\ DestructorJoin(c)
          \/ death = "none" /\ DestroyThread(c)
    \/ \E l \in Loops :
          \/ death = "none" /\ TestRunning(l)
          \/ death = "none" /\ BeginRun(l)
          \/ death = "none" /\ RunOfBase(l)
          \/ death = "none" /\ EndRun(l)
          \/ death = "none" /\ RunThrows(l)

(* Every step of Next is one of these or leaves all variables alone.       *)
LEMMA NextIsStep == [Next]_vars => Step \/ UNCHANGED vars
BY DEF Next, Step, ControllerStep, LoopStep, IgnoredCall, Over

(* Every variable keeps its type under every step.                         *)
LEMMA TypeStep == TypeOK /\ [Next]_vars => TypeOK'
<1> SUFFICES ASSUME TypeOK, [Next]_vars PROVE TypeOK'
  OBVIOUS
<1>0. Step \/ UNCHANGED vars
  BY NextIsStep
<1> USE DEF TypeOK, ControllerLabels, Deaths, Goto, LoopGoto
<1>1. CASE UNCHANGED vars
  BY <1>1 DEF vars
<1>2. ASSUME NEW c \in Controllers, StartWins(c) \/ StopWins(c) \/ DestroyDerived(c)
      PROVE  TypeOK'
  <2>1. CASE StartWins(c)
    <3>1. past' \in PastType
      <4>1. (past.mixed \/ Stopping) \in BOOLEAN
        OBVIOUS
      <4> QED
        BY <2>1, <4>1 DEF StartWins, PastType
    <3> QED
      BY <2>1, <3>1 DEF StartWins, CanCall
  <2>2. CASE StopWins(c)
    <3>1. past' \in PastType
      <4>1. (past.mixed \/ Starting) \in BOOLEAN
        OBVIOUS
      <4> QED
        BY <2>2, <4>1 DEF StopWins, PastType
    <3> QED
      BY <2>2, <3>1 DEF StopWins, CanCall
  <2>3. CASE DestroyDerived(c)
    BY <2>3 DEF DestroyDerived, CanCall, PastType
  <2> QED
    BY <1>2, <2>1, <2>2, <2>3
<1>3. ASSUME NEW c \in Controllers, SpawnThread(c) \/ SpawnFails(c) \/ AssignThread(c)
      PROVE  TypeOK'
  <2>1. CASE SpawnThread(c)
    <3>1. PICK l \in Loops : lpc' = [lpc EXCEPT ![l] = "test"] /\ created' = [created EXCEPT ![c] = l]
      BY <2>1 DEF SpawnThread
    <3>2. lpc' \in [Loops -> {"unborn", "test", "sleep", "run", "ended"}]
          /\ created' \in [Controllers -> Loops \cup {NoLoop}]
      BY <3>1
    <3>3. past' \in PastType
      BY <2>1 DEF SpawnThread, PastType
    <3> QED
      BY <2>1, <3>2, <3>3 DEF SpawnThread
  <2>2. CASE SpawnFails(c)
    BY <2>2 DEF SpawnFails, PastType
  <2>3. CASE AssignThread(c)
    BY <2>3 DEF AssignThread
  <2> QED
    BY <1>3, <2>1, <2>2, <2>3
<1>4. ASSUME NEW c \in Controllers, Join(c) \/ JoinThrows(c)
      PROVE  TypeOK'
  BY <1>4 DEF Join, JoinThrows, PastType
<1>5. ASSUME NEW c \in Controllers,
             \/ EnterBaseDestructor(c) \/ DestructorStop(c)
             \/ DestructorJoin(c) \/ DestroyThread(c)
      PROVE  TypeOK'
  <2>1. CASE EnterBaseDestructor(c)
    BY <2>1 DEF EnterBaseDestructor
  <2>2. CASE DestructorStop(c)
    BY <2>2 DEF DestructorStop, PastType
  <2>3. CASE DestructorJoin(c)
    BY <2>3 DEF DestructorJoin
  <2>4. CASE DestroyThread(c)
    BY <2>4 DEF DestroyThread
  <2> QED
    BY <1>5, <2>1, <2>2, <2>3, <2>4
<1>6. ASSUME NEW l \in Loops,
             \/ TestRunning(l) \/ BeginRun(l) \/ RunOfBase(l)
             \/ EndRun(l) \/ RunThrows(l)
      PROVE  TypeOK'
  BY <1>6 DEF TestRunning, BeginRun, RunOfBase, EndRun, RunThrows, PastType
<1> QED
  BY <1>0, <1>1, <1>2, <1>3, <1>4, <1>5, <1>6 DEF Step

Discipline ==
    OneBusy /\ StartInv /\ StopInv /\ RestInv /\ LateInv /\ DestructionInv /\ NeverTerminates

(* No step makes an execution orderly again.                               *)
LEMMA OrderlyStep == TypeOK /\ [Next]_vars /\ Orderly' => Orderly
<1> SUFFICES ASSUME TypeOK, [Next]_vars, Orderly' PROVE Orderly
  OBVIOUS
<1>0. Step \/ UNCHANGED vars
  BY NextIsStep
<1> USE DEF TypeOK, PastType, Orderly
<1>1. ASSUME NEW c \in Controllers, StartWins(c) \/ StopWins(c) \/ SpawnFails(c) \/ DestroyDerived(c)
      PROVE  Orderly
  BY <1>1 DEF StartWins, StopWins, SpawnFails, DestroyDerived
<1>2. ASSUME NEW c \in Controllers,
             \/ SpawnThread(c) \/ AssignThread(c) \/ Join(c) \/ JoinThrows(c)
             \/ EnterBaseDestructor(c) \/ DestructorStop(c) \/ DestructorJoin(c) \/ DestroyThread(c)
      PROVE  Orderly
  BY <1>2 DEF SpawnThread, AssignThread, Join, JoinThrows, EnterBaseDestructor, DestructorStop,
              DestructorJoin, DestroyThread
<1>3. ASSUME NEW l \in Loops,
             TestRunning(l) \/ BeginRun(l) \/ RunOfBase(l) \/ EndRun(l) \/ RunThrows(l)
      PROVE  Orderly
  BY <1>3 DEF TestRunning, BeginRun, RunOfBase, EndRun, RunThrows
<1>4. CASE UNCHANGED vars
  BY <1>4 DEF vars
<1> QED
  BY <1>0, <1>1, <1>2, <1>3, <1>4 DEF Step

(* The discipline survives every orderly step: one case per action.        *)
LEMMA DisciplineStep ==
    TypeOK /\ Orderly /\ Discipline /\ [Next]_vars /\ Orderly' => Discipline'
<1> SUFFICES ASSUME TypeOK, Orderly, Discipline, [Next]_vars, Orderly' PROVE Discipline'
  OBVIOUS
<1>0. Step \/ UNCHANGED vars
  BY NextIsStep
<1>t. TypeOK'
  BY TypeStep
<1> USE ActorsAssumption
<1> USE DEF Discipline, OneBusy, StartInv, StopInv, RestInv, LateInv, DestructionInv,
            NeverTerminates, Orderly, NoThreadLeft, OnlyLive, Behind, Live, Goto, LoopGoto
<1>1. CASE UNCHANGED vars
  BY <1>1 DEF vars
<1>2. ASSUME NEW c \in Controllers, StartWins(c) PROVE Discipline'
  <2>1. /\ past'.mixed = (past.mixed \/ Stopping)
        /\ past'.spawnFailed = past.spawnFailed
        /\ past'.joinError = past.joinError
        /\ past'.lateRuns = past.lateRuns
        /\ past'.destroyedRunning = past.destroyedRunning
    BY <1>2 DEF StartWins, TypeOK, PastType
  <2>2. ~Stopping
    BY <2>1
  <2>3. pc[c] = "idle" /\ object = "whole" /\ death = "none" /\ ~running
    BY <1>2 DEF StartWins, CanCall
  <2>4. UNCHANGED <<handle, created, lpc, object, death>> /\ running' = TRUE
        /\ pc' = [pc EXCEPT ![c] = "spawn"]
    BY <1>2 DEF StartWins
  <2>5. \A d \in Controllers : pc[d] \in {"idle", "dtorBase", "dtorStop"} /\ pc[d] = "idle"
    BY <2>2, <2>3 DEF Stopping, TypeOK, ControllerLabels
  <2>6. NoThreadLeft
    BY <2>3, <2>5
  <2> QED
    BY <2>1, <2>3, <2>4, <2>5, <2>6 DEF TypeOK
<1>3. ASSUME NEW c \in Controllers, StopWins(c) PROVE Discipline'
  <2>1. /\ past'.mixed = (past.mixed \/ Starting)
        /\ past'.spawnFailed = past.spawnFailed
        /\ past'.joinError = past.joinError
        /\ past'.lateRuns = 0
        /\ past'.destroyedRunning = past.destroyedRunning
    BY <1>3 DEF StopWins, TypeOK, PastType
  <2>2. ~Starting
    BY <2>1
  <2>3. pc[c] = "idle" /\ object = "whole" /\ death = "none" /\ running
    BY <1>3 DEF StopWins, CanCall
  <2>4. UNCHANGED <<handle, created, lpc, object, death>> /\ running' = FALSE
        /\ pc' = [pc EXCEPT ![c] = "join"]
    BY <1>3 DEF StopWins
  <2>5. \A d \in Controllers : pc[d] = "idle"
    BY <2>2, <2>3 DEF Starting, TypeOK, ControllerLabels
  <2>6. Behind
    <3>1. \A d \in Controllers : pc[d] \in {"idle", "dtorBase", "dtorStop"}
      BY <2>5
    <3> QED
      BY <2>3, <3>1
  <2>7. Behind'
    BY <2>1, <2>4, <2>6
  <2> QED
    BY <2>1, <2>3, <2>4, <2>5, <2>7 DEF TypeOK
<1>4. ASSUME NEW c \in Controllers, DestroyDerived(c) PROVE Discipline'
  BY <1>4, <1>t DEF DestroyDerived, CanCall, TypeOK, PastType
<1>5. ASSUME NEW c \in Controllers, death = "none", SpawnThread(c) PROVE Discipline'
  <2>1. PICK l \in Loops :
           /\ lpc[l] = "unborn" /\ lpc' = [lpc EXCEPT ![l] = "test"]
           /\ created' = [created EXCEPT ![c] = l]
    BY <1>5 DEF SpawnThread
  <2>2. /\ pc[c] = "spawn" /\ pc' = [pc EXCEPT ![c] = "assign"]
        /\ past' = [past EXCEPT !.spawnFailed = FALSE]
        /\ UNCHANGED <<running, handle, object, death>>
    BY <1>5 DEF SpawnThread
  <2>3. running /\ NoThreadLeft /\ \A d \in Controllers : d # c => pc[d] = "idle"
    BY <2>2 DEF TypeOK
  <2>4. \A m \in Loops : m # l => lpc'[m] \notin {"test", "sleep", "run"}
    BY <2>1, <2>3 DEF TypeOK
  <2>5. created'[c] = l /\ lpc'[l] = "test"
    BY <2>1 DEF TypeOK
  <2>6. /\ ~past'.spawnFailed /\ past'.mixed = past.mixed /\ past'.lateRuns = past.lateRuns
        /\ past'.joinError = past.joinError /\ past'.destroyedRunning = past.destroyedRunning
    BY <2>2 DEF TypeOK, PastType
  <2>7. /\ pc'[c] = "assign"
        /\ \A d \in Controllers : d # c => pc'[d] = "idle"
    BY <2>2, <2>3 DEF TypeOK
  <2>8. OneBusy' /\ StartInv' /\ StopInv' /\ RestInv'
    BY <2>2, <2>3, <2>4, <2>5, <2>6, <2>7
  <2>9. death' \in {"none", "runThrew"}
    BY <1>5, <2>2
  <2> QED
    BY <2>2, <2>3, <2>6, <2>7, <2>8, <2>9
<1>6. ASSUME NEW c \in Controllers, SpawnFails(c) PROVE Discipline'
  BY <1>6 DEF SpawnFails, TypeOK, PastType
<1>7. ASSUME NEW c \in Controllers, AssignThread(c) PROVE Discipline'
  BY <1>7, <1>t DEF AssignThread, TypeOK, PastType
<1>8. ASSUME NEW c \in Controllers, Join(c) PROVE Discipline'
  BY <1>8, <1>t DEF Join, TypeOK, PastType
<1>9. ASSUME NEW c \in Controllers, JoinThrows(c) PROVE Discipline'
  BY <1>9 DEF JoinThrows, TypeOK, PastType
<1>10. ASSUME NEW c \in Controllers, EnterBaseDestructor(c) PROVE Discipline'
  BY <1>10, <1>t DEF EnterBaseDestructor, TypeOK, PastType
<1>11. ASSUME NEW c \in Controllers, DestructorStop(c) PROVE Discipline'
  BY <1>11, <1>t DEF DestructorStop, TypeOK, PastType
<1>12. ASSUME NEW c \in Controllers, death = "none", DestructorJoin(c) PROVE Discipline'
  BY <1>12, <1>t DEF DestructorJoin, TypeOK, PastType
<1>13. ASSUME NEW c \in Controllers, death = "none", DestroyThread(c) PROVE Discipline'
  BY <1>13, <1>t DEF DestroyThread, TypeOK, PastType
<1>14. ASSUME NEW l \in Loops, TestRunning(l) PROVE Discipline'
  BY <1>14, <1>t DEF TestRunning, TypeOK, PastType
<1>15. ASSUME NEW l \in Loops, BeginRun(l) PROVE Discipline'
  <2>1. CASE running
    BY <1>15, <1>t, <2>1 DEF BeginRun, TypeOK, PastType
  <2>2. CASE ~running
    <3>1. lpc[l] = "sleep" /\ lpc' = [lpc EXCEPT ![l] = "run"]
          /\ UNCHANGED <<running, handle, pc, created, object, death>>
      BY <1>15 DEF BeginRun
    <3>2. past' = [past EXCEPT !.lateRuns = 1]
      BY <1>15, <2>2, <3>1 DEF BeginRun, TypeOK, PastType
    <3>3. \A m \in Loops : Live(m) => m = l
      <4>1. Live(l)
        BY <3>1
      <4>2. PICK h \in Loops : OnlyLive(h)
        BY <2>2, <4>1 DEF TypeOK, ControllerLabels
      <4> QED
        BY <4>1, <4>2
    <3>4. \A m \in Loops : lpc'[m] # "sleep"
      BY <3>1, <3>3 DEF TypeOK
    <3> QED
      BY <2>2, <3>1, <3>2, <3>3, <3>4 DEF TypeOK, PastType
  <2> QED
    BY <2>1, <2>2
<1>16. ASSUME NEW l \in Loops, RunOfBase(l) PROVE Discipline'
  BY <1>16, <1>t DEF RunOfBase, TypeOK, PastType
<1>17. ASSUME NEW l \in Loops, EndRun(l) PROVE Discipline'
  BY <1>17, <1>t DEF EndRun, TypeOK, PastType
<1>18. ASSUME NEW l \in Loops, RunThrows(l) PROVE Discipline'
  BY <1>18, <1>t DEF RunThrows, TypeOK, PastType
<1> QED
  BY <1>0, <1>1, <1>2, <1>3, <1>4, <1>5, <1>6, <1>7, <1>8, <1>9, <1>10, <1>11,
     <1>12, <1>13, <1>14, <1>15, <1>16, <1>17, <1>18 DEF Step

(* LoopDiscipline holds in every reachable state, for any number of        *)
(* controllers calling start(), stop() and the destructor.                 *)
THEOREM LoopDisciplineHolds == Spec => []LoopDiscipline
<1>1. Init => LoopDiscipline
  <2> SUFFICES ASSUME Init PROVE LoopDiscipline
    OBVIOUS
  <2>1. TypeOK
    BY DEF Init, TypeOK, PastType, FreshPast, ControllerLabels, Deaths
  <2>2. OneBusy /\ StartInv /\ StopInv /\ RestInv
    BY DEF Init, OneBusy, StartInv, StopInv, RestInv, NoThreadLeft, Live
  <2>3. LateInv /\ DestructionInv /\ NeverTerminates
    BY DEF Init, FreshPast, LateInv, DestructionInv, NeverTerminates
  <2> QED
    BY <2>1, <2>2, <2>3 DEF LoopDiscipline
<1>2. LoopDiscipline /\ [Next]_vars => LoopDiscipline'
  BY TypeStep, OrderlyStep, DisciplineStep DEF LoopDiscipline, Discipline
<1> QED
  BY <1>1, <1>2, PTL DEF Spec

(* std::terminate is called for an exception of run() only, and join()     *)
(* always has a thread to wait for, when start() and stop() do not overlap.*)
THEOREM NeverTerminatesHolds == Spec => []NeverTerminates
<1>1. LoopDiscipline => NeverTerminates
  BY DEF LoopDiscipline, NeverTerminates
<1> QED
  BY <1>1, LoopDisciplineHolds, PTL

(* run() never runs in two loop threads at once.                           *)
THEOREM OneLoopHolds == Spec => []OneLoop
<1>1. LoopDiscipline => OneLoop
  <2> SUFFICES ASSUME LoopDiscipline, Orderly, NEW l \in Loops, NEW m \in Loops,
                      Live(l), Live(m)
               PROVE  l = m
    BY DEF OneLoop
  <2> USE DEF LoopDiscipline, StartInv, StopInv, RestInv, NoThreadLeft, OnlyLive, Behind
  <2>1. CASE \A c \in Controllers : pc[c] \in {"idle", "dtorBase", "dtorStop"}
    BY <2>1
  <2>2. ASSUME NEW c \in Controllers, pc[c] \notin {"idle", "dtorBase", "dtorStop"}
        PROVE  l = m
    <3>1. pc[c] \in {"spawn", "assign", "join", "dtorJoin", "dtorEnd"}
      BY <2>2 DEF TypeOK, ControllerLabels
    <3> QED
      BY <3>1
  <2> QED
    BY <2>1, <2>2
<1> QED
  BY <1>1, LoopDisciplineHolds, PTL

(* Nothing reports after stop() has returned, and at most one report       *)
(* begins between the flag going down and the loop noticing it.            *)
THEOREM StoppedMeansNoLoopHolds == Spec => [](StoppedMeansNoLoop /\ OneLateRun)
<1>1. LoopDiscipline => StoppedMeansNoLoop /\ OneLateRun
  BY DEF LoopDiscipline, StoppedMeansNoLoop, OneLateRun, RestInv, LateInv, NoThreadLeft, InCall
<1> QED
  BY <1>1, LoopDisciplineHolds, PTL

(* A reporter that was stopped first is never used by run() once its       *)
(* members are destroyed.                                                  *)
THEOREM NoRunAfterDestructionHolds == Spec => []NoRunAfterDestruction
<1>1. LoopDiscipline => NoRunAfterDestruction
  BY DEF LoopDiscipline, NoRunAfterDestruction, DestructionInv, NoThreadLeft, Live
<1> QED
  BY <1>1, LoopDisciplineHolds, PTL

----------------------------------------------------------------------------
(* Reports.                                                                *)

(* What process() reads: the snapshot at most once, and then first.        *)
Shaped(s) ==
    s \in Seq(Pieces \cup {"snapshot"}) /\ \A i \in 2 .. Len(s) : s[i] \in Pieces

(* More pieces may follow what is shaped so.                               *)
LEMMA ShapedConcat ==
    ASSUME NEW s, Shaped(s), s # <<>>, NEW t \in Seq(Pieces)
    PROVE  Shaped(s \o t) /\ s \o t # <<>> /\ (s \o t)[1] = s[1]
<1> DEFINE P == Pieces \cup {"snapshot"}
<1>1. s \in Seq(P) /\ t \in Seq(P) /\ Len(s) \in Nat \ {0}
  BY DEF Shaped
<1>2. s \o t \in Seq(P) /\ Len(s \o t) = Len(s) + Len(t)
  BY <1>1
<1>3. \A i \in 1 .. Len(s) + Len(t) :
         (s \o t)[i] = IF i <= Len(s) THEN s[i] ELSE t[i - Len(s)]
  BY <1>1
<1>4. \A i \in 1 .. Len(t) : t[i] \in Pieces
  OBVIOUS
<1> HIDE DEF P
<1>5. ASSUME NEW i \in 2 .. Len(s \o t) PROVE (s \o t)[i] \in Pieces
  <2>1. Len(t) \in Nat /\ i \in 1 .. Len(s) + Len(t)
    BY <1>1, <1>2
  <2>2. CASE i <= Len(s)
    BY <1>1, <1>3, <2>1, <2>2 DEF Shaped
  <2>3. CASE i > Len(s)
    BY <1>1, <1>3, <1>4, <2>1, <2>3
  <2> QED
    BY <1>1, <2>2, <2>3
<1> QED
  BY <1>1, <1>2, <1>3, <1>5 DEF Shaped, P

(* Every process() is, and only a metric with a sample has a snapshot.     *)
LEMMA ReadsShaped ==
    ASSUME NEW m \in DOMAIN Metrics, reporter \in Reporters
    PROVE  /\ Shaped(Reads(m))
           /\ Reads(m) # <<>> /\ Reads(m)[1] = "snapshot" => m \in Sampled
<1> DEFINE U == <<"count">>
           T == <<"quantiles">>
           S == <<"snapshot">>
           C == <<"snapshot", "count">>
<1>1. Metrics[m] \in Kinds
  BY ReportsAssumption
<1>2. /\ Shaped(<<>>) /\ Shaped(U) /\ Shaped(<<"value">>) /\ Shaped(S) /\ Shaped(C)
      /\ U # <<>> /\ <<"value">> # <<>> /\ S # <<>> /\ C # <<>>
      /\ Rates \in Seq(Pieces) /\ Extremes \in Seq(Pieces) /\ T \in Seq(Pieces)
      /\ U[1] = "count" /\ <<"value">>[1] = "value"
  BY DEF Shaped, Pieces, Rates, Extremes
<1> HIDE DEF U, T, S, C
<1>3. Shaped(U \o Rates) /\ (U \o Rates)[1] = "count"
  BY <1>2, ShapedConcat
<1>4. Shaped(S \o Extremes) /\ S \o Extremes # <<>>
  BY <1>2, ShapedConcat
<1>5. Shaped(Summary)
  BY <1>2, <1>4, ShapedConcat DEF Summary, S, T
<1>6. Shaped(C \o Rates) /\ C \o Rates # <<>>
  BY <1>2, ShapedConcat
<1>7. Shaped(C \o Rates \o Extremes) /\ C \o Rates \o Extremes # <<>>
  BY <1>2, <1>6, ShapedConcat
<1>8. Shaped(C \o Rates \o Extremes \o T)
  BY <1>2, <1>7, ShapedConcat
<1>9. reporter \in {"console", "json", "collectd"}
  BY ReportsAssumption
<1>10. Reads(m) = IF reporter = "collectd" THEN CollectdReads[Metrics[m]]
                                          ELSE ConsoleReads[Metrics[m]]
  BY <1>9 DEF Reads, ReadsOf, JsonReads
<1>11. CASE Metrics[m] \in {"histogram", "timer"}
  <2>1. m \in Sampled
    BY <1>11 DEF Sampled
  <2>2. Reads(m) \in {Summary, C \o Rates \o Extremes \o T}
    BY <1>10, <1>11 DEF ConsoleReads, CollectdReads, C, T
  <2> QED
    BY <1>5, <1>8, <2>1, <2>2
<1>12. CASE Metrics[m] \in {"counter", "value", "meter"}
  <2>1. Reads(m) \in {<<>>, U, <<"value">>, U \o Rates}
    <3>1. CASE Metrics[m] = "counter"
      BY <1>10, <3>1 DEF ConsoleReads, CollectdReads, U
    <3>2. CASE Metrics[m] = "value"
      BY <1>10, <3>2 DEF ConsoleReads, CollectdReads, U
    <3>3. CASE Metrics[m] = "meter"
      BY <1>10, <3>3 DEF ConsoleReads, CollectdReads, U
    <3> QED
      BY <1>12, <3>1, <3>2, <3>3
  <2> QED
    BY <1>2, <1>3, <2>1
<1> QED
  BY <1>1, <1>11, <1>12 DEF Kinds

(* collectd: the parts of a message move by what they declare.             *)
LEMMA DeclaredMoved ==
    ASSUME NEW m \in DOMAIN Metrics
    PROVE  Declared[m] = Moved[m]
<1> DEFINE D == [i \in DOMAIN Message(m) |-> Message(m)[i].declared]
           M == [i \in DOMAIN Message(m) |-> Message(m)[i].moved]
<1>1. Declared[m] = FoldFunction(+, 0, D) /\ Moved[m] = FoldFunction(+, 0, M)
  BY DEF Declared, Moved
<1>2. Metrics[m] \in Kinds /\ HostLength \in Nat /\ PluginLength[m] \in Nat /\ InstanceLength[m] \in Nat
  BY ReportsAssumption
<1>3. TypeLength[Metrics[m]] \in Nat /\ ValuesIn[Metrics[m]] \in Nat
  BY <1>2 DEF TypeLength, ValuesIn, Kinds
<1>4. \A n \in Nat : TextPart(n).declared = TextPart(n).moved
  BY DEF TextPart
<1>5. \A n \in Nat : ValuesPart(n).declared = ValuesPart(n).moved
  BY DEF ValuesPart
<1>6. NumberPart.declared = NumberPart.moved
  BY DEF NumberPart
<1>7. \A i \in DOMAIN Message(m) : Message(m)[i].declared = Message(m)[i].moved
  BY <1>2, <1>3, <1>4, <1>5, <1>6 DEF Message
<1>8. D = M
  BY <1>7
<1> HIDE DEF D, M
<1> QED
  BY <1>1, <1>8

(* A set of numbers has a least one.                                       *)
LEMMA LeastNatural ==
    ASSUME NEW N \in SUBSET Nat, N # {}
    PROVE  \E n \in N : \A m \in N : n <= m
<1> DEFINE R == OpToRel(<, Nat)
<1>0. IsWellFoundedOn(R, Nat)
  BY NatLessThanWellFounded
<1> HIDE DEF R
<1>1. PICK n \in N : \A m \in N : ~(<<m, n>> \in R)
  BY <1>0, WFMin, Zenon
<1>2. ASSUME NEW m \in N PROVE n <= m
  <2>1. m \in Nat /\ n \in Nat /\ <<m, n>> \in Nat \X Nat
    OBVIOUS
  <2>2. <<m, n>> \in R <=> m < n
    BY <2>1 DEF OpToRel, R
  <2> QED
    BY <1>1, <2>1, <2>2, SMT
<1> QED
  BY <1>2

(* The recursion of JsonTexts has a solution, so that JsonTexts is one.    *)
TextUpto(t, w, n) ==
    /\ t = [m \in 0 .. Len(Metrics) |-> t[m]]
    /\ \A m \in 0 .. n :
          t[m] = IF m = 0 THEN <<>> ELSE t[m - 1] \o Comma(w, m) \o MetricText(w, m)

LEMMA TextExists ==
    ASSUME NEW w
    PROVE  \E t : TextUpto(t, w, Len(Metrics))
<1> DEFINE N == Len(Metrics)
           Missing == {n \in Nat : n <= N /\ ~ \E t : TextUpto(t, w, n)}
<1>0. N \in Nat
  BY ReportsAssumption
<1>1. ASSUME Missing # {} PROVE FALSE
  <2>1. PICK n \in Missing : \A m \in Missing : n <= m
    BY <1>1, LeastNatural
  <2>2. CASE n = 0
    <3> DEFINE t == [m \in 0 .. N |-> <<>>]
    <3>1. TextUpto(t, w, 0)
      BY <1>0 DEF TextUpto
    <3> QED
      BY <2>1, <2>2, <3>1
  <2>3. CASE n # 0
    <3>1. n - 1 \in Nat /\ n - 1 <= N /\ n - 1 \notin Missing /\ n \in Nat /\ n <= N
      BY <1>0, <2>1, <2>3
    <3>2. PICK s : TextUpto(s, w, n - 1)
      BY <3>1
    <3> DEFINE t == [m \in 0 .. N |->
                       IF m = n THEN s[n - 1] \o Comma(w, n) \o MetricText(w, n) ELSE s[m]]
    <3>3. ASSUME NEW m \in 0 .. n
          PROVE  t[m] = IF m = 0 THEN <<>> ELSE t[m - 1] \o Comma(w, m) \o MetricText(w, m)
      <4>1. CASE m = n
        <5>1. t[n - 1] = s[n - 1]
          BY <1>0, <3>1
        <5>2. t[n] = s[n - 1] \o Comma(w, n) \o MetricText(w, n)
          BY <1>0, <3>1
        <5> HIDE DEF t
        <5> QED
          BY <2>3, <4>1, <5>1, <5>2
      <4>2. CASE m # n
        <5>1. m \in 0 .. n - 1 /\ m \in 0 .. N
          BY <1>0, <3>1, <4>2
        <5>2. s[m] = IF m = 0 THEN <<>> ELSE s[m - 1] \o Comma(w, m) \o MetricText(w, m)
          BY <3>2, <5>1 DEF TextUpto
        <5>3. t[m] = s[m]
          BY <4>2, <5>1
        <5>4. CASE m = 0
          BY <5>2, <5>3, <5>4
        <5>5. CASE m # 0
          <6>1. m - 1 \in 0 .. N /\ m - 1 # n
            BY <3>1, <5>1, <5>5
          <6>2. t[m - 1] = s[m - 1]
            BY <6>1
          <6> HIDE DEF t
          <6> QED
            BY <5>2, <5>3, <5>5, <6>2
        <5> QED
          BY <5>4, <5>5
      <4> QED
        BY <4>1, <4>2
    <3>4. t = [m \in 0 .. N |-> t[m]]
      OBVIOUS
    <3>5. TextUpto(t, w, n)
      <4> HIDE DEF t
      <4> QED
        BY <3>3, <3>4 DEF TextUpto
    <3> QED
      BY <2>1, <3>5
  <2> QED
    BY <2>2, <2>3
<1>2. N \notin Missing
  BY <1>1
<1> QED
  BY <1>0, <1>2

(* What JsonTexts is, one metric after the other.                          *)
LEMMA JsonTextsRecursive ==
    ASSUME NEW w
    PROVE  /\ JsonTexts(w)[0] = <<>>
           /\ \A m \in 1 .. Len(Metrics) :
                 JsonTexts(w)[m] = JsonTexts(w)[m - 1] \o Comma(w, m) \o MetricText(w, m)
<1> DEFINE N == Len(Metrics)
           F(t) == [m \in 0 .. N |->
                      IF m = 0 THEN <<>> ELSE t[m - 1] \o Comma(w, m) \o MetricText(w, m)]
           T == JsonTexts(w)
<1>0. N \in Nat
  BY ReportsAssumption
<1>1. T = CHOOSE t : t = F(t)
  BY DEF JsonTexts
<1>2. PICK t : TextUpto(t, w, N)
  BY TextExists
<1>3. t = F(t)
  <2>1. \A m \in 0 .. N : t[m] = F(t)[m]
    BY <1>2 DEF TextUpto
  <2>2. t = [m \in 0 .. N |-> t[m]]
    BY <1>2 DEF TextUpto
  <2> QED
    BY <2>1, <2>2
<1>4. T = F(T)
  <2> HIDE DEF F, T
  <2> QED
    BY <1>1, <1>3
<1>5. \A m \in 0 .. N : F(T)[m] = IF m = 0 THEN <<>> ELSE T[m - 1] \o Comma(w, m) \o MetricText(w, m)
  BY <1>0
<1> HIDE DEF F, T
<1>6. \A m \in 0 .. N : T[m] = IF m = 0 THEN <<>> ELSE T[m - 1] \o Comma(w, m) \o MetricText(w, m)
  BY <1>4, <1>5
<1>7. 0 \in 0 .. N /\ \A m \in 1 .. N : m \in 0 .. N /\ m # 0
  BY <1>0
<1>8. T[0] = <<>> /\ \A m \in 1 .. N : T[m] = T[m - 1] \o Comma(w, m) \o MetricText(w, m)
  BY <1>6, <1>7
<1> QED
  BY <1>8 DEF T

(* The pieces there are, and what texts are made of them.                  *)
Words == Pieces \cup {"name", ","}
Texts == Walkers \X Int \X Words

(* Pieces are in Texts, and so are sequences of one.                       *)
LEMMA PieceIsText ==
    ASSUME NEW w \in Walkers, NEW m \in Int, NEW what \in Words
    PROVE  Piece(w, m, what) \in Texts
BY DEF Piece, Texts

LEMMA OnePiece ==
    ASSUME NEW w \in Walkers, NEW m \in Int, NEW what \in Words
    PROVE  <<Piece(w, m, what)>> \in Seq(Texts)
<1> DEFINE p == Piece(w, m, what)
<1>1. p \in Texts
  BY PieceIsText
<1> HIDE DEF p
<1>2. <<p>> \in Seq(Texts)
  BY <1>1
<1> QED
  BY <1>2 DEF p

(* The snapshot, if any, is the first of what is read.                     *)
LEMMA SkippedSmall ==
    ASSUME NEW m \in DOMAIN Metrics, reporter \in Reporters
    PROVE  /\ Len(Reads(m)) \in Nat /\ Skipped(m) \in 0 .. Len(Reads(m))
           /\ \A i \in 1 .. Len(Reads(m)) : i # Skipped(m) => Reads(m)[i] \in Pieces
           /\ Skipped(m) = 1 => Reads(m)[1] = "snapshot"
           /\ Skipped(m) \in {0, 1}
<1>1. Shaped(Reads(m))
  BY ReadsShaped
<1>2. Reads(m) \in Seq(Pieces \cup {"snapshot"}) /\ Len(Reads(m)) \in Nat
  BY <1>1 DEF Shaped
<1>3. Reads(m) # <<>> => Len(Reads(m)) > 0 /\ Reads(m)[1] \in Pieces \cup {"snapshot"}
  BY <1>2
<1>4. \A i \in 1 .. Len(Reads(m)) : i # 1 => Reads(m)[i] \in Pieces
  BY <1>1, <1>2 DEF Shaped
<1>5. \A i \in 1 .. Len(Reads(m)) : Reads(m) # <<>>
  BY <1>2
<1> QED
  BY <1>2, <1>3, <1>4, <1>5 DEF Skipped

(* To append to the end of a concatenation.                                *)
LEMMA ConcatAppend ==
    ASSUME NEW S, NEW s \in Seq(S), NEW t \in Seq(S), NEW x \in S
    PROVE  s \o Append(t, x) = Append(s \o t, x)
<1>1. Append(t, x) = t \o <<x>> /\ <<x>> \in Seq(S)
  BY AppendIsConcat
<1>2. s \o (t \o <<x>>) = (s \o t) \o <<x>> /\ s \o t \in Seq(S)
  BY <1>1, ConcatAssociative
<1> QED
  BY <1>1, <1>2, AppendIsConcat

(* A part of a text is a text, and begins with the name of the metric.     *)
LEMMA PartTyped ==
    ASSUME NEW w \in Walkers, NEW m \in DOMAIN Metrics, reporter \in Reporters,
           NEW n \in Nat, n + Skipped(m) <= Len(Reads(m))
    PROVE  /\ Part(w, m, n) \in Seq(Texts) /\ Part(w, m, n) # <<>>
           /\ Part(w, m, n)[1] = Piece(w, m, "name")
           /\ [i \in 1 .. n |-> Piece(w, m, Reads(m)[i + Skipped(m)])] \in Seq(Texts)
<1> DEFINE f == [i \in 1 .. n |-> Piece(w, m, Reads(m)[i + Skipped(m)])]
           a == Piece(w, m, "name")
<1>0. m \in Int
  BY ReportsAssumption
<1>1. ASSUME NEW i \in 1 .. n PROVE Piece(w, m, Reads(m)[i + Skipped(m)]) \in Texts
  <2>1. i + Skipped(m) \in 1 .. Len(Reads(m)) /\ i + Skipped(m) # Skipped(m)
    BY SkippedSmall
  <2>2. Reads(m)[i + Skipped(m)] \in Pieces
    BY <2>1, SkippedSmall
  <2> QED
    BY <1>0, <2>2, PieceIsText DEF Words
<1>2. f \in Seq(Texts)
  BY <1>1, IsASeq
<1>3. a \in Texts /\ <<a>> \in Seq(Texts)
  <2>1. "name" \in Words
    BY DEF Words
  <2> QED
    BY <1>0, <2>1, PieceIsText, OnePiece
<1>4. Part(w, m, n) = <<a>> \o f
  BY DEF Part
<1> HIDE DEF f, a
<1>5. <<a>> \o f \in Seq(Texts) /\ Len(<<a>> \o f) = 1 + Len(f) /\ (<<a>> \o f)[1] = a
  BY <1>2, <1>3
<1>6. <<a>> \o f # <<>>
  BY <1>2, <1>5
<1> QED
  BY <1>2, <1>4, <1>5, <1>6 DEF a, f

(* One more piece.                                                         *)
LEMMA PartGrows ==
    ASSUME NEW w \in Walkers, NEW m \in DOMAIN Metrics, reporter \in Reporters,
           NEW n \in Nat, n + Skipped(m) < Len(Reads(m))
    PROVE  Part(w, m, n + 1)
             = Append(Part(w, m, n), Piece(w, m, Reads(m)[n + 1 + Skipped(m)]))
<1> DEFINE P(i) == Piece(w, m, Reads(m)[i + Skipped(m)])
           f == [i \in 1 .. n |-> P(i)]
           g == [i \in 1 .. n + 1 |-> P(i)]
           a == <<Piece(w, m, "name")>>
<1>0. Skipped(m) \in Nat /\ Len(Reads(m)) \in Nat
  BY SkippedSmall
<1>1. f \in Seq(Texts) /\ g \in Seq(Texts)
  <2>1. n + 1 \in Nat /\ n + 1 + Skipped(m) <= Len(Reads(m)) /\ n + Skipped(m) <= Len(Reads(m))
    BY <1>0
  <2> QED
    BY <2>1, PartTyped
<1>2. Part(w, m, n) = a \o f /\ Part(w, m, n + 1) = a \o g
  BY DEF Part
<1>3. a \in Seq(Texts) /\ m \in Int
  <2>1. "name" \in Words
    BY DEF Words
  <2>2. m \in Int
    BY ReportsAssumption
  <2> QED
    BY <2>1, <2>2, OnePiece
<1>4. P(n + 1) \in Texts
  <2>1. n + 1 + Skipped(m) \in 1 .. Len(Reads(m)) /\ n + 1 + Skipped(m) # Skipped(m)
    BY <1>0
  <2>2. Reads(m)[n + 1 + Skipped(m)] \in Pieces
    BY <2>1, SkippedSmall
  <2> QED
    BY <1>3, <2>2, PieceIsText DEF Words
<1>5. g = Append(f, P(n + 1))
  <2>1. Len(f) = n /\ Len(g) = n + 1
    OBVIOUS
  <2>2. Len(Append(f, P(n + 1))) = n + 1 /\ Append(f, P(n + 1)) \in Seq(Texts)
    BY <1>1, <1>4, <2>1
  <2>3. ASSUME NEW i \in 1 .. n + 1 PROVE g[i] = Append(f, P(n + 1))[i]
    <3>1. CASE i = n + 1
      BY <1>1, <1>4, <2>1, <3>1, AppendProperties
    <3>2. CASE i # n + 1
      <4>1. i \in 1 .. Len(f) /\ f[i] = P(i)
        BY <2>1, <3>2
      <4> HIDE DEF f, g
      <4>2. Append(f, P(n + 1))[i] = f[i]
        BY <1>1, <1>4, <4>1, AppendProperties
      <4> QED
        BY <4>1, <4>2 DEF g
    <3> QED
      BY <3>1, <3>2
  <2> HIDE DEF f, g, P
  <2> QED
    BY <1>1, <2>1, <2>2, <2>3, SeqEqual
<1> HIDE DEF f, g, P, a
<1>6. a \o g = Append(a \o f, P(n + 1))
  BY <1>1, <1>3, <1>4, <1>5, ConcatAppend
<1> QED
  BY <1>2, <1>6 DEF P

(* The other ingredients are texts, too.                                   *)
LEMMA CommaTyped ==
    ASSUME NEW w \in Walkers, NEW m \in Int
    PROVE  Comma(w, m) \in Seq(Texts)
<1>1. "," \in Words
  BY DEF Words
<1>2. <<Piece(w, m, ",")>> \in Seq(Texts)
  BY <1>1, OnePiece
<1>3. <<>> \in Seq(Texts)
  OBVIOUS
<1> QED
  BY <1>2, <1>3 DEF Comma

LEMMA MetricTextTyped ==
    ASSUME NEW w \in Walkers, NEW m \in DOMAIN Metrics, reporter \in Reporters
    PROVE  /\ MetricText(w, m) \in Seq(Texts) /\ MetricText(w, m) # <<>>
           /\ MetricText(w, m)[1] = Piece(w, m, "name")
<1>1. /\ Len(Reads(m)) - Skipped(m) \in Nat
      /\ Len(Reads(m)) - Skipped(m) + Skipped(m) <= Len(Reads(m))
  BY SkippedSmall
<1> QED
  BY <1>1, PartTyped DEF MetricText

LEMMA JsonTextsTyped ==
    ASSUME NEW w \in Walkers, reporter \in Reporters
    PROVE  \A m \in 0 .. Len(Metrics) : JsonTexts(w)[m] \in Seq(Texts)
<1> DEFINE N == Len(Metrics)
           Other == {m \in 0 .. N : JsonTexts(w)[m] \notin Seq(Texts)}
<1>0. N \in Nat
  BY ReportsAssumption
<1>1. ASSUME Other # {} PROVE FALSE
  <2>1. PICK m \in Other : \A k \in Other : m <= k
    <3>1. Other \in SUBSET Nat
      BY <1>0
    <3> HIDE DEF Other
    <3> QED
      BY <1>1, <3>1, LeastNatural
  <2>2. m # 0
    BY <2>1, JsonTextsRecursive, EmptySeq
  <2>3. m \in 1 .. N /\ m - 1 \in 0 .. N /\ m - 1 \notin Other
    BY <1>0, <2>1, <2>2
  <2>4. JsonTexts(w)[m - 1] \in Seq(Texts) /\ Comma(w, m) \in Seq(Texts)
    <3>1. JsonTexts(w)[m - 1] \in Seq(Texts)
      BY <2>3
    <3>2. m \in Int
      BY <1>0, <2>3
    <3> QED
      BY <3>1, <3>2, CommaTyped
  <2>5. MetricText(w, m) \in Seq(Texts)
    BY <2>3, MetricTextTyped, ReportsAssumption
  <2>6. JsonTexts(w)[m] = JsonTexts(w)[m - 1] \o Comma(w, m) \o MetricText(w, m)
    BY <2>3, JsonTextsRecursive
  <2>7. JsonTexts(w)[m] \in Seq(Texts)
    BY <2>4, <2>5, <2>6
  <2> QED
    BY <2>1, <2>7
<1> QED
  BY <1>1

----------------------------------------------------------------------------

(* Metrics are numbered, and the reporter stays what it is.                *)
LEMMA MetricsDomain == DOMAIN Metrics = 1 .. Len(Metrics) /\ Len(Metrics) \in Nat
BY ReportsAssumption

LEMMA ReporterStays ==
    ASSUME [ReportsNext]_reportsVars
    PROVE  reporter' = reporter /\ \A m : Reads(m)' = Reads(m) /\ Skipped(m)' = Skipped(m)
<1>1. reporter' = reporter
  BY DEF ReportsNext, FeedSample, AddCount, ClearCount, ClearSample, Begin, WalkStep,
         NextMetric, TakeSnapshot, Read, EndMetric, Overflow, EndReport, Terminated, reportsVars
<1>2. \A m : Reads(m)' = Reads(m)
  BY <1>1 DEF Reads
<1> QED
  BY <1>1, <1>2 DEF Skipped

(* What other threads do to a metric.                                      *)
DataStep == \E m \in Sampled : FeedSample(m) \/ AddCount(m) \/ ClearCount(m) \/ ClearSample(m)

(* Updates and clear() leave the walkers alone.                            *)
LEMMA DataTyped ==
    ASSUME ReportsTypeOK, DataStep
    PROVE  /\ data' \in [Sampled ->
                          [sampled : Nat, count : Nat, updating : Nat, clearing : Nat]]
           /\ torn' \in [Walkers -> BOOLEAN]
           /\ UNCHANGED <<reporter, mutex, out, walker, reports>>
<1> DEFINE D == [sampled : Nat, count : Nat, updating : Nat, clearing : Nat]
<1>1. PICK m \in Sampled : FeedSample(m) \/ AddCount(m) \/ ClearCount(m) \/ ClearSample(m)
  BY DEF DataStep
<1>2. data \in [Sampled -> D] /\ torn \in [Walkers -> BOOLEAN]
  BY DEF ReportsTypeOK
<1>3. data[m] \in D
  BY <1>2
<1>4. torn' \in [Walkers -> BOOLEAN]
  BY <1>1, <1>2 DEF FeedSample, AddCount, ClearCount, ClearSample
<1>5. UNCHANGED <<reporter, mutex, out, walker, reports>>
  BY <1>1 DEF FeedSample, AddCount, ClearCount, ClearSample, bounds
<1>6. data' \in [Sampled -> D]
  <2>1. CASE FeedSample(m)
    BY <1>2, <1>3, <2>1 DEF FeedSample
  <2>2. CASE AddCount(m)
    BY <1>2, <1>3, <2>2 DEF AddCount
  <2>3. CASE ClearCount(m)
    BY <1>2, <1>3, <2>3 DEF ClearCount
  <2>4. CASE ClearSample(m)
    BY <1>2, <1>3, <2>4 DEF ClearSample
  <2> QED
    BY <1>1, <2>1, <2>2, <2>3, <2>4
<1> QED
  BY <1>4, <1>5, <1>6

(* The lesser of two numbers.                                              *)
LEMMA MinOfTwo ==
    ASSUME NEW a \in Int, NEW b \in Int
    PROVE  Min({a, b}) \in {a, b} /\ Min({a, b}) <= a /\ Min({a, b}) <= b
<1>1. \E x \in {a, b} : \A y \in {a, b} : x <= y
  <2>1. CASE a <= b
    BY <2>1
  <2>2. CASE ~(a <= b)
    BY <2>2
  <2> QED
    BY <2>1, <2>2
<1>2. Min({a, b}) \in {a, b} /\ \A y \in {a, b} : Min({a, b}) <= y
  BY <1>1 DEF Min
<1> QED
  BY <1>2

(* A read is of something there is to read.                                *)
LEMMA ReadingTyped ==
    ASSUME ReportsTypeOK, [ReportsNext]_reportsVars, NEW w \in Walkers, NEW what,
           Reading(w, what), UNCHANGED <<place, metric>>
    PROVE  /\ step' \in [Walkers -> Nat]
           /\ \A v \in Walkers : place'[v] = "process" =>
                 metric'[v] > 0 /\ step'[v] \in 1 .. Len(Reads(metric[v])') + 1
<1>r. reporter' = reporter /\ \A m : Reads(m)' = Reads(m)
  BY ReporterStays
<1>1. step[w] \in Nat /\ step' = [step EXCEPT ![w] = step[w] + 1] /\ step \in [Walkers -> Nat]
  BY DEF ReportsTypeOK, Reading, Set
<1>2. metric[w] \in DOMAIN Metrics /\ reporter \in Reporters
  BY MetricsDomain DEF ReportsTypeOK, Reading
<1>3. Len(Reads(metric[w])) \in Nat /\ step[w] <= Len(Reads(metric[w]))
  BY <1>2, SkippedSmall DEF Reading
<1>4. ASSUME NEW v \in Walkers, place'[v] = "process"
      PROVE  metric'[v] > 0 /\ step'[v] \in 1 .. Len(Reads(metric[v])') + 1
  <2>1. metric'[v] > 0 /\ step[v] \in 1 .. Len(Reads(metric[v])) + 1
    BY <1>4 DEF ReportsTypeOK
  <2>2. Reads(metric[v])' = Reads(metric[v])
    BY <1>r
  <2>3. CASE v = w
    BY <1>1, <1>3, <2>1, <2>2, <2>3
  <2>4. CASE v # w
    BY <1>1, <2>1, <2>2, <2>4
  <2> QED
    BY <2>3, <2>4
<1> QED
  BY <1>1, <1>4

(* Every variable keeps its type under every step.                         *)
LEMMA ReportsTypeStep ==
    ASSUME ReportsTypeOK, [ReportsNext]_reportsVars
    PROVE  ReportsTypeOK'
<1>r. reporter' = reporter /\ \A m : Reads(m)' = Reads(m)
  BY ReporterStays
<1>m. DOMAIN Metrics = 1 .. Len(Metrics) /\ Len(Metrics) \in Nat
  BY MetricsDomain
<1>n. reporter \in Reporters /\ MaxUpdates \in Nat
  BY ReportsAssumption DEF ReportsTypeOK
<1>s. \A m \in DOMAIN Metrics : Len(Reads(m)) \in Nat
  BY <1>n, SkippedSmall
<1> USE DEF ReportsTypeOK, Set, Forget
<1>1. CASE DataStep
  <2>1. UNCHANGED <<reporter, mutex, out, walker, reports>>
    BY <1>1, DataTyped
  <2>2. /\ data' \in [Sampled ->
                        [sampled : Nat, count : Nat, updating : Nat, clearing : Nat]]
        /\ torn' \in [Walkers -> BOOLEAN]
    BY <1>1, DataTyped
  <2> QED
    BY <1>r, <2>1, <2>2 DEF walker
<1>2. ASSUME NEW w \in Walkers, Begin(w) PROVE ReportsTypeOK'
  BY <1>2, <1>r, <1>m DEF Begin, Enter
<1>3. ASSUME NEW w \in Walkers, NextMetric(w) PROVE ReportsTypeOK'
  <2>1. /\ metric[w] \in Nat /\ metric[w] + 1 \in 0 .. Len(Metrics)
        /\ metric[w] + 1 \in DOMAIN Metrics
    BY <1>3, <1>m DEF NextMetric
  <2>2. /\ place' = [place EXCEPT ![w] = "process"] /\ step' = [step EXCEPT ![w] = 1]
        /\ metric' = [metric EXCEPT ![w] = metric[w] + 1]
        /\ UNCHANGED <<data, mutex, snapshot, result, calm, torn, least>>
    BY <1>3 DEF NextMetric
  <2>3. /\ place' \in [Walkers -> {"idle", "walk", "process"}]
        /\ metric' \in [Walkers -> 0 .. Len(Metrics)] /\ step' \in [Walkers -> Nat]
    BY <2>1, <2>2
  <2>4. ASSUME NEW v \in Walkers, place'[v] = "process"
        PROVE  metric'[v] > 0 /\ step'[v] \in 1 .. Len(Reads(metric[v])') + 1
    <3>1. CASE v = w
      <4>1. metric'[v] = metric[w] + 1 /\ step'[v] = 1
        BY <2>2, <3>1
      <4>2. Len(Reads(metric[v])') \in Nat
        BY <1>r, <1>s, <2>1, <4>1
      <4>3. metric'[v] > 0
        BY <2>1, <4>1
      <4>4. 1 \in 1 .. Len(Reads(metric[v])') + 1
        BY <4>2
      <4> QED
        BY <4>1, <4>3, <4>4
    <3>2. CASE v # w
      BY <1>r, <2>2, <2>4, <3>2
    <3> QED
      BY <3>1, <3>2
  <2> QED
    BY <1>r, <2>2, <2>3, <2>4
<1>4. ASSUME NEW w \in Walkers, TakeSnapshot(w) PROVE ReportsTypeOK'
  <2>1. /\ step[w] \in Nat /\ step[w] <= Len(Reads(metric[w]))
        /\ Reads(metric[w])[step[w]] = "snapshot" /\ metric[w] \in DOMAIN Metrics
    <3>1. Reading(w, "snapshot") /\ place[w] = "process"
      BY <1>4 DEF TakeSnapshot, Reading
    <3>2. metric[w] \in 0 .. Len(Metrics) /\ metric[w] > 0 /\ step[w] \in Nat
      BY <3>1
    <3> QED
      BY <1>m, <3>1, <3>2 DEF Reading
  <2>2. metric[w] \in Sampled
    <3>1. Shaped(Reads(metric[w])) /\ step[w] \in 1 .. Len(Reads(metric[w]))
      BY <1>n, <1>4, <2>1, ReadsShaped DEF TakeSnapshot, Reading
    <3>2. step[w] = 1
      <4>1. "snapshot" \notin Pieces
        BY DEF Pieces
      <4>2. step[w] \notin 2 .. Len(Reads(metric[w]))
        BY <2>1, <3>1, <4>1 DEF Shaped
      <4> QED
        BY <1>s, <2>1, <3>1, <4>2
    <3>3. Reads(metric[w]) # <<>>
      BY <3>1 DEF Shaped
    <3> QED
      BY <1>n, <2>1, <3>2, <3>3, ReadsShaped
  <2>3. data[metric[w]].sampled \in Nat /\ Quiet(metric[w]) \in BOOLEAN
    BY <2>2 DEF Quiet
  <2>4. snapshot' \in [Walkers -> Nat] /\ calm' \in [Walkers -> BOOLEAN]
    BY <1>4, <2>3 DEF TakeSnapshot
  <2> QED
    BY <1>4, <1>r, <1>s, <2>1, <2>4, ReadingTyped DEF TakeSnapshot
<1>5. ASSUME NEW w \in Walkers, Read(w) PROVE ReportsTypeOK'
  <2>1. PICK what \in Pieces : 
           /\ Reading(w, what)
           /\ least' = IF metric[w] \in Sampled /\ what \in CountReaders
                       THEN Set(least, w, Min({least[w], data[metric[w]].count}))
                       ELSE least
           /\ UNCHANGED <<reporter, data, mutex, place, metric, snapshot, result, calm, torn, bounds>>
    BY <1>5 DEF Read
  <2>2. least' \in [Walkers -> Nat]
    <3>1. \A a, b \in Nat : Min({a, b}) \in Nat
      BY MinOfTwo
    <3>2. metric[w] \in Sampled => data[metric[w]].count \in Nat /\ least[w] \in Nat
      OBVIOUS
    <3> QED
      BY <2>1, <3>1, <3>2
  <2> QED
    BY <1>r, <2>1, <2>2, ReadingTyped
<1>6. ASSUME NEW w \in Walkers, EndMetric(w) PROVE ReportsTypeOK'
  BY <1>6, <1>r, <1>m, <1>n DEF EndMetric
<1>7. ASSUME NEW w \in Walkers, Overflow(w) PROVE ReportsTypeOK'
  <2>1. /\ place' = [place EXCEPT ![w] = "idle"] /\ metric' = [metric EXCEPT ![w] = 0]
        /\ mutex' \in {NoThread, mutex} /\ UNCHANGED <<data, result>>
    BY <1>7 DEF Overflow, Leave
  <2>2. 0 \in 0 .. Len(Metrics) /\ mutex' \in Walkers \cup {NoThread}
    BY <1>m, <2>1
  <2> QED
    <3>1. step' \in [Walkers -> Nat] /\ \A v \in Walkers : place'[v] = "process" => v # w
      BY <1>7, <2>1 DEF Overflow
    <3>2. \A v \in Walkers : v # w => metric'[v] = metric[v] /\ step'[v] = step[v]
                                        /\ place'[v] = place[v]
      BY <1>7, <2>1 DEF Overflow
    <3>3. /\ snapshot' \in [Walkers -> Nat] /\ least' \in [Walkers -> Nat]
          /\ calm' \in [Walkers -> BOOLEAN] /\ torn' \in [Walkers -> BOOLEAN]
      BY <1>7, <1>n DEF Overflow
    <3> QED
      BY <1>r, <2>1, <2>2, <3>1, <3>2, <3>3
<1>8. ASSUME NEW w \in Walkers, EndReport(w) PROVE ReportsTypeOK'
  <2>1. /\ place' = [place EXCEPT ![w] = "idle"] /\ metric' = [metric EXCEPT ![w] = 0]
        /\ mutex' \in {NoThread, mutex} /\ UNCHANGED <<data, step, snapshot, calm, torn, least>>
    BY <1>8 DEF EndReport, Leave
  <2>2. 0 \in 0 .. Len(Metrics) /\ mutex' \in Walkers \cup {NoThread}
    BY <1>m, <2>1
  <2> QED
    BY <1>8, <1>r, <2>1, <2>2 DEF EndReport
<1>9. CASE UNCHANGED reportsVars
  BY <1>9, <1>r DEF reportsVars, walker
<1> QED
  BY <1>1, <1>2, <1>3, <1>4, <1>5, <1>6, <1>7, <1>8, <1>9
     DEF ReportsNext, WalkStep, DataStep, Terminated

(* The texts depend on the reporter alone, which stays.                    *)
LEMMA TextsStay ==
    ASSUME [ReportsNext]_reportsVars, NEW w
    PROVE  /\ JsonTexts(w)' = JsonTexts(w)
           /\ \A m : MetricText(w, m)' = MetricText(w, m)
           /\ \A m, n : Part(w, m, n)' = Part(w, m, n)
<1>1. reporter' = reporter
  BY ReporterStays
<1>2. JsonTexts(w)' = JsonTexts(w)
  BY <1>1 DEF JsonTexts, MetricText, Part, Reads, Skipped, Piece, Comma
<1>3. \A m : MetricText(w, m)' = MetricText(w, m)
  BY <1>1 DEF MetricText, Part, Reads, Skipped
<1>4. \A m, n : Part(w, m, n)' = Part(w, m, n)
  BY <1>1 DEF Part, Reads, Skipped
<1> QED
  BY <1>2, <1>3, <1>4

(* A step of a walker leaves the place of the others alone.                *)
LEMMA OthersStay ==
    ASSUME ReportsTypeOK, NEW w \in Walkers, Begin(w) \/ WalkStep(w),
           NEW v \in Walkers, v # w
    PROVE  /\ place'[v] = place[v] /\ metric'[v] = metric[v] /\ step'[v] = step[v]
           /\ snapshot'[v] = snapshot[v] /\ calm'[v] = calm[v] /\ torn'[v] = torn[v]
           /\ least'[v] = least[v] /\ result'[v] = result[v]
<1> USE DEF ReportsTypeOK, Set, Forget
<1>1. CASE Begin(w)
  BY <1>1 DEF Begin
<1>2. CASE NextMetric(w)
  BY <1>2 DEF NextMetric
<1>3. CASE TakeSnapshot(w)
  BY <1>3 DEF TakeSnapshot, Reading
<1>4. CASE Read(w)
  BY <1>4 DEF Read, Reading
<1>5. CASE EndMetric(w)
  BY <1>5 DEF EndMetric
<1>6. CASE Overflow(w)
  BY <1>6 DEF Overflow
<1>7. CASE EndReport(w)
  BY <1>7 DEF EndReport
<1> QED
  BY <1>1, <1>2, <1>3, <1>4, <1>5, <1>6, <1>7 DEF WalkStep

(* The mutex is taken on entry and given back on every way out.            *)
LEMMA OwnerStep ==
    ASSUME ReportsTypeOK, OwnerInv, [ReportsNext]_reportsVars
    PROVE  OwnerInv'
<1>r. reporter' = reporter
  BY ReporterStays
<1> SUFFICES ASSUME Guarded PROVE \A v \in Walkers : place'[v] # "idle" <=> mutex' = v
  BY <1>r DEF OwnerInv, Guarded
<1>0. NoThread \notin Walkers /\ \A v \in Walkers : place[v] # "idle" <=> mutex = v
  BY ReportsAssumption DEF OwnerInv
<1> USE DEF ReportsTypeOK, Set
<1>1. CASE DataStep
  BY <1>0, <1>1, DataTyped DEF walker
<1>2. ASSUME NEW w \in Walkers, Begin(w)
      PROVE  \A v \in Walkers : place'[v] # "idle" <=> mutex' = v
  BY <1>0, <1>2 DEF Begin, Enter
<1>3. ASSUME NEW w \in Walkers, NextMetric(w) \/ TakeSnapshot(w) \/ Read(w) \/ EndMetric(w)
      PROVE  \A v \in Walkers : place'[v] # "idle" <=> mutex' = v
  BY <1>0, <1>3 DEF NextMetric, TakeSnapshot, Read, EndMetric
<1>4. ASSUME NEW w \in Walkers, Overflow(w) \/ EndReport(w)
      PROVE  \A v \in Walkers : place'[v] # "idle" <=> mutex' = v
  <2>1. place[w] # "idle" /\ place' = [place EXCEPT ![w] = "idle"] /\ mutex' = NoThread
    BY <1>4 DEF Overflow, EndReport, Leave
  <2>2. mutex = w
    BY <1>0, <2>1
  <2>3. \A v \in Walkers : place'[v] = IF v = w THEN "idle" ELSE place[v]
    BY <2>1
  <2> QED
    BY <1>0, <2>1, <2>2, <2>3
<1>5. CASE UNCHANGED reportsVars
  BY <1>0, <1>5 DEF reportsVars, walker
<1> QED
  BY <1>1, <1>2, <1>3, <1>4, <1>5 DEF ReportsNext, WalkStep, DataStep, Terminated

(* Where process() stands, and how many pieces that makes.                 *)
LEMMA WrittenWithin ==
    ASSUME ReportsTypeOK, NEW w \in Walkers, place[w] = "process"
    PROVE  /\ metric[w] \in DOMAIN Metrics /\ reporter \in Reporters
           /\ step[w] \in 1 .. Len(Reads(metric[w])) + 1 /\ step[w] \in Nat
           /\ Len(Reads(metric[w])) \in Nat /\ Skipped(metric[w]) \in {0, 1}
           /\ Written(w) \in Nat /\ Written(w) + Skipped(metric[w]) <= Len(Reads(metric[w]))
           /\ step[w] > Len(Reads(metric[w])) =>
                 Written(w) = Len(Reads(metric[w])) - Skipped(metric[w])
<1>1. metric[w] \in DOMAIN Metrics /\ reporter \in Reporters /\ step[w] \in Nat
  BY MetricsDomain DEF ReportsTypeOK
<1>2. step[w] \in 1 .. Len(Reads(metric[w])) + 1
  BY DEF ReportsTypeOK
<1>3. /\ Len(Reads(metric[w])) \in Nat /\ Skipped(metric[w]) \in 0 .. Len(Reads(metric[w]))
      /\ Skipped(metric[w]) \in {0, 1}
  BY <1>1, SkippedSmall
<1>4. /\ Written(w) \in Nat /\ Written(w) + Skipped(metric[w]) <= Len(Reads(metric[w]))
      /\ step[w] > Len(Reads(metric[w])) =>
            Written(w) = Len(Reads(metric[w])) - Skipped(metric[w])
  BY <1>1, <1>2, <1>3 DEF Written
<1> QED
  BY <1>1, <1>2, <1>3, <1>4

(* Where the snapshot is taken, and where the rest is read.                *)
LEMMA SnapshotFirst ==
    ASSUME ReportsTypeOK, NEW w \in Walkers, Reading(w, "snapshot")
    PROVE  metric[w] \in Sampled /\ step[w] = 1 /\ Skipped(metric[w]) = 1
<1>1. /\ metric[w] \in DOMAIN Metrics /\ reporter \in Reporters
      /\ step[w] \in 1 .. Len(Reads(metric[w])) /\ Len(Reads(metric[w])) \in Nat
  BY WrittenWithin DEF Reading
<1>2. Reads(metric[w])[step[w]] = "snapshot"
  BY DEF Reading
<1>3. "snapshot" \notin Pieces
  BY DEF Pieces
<1>4. step[w] = Skipped(metric[w])
  BY <1>1, <1>2, <1>3, SkippedSmall
<1>5. step[w] = 1
  BY <1>1, <1>4, SkippedSmall
<1>6. Reads(metric[w]) # <<>>
  BY <1>4, <1>5 DEF Skipped
<1> QED
  BY <1>1, <1>2, <1>4, <1>5, <1>6, ReadsShaped

(* The piece a getter contributes is the next one of the text.             *)
LEMMA PieceNext ==
    ASSUME ReportsTypeOK, NEW w \in Walkers, NEW what \in Pieces, Reading(w, what)
    PROVE  /\ Written(w) + 1 + Skipped(metric[w]) = step[w]
           /\ Written(w) + Skipped(metric[w]) < Len(Reads(metric[w]))
<1>1. /\ metric[w] \in DOMAIN Metrics /\ reporter \in Reporters
      /\ step[w] \in 1 .. Len(Reads(metric[w])) /\ Len(Reads(metric[w])) \in Nat
      /\ Skipped(metric[w]) \in {0, 1}
  BY WrittenWithin DEF Reading
<1>2. step[w] = 1 => Skipped(metric[w]) = 0
  <2>1. "snapshot" \notin Pieces
    BY DEF Pieces
  <2>2. Reads(metric[w])[step[w]] = what
    BY DEF Reading
  <2> QED
    BY <1>1, <2>1, <2>2, SkippedSmall
<1> QED
  BY <1>1, <1>2 DEF Written

(* Of a metric just begun there is its name.                               *)
LEMMA PartOfNone ==
    ASSUME NEW w \in Walkers, NEW m \in DOMAIN Metrics
    PROVE  Part(w, m, 0) = <<Piece(w, m, "name")>>
<1> DEFINE f == [i \in 1 .. 0 |-> Piece(w, m, Reads(m)[i + Skipped(m)])]
           a == <<Piece(w, m, "name")>>
<1>1. f = <<>>
  OBVIOUS
<1>2. a \in Seq(Texts)
  <2>1. "name" \in Words
    BY DEF Words
  <2>2. m \in Int
    BY ReportsAssumption
  <2> QED
    BY <2>1, <2>2, OnePiece
<1>3. Part(w, m, 0) = a \o f
  BY DEF Part
<1> HIDE DEF a, f
<1> QED
  BY <1>1, <1>2, <1>3, ConcatEmptySeq DEF a

(* BufferInv of one walker, and likewise CoverInv below.                   *)
BufferAt(v) ==
    LET m == metric[v]
    IN  /\ reporter = "json" /\ place[v] = "walk" => out = JsonTexts(v)[m]
        /\ reporter = "json" /\ place[v] = "process" =>
              out = JsonTexts(v)[m - 1] \o Comma(v, m) \o Part(v, m, Written(v))
        /\ reporter = "collectd" /\ place[v] = "process" => out = Part(v, m, Written(v))

(* The buffer, step by step of the thread that has the mutex.              *)
LEMMA BufferStep ==
    ASSUME ReportsTypeOK, OwnerInv, BufferInv, [ReportsNext]_reportsVars
    PROVE  BufferInv'
<1>r. reporter' = reporter /\ \A m : Skipped(m)' = Skipped(m)
  BY ReporterStays
<1>t. \A w : JsonTexts(w)' = JsonTexts(w) /\ \A m, n : Part(w, m, n)' = Part(w, m, n)
  BY TextsStay
<1>n. NoThread \notin Walkers
  BY ReportsAssumption
<1>p. reporter \in Reporters
  BY DEF ReportsTypeOK
<1> SUFFICES ASSUME NEW v \in Walkers, Guarded PROVE BufferAt(v)'
  BY <1>r DEF BufferInv, BufferAt, Guarded
<1>b. BufferAt(v)
  BY DEF BufferInv, BufferAt
<1>o. place[v] # "idle" <=> mutex = v
  BY DEF OwnerInv
<1>i. ASSUME place'[v] = "idle" PROVE BufferAt(v)'
  BY <1>i DEF BufferAt
<1>u. ASSUME UNCHANGED <<out, place, metric, step>> PROVE BufferAt(v)'
  <2>1. Written(v)' = Written(v)
    BY <1>r, <1>u DEF Written
  <2> QED
    BY <1>b, <1>r, <1>t, <1>u, <2>1 DEF BufferAt
<1>1. CASE DataStep
  BY <1>1, <1>u, DataTyped DEF walker
<1>2. CASE UNCHANGED reportsVars
  BY <1>2, <1>u DEF reportsVars, walker
<1>3. ASSUME NEW w \in Walkers, Begin(w) \/ WalkStep(w), w # v PROVE BufferAt(v)'
  <2>1. place[v] = "idle"
    BY <1>3, <1>o, <1>n DEF Begin, Enter, WalkStep, NextMetric, TakeSnapshot, Read, EndMetric,
                      Overflow, EndReport, Reading, OwnerInv
  <2> QED
    BY <1>3, <1>i, <2>1, OthersStay
<1> USE DEF Set
<1>4. CASE Begin(v)
  <2>1. place'[v] = "walk" /\ metric'[v] = 0 /\ (reporter = "json" => out' = <<>>)
    BY <1>4 DEF Begin, ReportsTypeOK
  <2> QED
    BY <1>r, <1>t, <2>1, JsonTextsRecursive DEF BufferAt
<1>5. CASE NextMetric(v)
  <2> DEFINE m == metric[v] + 1
             name == <<Piece(v, m, "name")>>
  <2>1. /\ place[v] = "walk" /\ place'[v] = "process" /\ metric'[v] = m /\ step'[v] = 1
        /\ metric[v] \in Nat
    BY <1>5 DEF NextMetric, ReportsTypeOK
  <2>2. m \in DOMAIN Metrics
    BY <1>5, MetricsDomain DEF NextMetric, ReportsTypeOK
  <2>3. Part(v, m, 0) = name
    BY <2>2, PartOfNone
  <2>4. Written(v)' = 0
    BY <2>1 DEF Written
  <2>5. CASE reporter = "json"
    <3>1. out' = out \o Comma(v, m) \o name
      BY <1>5, <2>5 DEF NextMetric
    <3>2. out = JsonTexts(v)[m - 1]
      BY <1>b, <2>1, <2>5 DEF BufferAt
    <3> HIDE DEF m, name
    <3> QED
      BY <1>r, <1>t, <2>1, <2>3, <2>4, <2>5, <3>1, <3>2 DEF BufferAt
  <2>6. CASE reporter = "collectd"
    <3>1. out' = name
      BY <1>5, <2>6 DEF NextMetric
    <3> HIDE DEF m, name
    <3> QED
      BY <1>r, <1>t, <2>1, <2>3, <2>4, <2>6, <3>1 DEF BufferAt
  <2> QED
    BY <2>5, <2>6 DEF Guarded
<1>6. CASE TakeSnapshot(v)
  <2>1. metric[v] \in Sampled /\ step[v] = 1 /\ Skipped(metric[v]) = 1
    BY <1>6, SnapshotFirst DEF TakeSnapshot
  <2>2. step'[v] = 2 /\ UNCHANGED <<out, place, metric>>
    BY <1>6, <2>1 DEF TakeSnapshot, Reading, ReportsTypeOK
  <2>3. Written(v)' = 0 /\ Written(v) = 0
    BY <1>r, <2>1, <2>2 DEF Written
  <2> QED
    BY <1>b, <1>r, <1>t, <2>2, <2>3 DEF BufferAt
<1>7. CASE Read(v)
  <2> DEFINE m == metric[v]
             n == Written(v)
  <2>1. PICK what \in Pieces : Reading(v, what) /\ Write(Piece(v, m, what))
    BY <1>7 DEF Read
  <2>2. /\ UNCHANGED <<place, metric>> /\ step'[v] = step[v] + 1 /\ place[v] = "process"
        /\ Reads(m)[step[v]] = what
    BY <1>7, <2>1 DEF Read, Reading, ReportsTypeOK
  <2>3. /\ m \in DOMAIN Metrics /\ step[v] \in Nat /\ step[v] >= 1 /\ Len(Reads(m)) \in Nat
        /\ Skipped(m) \in {0, 1} /\ n \in Nat
    BY <2>2, WrittenWithin
  <2>4. n + 1 + Skipped(m) = step[v] /\ n + Skipped(m) < Len(Reads(m))
    BY <2>1, PieceNext
  <2>5. Written(v)' = n + 1
    BY <1>r, <2>2, <2>3, <2>4 DEF Written
  <2> HIDE DEF m, n
  <2>6. Part(v, m, n + 1) = Append(Part(v, m, n), Piece(v, m, what))
    BY <1>p, <2>2, <2>3, <2>4, PartGrows
  <2>7. out' = Append(out, Piece(v, m, what))
    BY <2>1 DEF Write, Guarded
  <2>8. CASE reporter = "collectd"
    <3>1. out = Part(v, m, n)
      BY <1>b, <2>2, <2>8 DEF BufferAt, m, n
    <3>2. out' = Part(v, m, n + 1)
      BY <2>6, <2>7, <3>1
    <3> QED
      BY <1>r, <1>t, <2>2, <2>5, <2>8, <3>2 DEF BufferAt, m
  <2>9. CASE reporter = "json"
    <3> DEFINE before == JsonTexts(v)[m - 1] \o Comma(v, m)
    <3>1. out = before \o Part(v, m, n)
      BY <1>b, <2>2, <2>9 DEF BufferAt, m, n
    <3>2. before \in Seq(Texts)
      <4>1. m - 1 \in 0 .. Len(Metrics) /\ m \in Int
        BY <2>3, MetricsDomain
      <4>2. JsonTexts(v)[m - 1] \in Seq(Texts) /\ Comma(v, m) \in Seq(Texts)
        BY <1>p, <4>1, JsonTextsTyped, CommaTyped
      <4> QED
        BY <4>2
    <3>3. Part(v, m, n) \in Seq(Texts) /\ Piece(v, m, what) \in Texts
      <4>1. n + Skipped(m) <= Len(Reads(m)) /\ m \in Int
        BY <2>3, <2>4, MetricsDomain
      <4>2. what \in Words
        BY DEF Words
      <4> QED
        BY <1>p, <2>3, <4>1, <4>2, PartTyped, PieceIsText
    <3> HIDE DEF before
    <3>4. before \o Append(Part(v, m, n), Piece(v, m, what))
            = Append(before \o Part(v, m, n), Piece(v, m, what))
      BY <3>2, <3>3, ConcatAppend
    <3>5. out' = before \o Part(v, m, n + 1)
      BY <2>6, <2>7, <3>1, <3>4
    <3> QED
      BY <1>r, <1>t, <2>2, <2>5, <2>9, <3>5 DEF BufferAt, m, before
  <2> QED
    BY <2>8, <2>9 DEF Guarded
<1>8. CASE EndMetric(v)
  <2>1. /\ place[v] = "process" /\ place'[v] = "walk" /\ UNCHANGED <<out, metric>>
        /\ step[v] > Len(Reads(metric[v]))
    BY <1>8 DEF EndMetric, ReportsTypeOK
  <2>2. /\ metric[v] \in DOMAIN Metrics
        /\ Written(v) = Len(Reads(metric[v])) - Skipped(metric[v])
    BY <2>1, WrittenWithin
  <2>3. Part(v, metric[v], Written(v)) = MetricText(v, metric[v])
    BY <2>2 DEF MetricText
  <2>4. reporter = "json" => out = JsonTexts(v)[metric[v]]
    <3>1. metric[v] \in 1 .. Len(Metrics)
      BY <2>2, MetricsDomain
    <3>2. JsonTexts(v)[metric[v]] = JsonTexts(v)[metric[v] - 1] \o Comma(v, metric[v])
                                      \o MetricText(v, metric[v])
      BY <3>1, JsonTextsRecursive
    <3> QED
      BY <1>b, <2>1, <2>3, <3>2 DEF BufferAt
  <2> QED
    BY <1>r, <1>t, <2>1, <2>4 DEF BufferAt
<1>9. CASE Overflow(v) \/ EndReport(v)
  BY <1>9, <1>i DEF Overflow, EndReport, ReportsTypeOK
<1> QED
  BY <1>1, <1>2, <1>3, <1>4, <1>5, <1>6, <1>7, <1>8, <1>9
     DEF ReportsNext, WalkStep, DataStep, Terminated

(* A result changes when collectd sends a message that fits, or when JSON  *)
(* returns its text.                                                       *)
LEMMA ResultStep ==
    ASSUME ReportsTypeOK, BufferInv, [ReportsNext]_reportsVars, NEW v \in Walkers
    PROVE  \/ result'[v] = result[v]
           \/ /\ reporter = "collectd"
              /\ \E m \in DOMAIN Metrics : result'[v] = MetricText(v, m) /\ Fits(m)
           \/ reporter = "json" /\ result'[v] = JsonText(v)
<1> USE DEF Set
<1>1. CASE DataStep
  BY <1>1, DataTyped DEF walker
<1>2. CASE UNCHANGED reportsVars
  BY <1>2 DEF reportsVars, walker
<1>3. ASSUME NEW w \in Walkers, Begin(w) \/ WalkStep(w), w # v PROVE result'[v] = result[v]
  BY <1>3, OthersStay
<1>4. CASE Begin(v) \/ NextMetric(v) \/ TakeSnapshot(v) \/ Read(v) \/ Overflow(v)
  BY <1>4 DEF Begin, NextMetric, TakeSnapshot, Read, Overflow
<1>5. CASE EndMetric(v) /\ reporter = "collectd"
  <2>1. /\ place[v] = "process" /\ result'[v] = out /\ Fits(metric[v])
        /\ step[v] > Len(Reads(metric[v]))
    BY <1>5 DEF EndMetric, TooLong, ReportsTypeOK
  <2>2. metric[v] \in DOMAIN Metrics /\ out = MetricText(v, metric[v])
    BY <1>5, <2>1, WrittenWithin DEF BufferInv, MetricText
  <2> QED
    BY <1>5, <2>1, <2>2
<1>6. CASE EndMetric(v) /\ reporter # "collectd"
  BY <1>6 DEF EndMetric
<1>7. CASE EndReport(v) /\ reporter = "json"
  BY <1>7 DEF EndReport, BufferInv, JsonText, ReportsTypeOK
<1>8. CASE EndReport(v) /\ reporter # "json"
  BY <1>8 DEF EndReport
<1> QED
  BY <1>1, <1>2, <1>3, <1>4, <1>5, <1>6, <1>7, <1>8
     DEF ReportsNext, WalkStep, DataStep, Terminated

(* The messages that were sent, and the texts that were returned.          *)
LEMMA SentStep ==
    ASSUME ReportsTypeOK, BufferInv, SentInv, [ReportsNext]_reportsVars
    PROVE  SentInv'
<1>r. reporter' = reporter
  BY ReporterStays
<1> SUFFICES ASSUME NEW v \in Walkers, reporter = "collectd", result'[v] # <<>>
             PROVE  \E m \in DOMAIN Metrics : result'[v] = MetricText(v, m)' /\ Fits(m)
  BY <1>r DEF SentInv, Fits
<1>1. \E m \in DOMAIN Metrics : result'[v] = MetricText(v, m) /\ Fits(m)
  BY ResultStep DEF SentInv
<1> QED
  BY <1>1, TextsStay

LEMMA WholeStep ==
    ASSUME ReportsTypeOK, BufferInv, ReportsWhole, [ReportsNext]_reportsVars
    PROVE  ReportsWhole'
<1>r. reporter' = reporter
  BY ReporterStays
<1>t. \A w : JsonText(w)' = JsonText(w) /\ \A m : MetricText(w, m)' = MetricText(w, m)
  BY TextsStay DEF JsonText
<1> SUFFICES ASSUME NEW v \in Walkers, result'[v] # <<>>
             PROVE  \/ reporter = "json" /\ result'[v] = JsonText(v)'
                    \/ reporter = "collectd"
                       /\ \E m \in DOMAIN Metrics : result'[v] = MetricText(v, m)'
  BY <1>r DEF ReportsWhole
<1>1. \/ reporter = "json" /\ result'[v] = JsonText(v)
      \/ reporter = "collectd" /\ \E m \in DOMAIN Metrics : result'[v] = MetricText(v, m)
  BY ResultStep DEF ReportsWhole
<1> QED
  BY <1>1, <1>t

(* The lengths in a message that was sent are right.                       *)
LEMMA SentFits ==
    ASSUME ReportsTypeOK, SentInv
    PROVE  FitsInv
<1> SUFFICES ASSUME NEW w \in Walkers, reporter = "collectd", result[w] # <<>>
             PROVE  Declared[result[w][1][2]] = Moved[result[w][1][2]] /\ Fits(result[w][1][2])
  BY DEF FitsInv
<1>1. PICK m \in DOMAIN Metrics : result[w] = MetricText(w, m) /\ Fits(m)
  BY DEF SentInv
<1>2. result[w][1] = Piece(w, m, "name")
  BY <1>1, MetricTextTyped DEF ReportsTypeOK
<1>3. result[w][1][2] = m
  BY <1>2 DEF Piece
<1> QED
  BY <1>1, <1>3, DeclaredMoved

----------------------------------------------------------------------------

(* An update feeds the sample first, and clear() empties it last.          *)
LEMMA DataInvStep ==
    ASSUME ReportsTypeOK, DataInv, [ReportsNext]_reportsVars
    PROVE  DataInv'
<1> DEFINE D == [sampled : Nat, count : Nat, updating : Nat, clearing : Nat]
<1>0. data \in [Sampled -> D] /\ updates \in Nat /\ MaxUpdates \in Nat
  BY ReportsAssumption DEF ReportsTypeOK, DataInv
<1>1. ASSUME UNCHANGED <<data, updates>> PROVE DataInv'
  BY <1>1 DEF DataInv
<1>2. ASSUME NEW m \in Sampled, FeedSample(m) PROVE DataInv'
  BY <1>0, <1>2 DEF FeedSample, DataInv
<1>3. ASSUME NEW m \in Sampled, AddCount(m) PROVE DataInv'
  BY <1>0, <1>3 DEF AddCount, DataInv, bounds
<1>4. ASSUME NEW m \in Sampled, ClearCount(m) PROVE DataInv'
  BY <1>0, <1>4 DEF ClearCount, DataInv
<1>5. ASSUME NEW m \in Sampled, ClearSample(m) PROVE DataInv'
  BY <1>0, <1>5 DEF ClearSample, DataInv, bounds
<1>6. ASSUME NEW w \in Walkers, Begin(w) \/ WalkStep(w) PROVE UNCHANGED <<data, updates>>
  BY <1>6 DEF Begin, WalkStep, NextMetric, TakeSnapshot, Read, EndMetric, Overflow, EndReport,
              bounds
<1>7. CASE UNCHANGED reportsVars
  BY <1>1, <1>7 DEF reportsVars, bounds
<1> QED
  BY <1>1, <1>2, <1>3, <1>4, <1>5, <1>6, <1>7 DEF ReportsNext, Terminated

CoverAt(v) ==
    /\ place[v] # "process" \/ step[v] = 1 => least[v] = MaxUpdates /\ ~calm[v]
    /\ calm[v] /\ ~torn[v] =>
          /\ metric[v] \in Sampled /\ snapshot[v] <= least[v]
          /\ snapshot[v] <= data[metric[v]].count

(* No count_ falls below a calm snapshot until a clear().                  *)
LEMMA CoverStep ==
    ASSUME ReportsTypeOK, DataInv, CoverInv, [ReportsNext]_reportsVars
    PROVE  CoverInv'
<1> SUFFICES ASSUME NEW v \in Walkers PROVE CoverAt(v)'
  BY DEF CoverInv, CoverAt
<1> DEFINE D == [sampled : Nat, count : Nat, updating : Nat, clearing : Nat]
<1>0. /\ CoverAt(v) /\ data \in [Sampled -> D] /\ MaxUpdates \in Nat
      /\ least[v] \in Nat /\ snapshot[v] \in Nat
      /\ calm \in [Walkers -> BOOLEAN] /\ torn \in [Walkers -> BOOLEAN]
  BY ReportsAssumption DEF ReportsTypeOK, CoverInv, CoverAt
<1>1. ASSUME NEW m \in Sampled, FeedSample(m) \/ AddCount(m) \/ ClearSample(m) PROVE CoverAt(v)'
  <2>1. \A k \in Sampled : data'[k].count >= data[k].count
    BY <1>0, <1>1 DEF FeedSample, AddCount, ClearSample
  <2>2. UNCHANGED <<place, step, least, calm, torn, metric, snapshot>>
    BY <1>1 DEF FeedSample, AddCount, ClearSample, walker
  <2>3. calm[v] /\ ~torn[v] => data[metric[v]].count \in Nat /\ data'[metric[v]].count \in Nat
    <3>1. data' \in [Sampled -> D]
      BY <1>1, DataTyped DEF DataStep
    <3> QED
      BY <1>0, <3>1 DEF CoverAt
  <2> QED
    BY <1>0, <2>1, <2>2, <2>3 DEF CoverAt
<1>2. ASSUME NEW m \in Sampled, ClearCount(m) PROVE CoverAt(v)'
  <2>1. UNCHANGED <<place, step, least, calm, metric, snapshot>>
    BY <1>2 DEF ClearCount, walker
  <2>2. torn'[v] = (torn[v] \/ (place[v] = "process" /\ metric[v] = m))
    BY <1>2 DEF ClearCount
  <2>3. \A k \in Sampled : k # m => data'[k] = data[k]
    BY <1>0, <1>2 DEF ClearCount
  <2>4. calm[v] => place[v] = "process"
    BY <1>0 DEF CoverAt
  <2> QED
    BY <1>0, <2>1, <2>2, <2>3, <2>4 DEF CoverAt
<1>3. CASE UNCHANGED reportsVars
  BY <1>0, <1>3 DEF reportsVars, walker, CoverAt
<1>4. ASSUME NEW w \in Walkers, Begin(w) \/ WalkStep(w), w # v PROVE CoverAt(v)'
  <2>1. data' = data
    BY <1>4 DEF Begin, WalkStep, NextMetric, TakeSnapshot, Read, EndMetric, Overflow, EndReport
  <2>2. /\ place'[v] = place[v] /\ metric'[v] = metric[v] /\ step'[v] = step[v]
        /\ snapshot'[v] = snapshot[v] /\ calm'[v] = calm[v] /\ torn'[v] = torn[v]
        /\ least'[v] = least[v]
    BY <1>4, OthersStay
  <2> QED
    BY <1>0, <2>1, <2>2 DEF CoverAt
<1> USE DEF Set, Forget
<1>5. CASE Begin(v)
  BY <1>0, <1>5 DEF Begin, CoverAt, ReportsTypeOK
<1>6. CASE NextMetric(v)
  BY <1>0, <1>6 DEF NextMetric, CoverAt, ReportsTypeOK
<1>7. CASE TakeSnapshot(v)
  <2> DEFINE m == metric[v]
  <2>1. m \in Sampled /\ step[v] = 1 /\ least[v] = MaxUpdates
    BY <1>0, <1>7, SnapshotFirst DEF TakeSnapshot, CoverAt
  <2>2. /\ snapshot'[v] = data[m].sampled /\ calm'[v] = Quiet(m) /\ step'[v] = 2
        /\ place'[v] = "process" /\ UNCHANGED <<data, metric, least, torn>>
    BY <1>7, <2>1 DEF TakeSnapshot, Reading, ReportsTypeOK
  <2>3. data[m].sampled \in Nat /\ data[m].count \in Nat /\ data[m].updating \in Nat
    BY <1>0, <2>1
  <2>4. data[m].sampled <= MaxUpdates
    BY <1>0, <2>1, <2>3 DEF DataInv
  <2>5. Quiet(m) => data[m].sampled <= data[m].count
    BY <2>1, <2>3 DEF DataInv, Quiet
  <2> HIDE DEF m
  <2> QED
    BY <2>1, <2>2, <2>4, <2>5 DEF CoverAt, m
<1>8. CASE Read(v)
  <2>1. PICK what \in Pieces :
           /\ Reading(v, what)
           /\ least' = IF metric[v] \in Sampled /\ what \in CountReaders
                       THEN Set(least, v, Min({least[v], data[metric[v]].count}))
                       ELSE least
    BY <1>8 DEF Read
  <2>2. /\ UNCHANGED <<data, place, metric, snapshot, calm, torn>>
        /\ place[v] = "process" /\ step[v] \in Nat /\ step[v] >= 1 /\ step'[v] = step[v] + 1
    BY <1>8, <2>1 DEF Read, Reading, ReportsTypeOK
  <2>3. calm[v] /\ ~torn[v] => snapshot[v] <= least'[v]
    <3> SUFFICES ASSUME calm[v], ~torn[v] PROVE snapshot[v] <= least'[v]
      OBVIOUS
    <3>1. /\ metric[v] \in Sampled /\ snapshot[v] <= least[v]
          /\ snapshot[v] <= data[metric[v]].count /\ data[metric[v]].count \in Nat
      BY <1>0 DEF CoverAt
    <3>2. Min({least[v], data[metric[v]].count}) \in {least[v], data[metric[v]].count}
      <4>1. least[v] \in Int /\ data[metric[v]].count \in Int
        BY <1>0, <3>1
      <4> QED
        BY <4>1, MinOfTwo
    <3>3. least'[v] \in {least[v], Min({least[v], data[metric[v]].count})}
      BY <2>1 DEF ReportsTypeOK
    <3> QED
      BY <3>1, <3>2, <3>3
  <2> QED
    BY <1>0, <2>2, <2>3 DEF CoverAt
<1>9. CASE EndMetric(v) \/ Overflow(v)
  BY <1>0, <1>9 DEF EndMetric, Overflow, CoverAt, ReportsTypeOK
<1>10. CASE EndReport(v)
  BY <1>0, <1>10 DEF EndReport, CoverAt, ReportsTypeOK
<1> QED
  BY <1>1, <1>2, <1>3, <1>4, <1>5, <1>6, <1>7, <1>8, <1>9, <1>10
     DEF ReportsNext, WalkStep, Terminated

----------------------------------------------------------------------------

(* The invariant holds at the beginning.                                   *)
LEMMA ReportsStart ==
    ASSUME ReportsInit
    PROVE  ReportsIndInv
<1>1. ReportsTypeOK
  BY ReportsAssumption, MetricsDomain DEF ReportsInit, ReportsTypeOK, Empty
<1>2. OwnerInv /\ FitsInv /\ ReportsWhole /\ SentInv
  BY ReportsAssumption DEF ReportsInit, OwnerInv, FitsInv, ReportsWhole, SentInv
<1>3. BufferInv
  BY DEF ReportsInit, BufferInv
<1>4. DataInv
  BY ReportsAssumption DEF ReportsInit, DataInv, Empty
<1>5. CoverInv
  BY DEF ReportsInit, CoverInv
<1> QED
  BY <1>1, <1>2, <1>3, <1>4, <1>5 DEF ReportsIndInv, ReportInv

(* The inductive invariant: who holds the mutex, what the shared buffer    *)
(* holds of its report, and how far a metric's words are behind its sample *)
(* (run() and report() of the reporters, process() of each kind).          *)
THEOREM ReportsIndInvHolds == ReportsSpec => []ReportsIndInv
<1>1. ReportsIndInv /\ [ReportsNext]_reportsVars => ReportsIndInv'
  <2> SUFFICES ASSUME ReportsIndInv, [ReportsNext]_reportsVars PROVE ReportsIndInv'
    OBVIOUS
  <2>0. /\ ReportsTypeOK /\ OwnerInv /\ FitsInv /\ ReportsWhole /\ SentInv /\ BufferInv
        /\ DataInv /\ CoverInv
    BY DEF ReportsIndInv, ReportInv
  <2>1. ReportsTypeOK'
    BY <2>0, ReportsTypeStep
  <2>2. OwnerInv' /\ BufferInv'
    BY <2>0, OwnerStep, BufferStep
  <2>3. SentInv' /\ ReportsWhole'
    BY <2>0, SentStep, WholeStep
  <2>4. DataInv' /\ CoverInv'
    BY <2>0, DataInvStep, CoverStep
  <2>5. (ReportsTypeOK /\ SentInv => FitsInv)'
    BY SentFits, PTL
  <2> QED
    BY <2>1, <2>2, <2>3, <2>4, <2>5 DEF ReportsIndInv, ReportInv
<1> QED
  BY <1>1, ReportsStart, PTL DEF ReportsSpec

(* The mutex is held by the one thread in a report, and every message that *)
(* collectd sends is as long as its parts declare and fits its buffer.     *)
THEOREM ReportInvHolds == ReportsSpec => []ReportInv
<1>1. ReportsIndInv => ReportInv
  BY DEF ReportsIndInv
<1> QED
  BY <1>1, ReportsIndInvHolds, PTL

(* Whoever reports at the same time, each gets from the shared buffer the  *)
(* whole text it wrote, in order, and nothing else.                        *)
THEOREM ReportsWholeHolds == ReportsSpec => []ReportsWhole
<1>1. ReportsIndInv => ReportsWhole
  BY DEF ReportsIndInv
<1> QED
  BY <1>1, ReportsIndInvHolds, PTL

(* Each getter of a report finds at least as many values counted as the    *)
(* quantiles are of, for every number of updates that race each other and  *)
(* the report (histogram.cc:230 comes before 238, and the snapshot before  *)
(* the other getters).                                                     *)
THEOREM CountCoversSampleHolds == ReportsSpec => []CountCoversSample
<1>1. ReportsIndInv => CountCoversSample
  <2> SUFFICES ASSUME ReportsIndInv, NEW w \in Walkers, calm[w], ~torn[w]
               PROVE  least[w] >= snapshot[w]
    BY DEF CountCoversSample
  <2>1. snapshot[w] <= least[w] /\ least[w] \in Nat /\ snapshot[w] \in Nat
    BY DEF ReportsIndInv, ReportInv, ReportsTypeOK, CoverInv
  <2> QED
    BY <2>1
<1> QED
  BY <1>1, ReportsIndInvHolds, PTL
=============================================================================
