-------------------------- MODULE PollingReporter --------------------------
(***************************************************************************)
(* AbstractPollingReporter (src/src/medida/reporting/                      *)
(* abstract_polling_reporter.cc): start() and stop() flip an atomic flag   *)
(* with one compare-exchange and then, separately, assign or join the      *)
(* std::thread member; the loop thread calls the virtual run() of the      *)
(* object that owns it, and the destructor of the base class stops the     *)
(* loop after the derived part of that object is gone.                     *)
(*                                                                         *)
(* The console, collectd and UDP reporters are all such objects: their     *)
(* members live in the derived part, and run() uses them.                  *)
(***************************************************************************)
EXTENDS Naturals

CONSTANTS
    Controllers,  \* threads that call start() and stop()
    Owner,        \* the one of them that destroys the reporter
    Loops,        \* threads start() can create (bounds the number of starts)
    NoLoop        \* what thread_ holds when it is not joinable

ASSUME ActorsAssumption ==
    /\ Owner \in Controllers
    /\ NoLoop \notin Loops

VARIABLES
    running,  \* running_
    handle,   \* thread_: the thread it can join, or NoLoop
    pc,       \* where each controller is in start(), stop() or the destructor
    created,  \* the thread a controller has created and not assigned yet
    lpc,      \* where each loop thread is
    object,   \* how much of the reporter is left
    death,    \* why std::terminate was called, or "none"
    past      \* history, read by the properties only

vars == <<running, handle, pc, created, lpc, object, death, past>>

(* mixed: a start() and a stop() were past their compare-exchange at the   *)
(* same time.  spawnFailed: the constructor of std::thread threw in the    *)
(* last start() that got there.  joinError: join() of a thread that is not *)
(* joinable threw, though that start() had created one.  lateRuns: run()   *)
(* calls that began since running_ was last made false.                    *)
(* destroyedRunning: the destructor began while the reporter was running.  *)
FreshPast ==
    [mixed |-> FALSE, spawnFailed |-> FALSE, joinError |-> FALSE,
     lateRuns |-> 0, destroyedRunning |-> FALSE]

Init ==
    /\ running = FALSE
    /\ handle = NoLoop
    /\ pc = [c \in Controllers |-> "idle"]
    /\ created = [c \in Controllers |-> NoLoop]
    /\ lpc = [l \in Loops |-> "unborn"]
    /\ object = "whole"
    /\ death = "none"
    /\ past = FreshPast

Goto(c, label) == pc' = [pc EXCEPT ![c] = label]
LoopGoto(l, label) == lpc' = [lpc EXCEPT ![l] = label]

Starting == \E c \in Controllers : pc[c] \in {"spawn", "assign"}
Stopping == \E c \in Controllers : pc[c] \in {"join", "dtorJoin"}
Live(l) == lpc[l] \in {"test", "sleep", "run"}

CanCall(c) == pc[c] = "idle" /\ object = "whole" /\ death = "none"

----------------------------------------------------------------------------
(* Wrong variants of steps below, for the mutation runs only.              *)

StartWinsAlways(c) ==
    /\ CanCall(c)
    /\ \E l \in Loops : lpc[l] = "unborn"
    /\ running' = TRUE
    /\ past' = [past EXCEPT !.mixed = @ \/ Stopping]
    /\ Goto(c, "spawn")
    /\ UNCHANGED <<handle, created, lpc, object, death>>

DetachInsteadOfJoin(c) ==
    /\ pc[c] = "join"
    /\ handle # NoLoop
    /\ handle' = NoLoop
    /\ Goto(c, "idle")
    /\ UNCHANGED <<running, created, lpc, object, death, past>>

TestOnce(l) ==
    /\ lpc[l] = "test"
    /\ LoopGoto(l, "sleep")
    /\ UNCHANGED <<running, handle, pc, created, object, death, past>>

EndRunAndLoop(l) ==
    /\ lpc[l] = "run"
    /\ LoopGoto(l, "ended")
    /\ UNCHANGED <<running, handle, pc, created, object, death, past>>

----------------------------------------------------------------------------
(* start(): the losing compare-exchange is IgnoredCall below.              *)

StartWins(c) ==
    /\ CanCall(c)
    /\ ~running
    /\ \E l \in Loops : lpc[l] = "unborn"
    /\ running' = TRUE
    /\ past' = [past EXCEPT !.mixed = @ \/ Stopping]
    /\ Goto(c, "spawn")
    /\ UNCHANGED <<handle, created, lpc, object, death>>

SpawnThread(c) ==
    /\ pc[c] = "spawn"
    /\ \E l \in Loops :
          /\ lpc[l] = "unborn"
          /\ LoopGoto(l, "test")
          /\ created' = [created EXCEPT ![c] = l]
    /\ past' = [past EXCEPT !.spawnFailed = FALSE]
    /\ Goto(c, "assign")
    /\ UNCHANGED <<running, handle, object, death>>

(* The constructor of std::thread throws system_error: running_ stays true *)
(* with no thread behind it, until the next stop().                        *)
SpawnFails(c) ==
    /\ pc[c] = "spawn"
    /\ past' = [past EXCEPT !.spawnFailed = TRUE]
    /\ Goto(c, "idle")
    /\ UNCHANGED <<running, handle, created, lpc, object, death>>

(* Move assignment to a std::thread that is joinable terminates.           *)
AssignThread(c) ==
    /\ pc[c] = "assign"
    /\ IF handle = NoLoop
       THEN handle' = created[c] /\ UNCHANGED death
       ELSE death' = "assignedJoinable" /\ UNCHANGED handle
    /\ created' = [created EXCEPT ![c] = NoLoop]
    /\ Goto(c, "idle")
    /\ UNCHANGED <<running, lpc, object, past>>

----------------------------------------------------------------------------
(* stop()                                                                  *)

StopWins(c) ==
    /\ CanCall(c)
    /\ running
    /\ running' = FALSE
    /\ past' = [past EXCEPT !.mixed = @ \/ Starting, !.lateRuns = 0]
    /\ Goto(c, "join")
    /\ UNCHANGED <<handle, created, lpc, object, death>>

Join(c) ==
    /\ pc[c] = "join"
    /\ handle # NoLoop
    /\ lpc[handle] = "ended"
    /\ handle' = NoLoop
    /\ Goto(c, "idle")
    /\ UNCHANGED <<running, created, lpc, object, death, past>>

JoinThrows(c) ==
    /\ pc[c] = "join"
    /\ handle = NoLoop
    /\ past' = [past EXCEPT !.joinError = @ \/ ~past.spawnFailed]
    /\ Goto(c, "idle")
    /\ UNCHANGED <<running, handle, created, lpc, object, death>>

(* start() of a running reporter and stop() of a stopped one lose their    *)
(* compare-exchange and return at once.                                    *)
IgnoredCall(c) == CanCall(c) /\ UNCHANGED vars

----------------------------------------------------------------------------
(* The destructor, called when no other call is in progress: the members   *)
(* of the derived reporter go, then the object is only the base class      *)
(* (whose run() does nothing), then ~Impl stops the loop, then thread_     *)
(* goes.  Nothing may leave a destructor: an exception terminates.         *)

DestroyDerived(c) ==
    /\ c = Owner
    /\ CanCall(c)
    /\ \A d \in Controllers : pc[d] = "idle"
    /\ object' = "stripped"
    /\ past' = [past EXCEPT !.destroyedRunning = running]
    /\ Goto(c, "dtorBase")
    /\ UNCHANGED <<running, handle, created, lpc, death>>

EnterBaseDestructor(c) ==
    /\ pc[c] = "dtorBase"
    /\ object' = "base"
    /\ Goto(c, "dtorStop")
    /\ UNCHANGED <<running, handle, created, lpc, death, past>>

DestructorStop(c) ==
    /\ pc[c] = "dtorStop"
    /\ running' = FALSE
    /\ past' = IF running THEN [past EXCEPT !.lateRuns = 0] ELSE past
    /\ Goto(c, IF running THEN "dtorJoin" ELSE "dtorEnd")
    /\ UNCHANGED <<handle, created, lpc, object, death>>

DestructorJoin(c) ==
    /\ pc[c] = "dtorJoin"
    /\ handle # NoLoop => lpc[handle] = "ended"
    /\ handle' = NoLoop
    /\ death' = IF handle = NoLoop THEN "joinThrewInDestructor" ELSE death
    /\ Goto(c, "dtorEnd")
    /\ UNCHANGED <<running, created, lpc, object, past>>

DestroyThread(c) ==
    /\ pc[c] = "dtorEnd"
    /\ object' = "gone"
    /\ death' = IF handle # NoLoop THEN "destroyedJoinable" ELSE death
    /\ Goto(c, "idle")
    /\ UNCHANGED <<running, handle, created, lpc, past>>

----------------------------------------------------------------------------
(* loop(period)                                                            *)

TestRunning(l) ==
    /\ lpc[l] = "test"
    /\ LoopGoto(l, IF running THEN "sleep" ELSE "ended")
    /\ UNCHANGED <<running, handle, pc, created, object, death, past>>

(* After the sleep, self_.run(): the derived class's until the base class  *)
(* destructor is entered, the empty one of the base class from then on.    *)
BeginRun(l) ==
    /\ lpc[l] = "sleep"
    /\ object \in {"whole", "stripped"}
    /\ LoopGoto(l, "run")
    /\ past' = IF running THEN past ELSE [past EXCEPT !.lateRuns = @ + 1]
    /\ UNCHANGED <<running, handle, pc, created, object, death>>

RunOfBase(l) ==
    /\ lpc[l] = "sleep"
    /\ object \in {"base", "gone"}
    /\ LoopGoto(l, "test")
    /\ UNCHANGED <<running, handle, pc, created, object, death, past>>

EndRun(l) ==
    /\ lpc[l] = "run"
    /\ LoopGoto(l, "test")
    /\ UNCHANGED <<running, handle, pc, created, object, death, past>>

(* run() throws (collectd_reporter.cc:343 does): nothing catches it.       *)
RunThrows(l) ==
    /\ lpc[l] = "run"
    /\ death' = "runThrew"
    /\ LoopGoto(l, "ended")
    /\ UNCHANGED <<running, handle, pc, created, object, past>>

----------------------------------------------------------------------------
(* std::terminate ends the process: nothing steps after it.                *)
ControllerStep(c) ==
    /\ death = "none"
    /\ \/ SpawnThread(c) \/ SpawnFails(c) \/ AssignThread(c)
       \/ Join(c) \/ JoinThrows(c)
       \/ EnterBaseDestructor(c) \/ DestructorStop(c) \/ DestructorJoin(c) \/ DestroyThread(c)

LoopStep(l) ==
    /\ death = "none"
    /\ TestRunning(l) \/ BeginRun(l) \/ RunOfBase(l) \/ EndRun(l)

Over == (object = "gone" \/ death # "none") /\ UNCHANGED vars

Next ==
    \/ \E c \in Controllers :
          StartWins(c) \/ StopWins(c) \/ IgnoredCall(c) \/ DestroyDerived(c) \/ ControllerStep(c)
    \/ \E l \in Loops : LoopStep(l) \/ (death = "none" /\ RunThrows(l))
    \/ Over

Spec == Init /\ [][Next]_vars

(* The scheduler runs every thread, run() returns or throws, and           *)
(* sleep_for() ends.  Nobody has to call start(), stop() or the destructor.*)
Fairness ==
    /\ \A c \in Controllers : WF_vars(ControllerStep(c))
    /\ \A l \in Loops : WF_vars(LoopStep(l))

FairSpec == Spec /\ Fairness

----------------------------------------------------------------------------
(* Properties.                                                             *)

ControllerLabels ==
    {"idle", "spawn", "assign", "join", "dtorBase", "dtorStop", "dtorJoin", "dtorEnd"}

Deaths ==
    {"none", "runThrew", "assignedJoinable", "joinThrewInDestructor", "destroyedJoinable"}

PastType ==
    [mixed : BOOLEAN, spawnFailed : BOOLEAN, joinError : BOOLEAN,
     lateRuns : Nat, destroyedRunning : BOOLEAN]

(* Every variable keeps its type.                                          *)
TypeOK ==
    /\ running \in BOOLEAN
    /\ handle \in Loops \cup {NoLoop}
    /\ pc \in [Controllers -> ControllerLabels]
    /\ created \in [Controllers -> Loops \cup {NoLoop}]
    /\ lpc \in [Loops -> {"unborn", "test", "sleep", "run", "ended"}]
    /\ object \in {"whole", "stripped", "base", "gone"}
    /\ death \in Deaths
    /\ past \in PastType

(* What the class can be held to: start() and stop() never overlap past    *)
(* their compare-exchange.                                                 *)
Orderly == ~past.mixed

InCall == \E c \in Controllers : pc[c] # "idle"

(* start() and stop() may be called from any threads, several starts or    *)
(* several stops at the same time, and the reporter restarted or           *)
(* destroyed: std::terminate is called for an exception of run() only, and *)
(* join() is never called on a thread that is not joinable.  A thread that *)
(* could not be created costs the next stop() an exception, after which    *)
(* all is well, or the destructor the program.                             *)
NeverTerminates ==
    Orderly => /\ ~past.joinError
               /\ \/ death \in {"none", "runThrew"}
                  \/ death = "joinThrewInDestructor" /\ past.spawnFailed

(* At most one loop thread is alive, so that run() never runs twice at the *)
(* same time (UdpReporter::run takes no mutex).                            *)
OneLoop ==
    Orderly => \A l, m \in Loops : Live(l) /\ Live(m) => l = m

(* Once no call is in progress and the flag is down, no loop thread is     *)
(* left: nothing reports after stop() has returned.                        *)
StoppedMeansNoLoop ==
    Orderly /\ ~InCall /\ ~running => \A l \in Loops : ~Live(l)

(* Between the flag going down and the loop noticing, run() begins at most *)
(* once more.                                                              *)
OneLateRun == Orderly => past.lateRuns <= 1

(* run() of the derived reporter is never under way once its members are   *)
(* destroyed, provided it was stopped before.                              *)
NoRunAfterDestruction ==
    Orderly /\ ~past.destroyedRunning /\ object # "whole" =>
        \A l \in Loops : lpc[l] # "run"

(* A stop() that won its compare-exchange, and a destructor, return.       *)
CallsReturn ==
    \A c \in Controllers :
        pc[c] # "idle" ~> pc[c] = "idle" \/ ~Orderly \/ death # "none"

(* A started reporter whose thread could be created reports again and      *)
(* again, until it is stopped.                                             *)
KeepsReporting ==
    []<>(running => \/ \E l \in Loops : lpc[l] = "run"
                    \/ ~Orderly \/ past.spawnFailed \/ death # "none" \/ object # "whole")

(* The inductive invariant behind the properties above: at most one        *)
(* controller is past its compare-exchange, and where it is says whether   *)
(* thread_ is joinable and which loop thread may be alive.                 *)
NoThreadLeft == handle = NoLoop /\ \A l \in Loops : ~Live(l)

OnlyLive(l) == l \in Loops /\ lpc[l] # "unborn" /\ \A m \in Loops : Live(m) => m = l

(* What is behind a raised flag: the one thread, or nothing at all when it *)
(* could not be created.                                                   *)
Behind == IF past.spawnFailed THEN NoThreadLeft ELSE OnlyLive(handle)

OneBusy == \A c, d \in Controllers : pc[c] # "idle" /\ pc[d] # "idle" => c = d

StartInv ==
    \A c \in Controllers :
        /\ pc[c] = "spawn" => running /\ NoThreadLeft
        /\ pc[c] = "assign" =>
              running /\ handle = NoLoop /\ OnlyLive(created[c]) /\ ~past.spawnFailed

StopInv ==
    \A c \in Controllers :
        /\ pc[c] \in {"join", "dtorJoin"} => ~running /\ Behind
        /\ pc[c] = "dtorEnd" => ~running /\ NoThreadLeft

RestInv ==
    (\A c \in Controllers : pc[c] \in {"idle", "dtorBase", "dtorStop"}) =>
        IF running THEN Behind ELSE NoThreadLeft

LateInv ==
    /\ past.lateRuns <= 1
    /\ ~running => past.lateRuns = 0 \/ \A l \in Loops : lpc[l] # "sleep"

DestructionInv ==
    /\ object # "whole" /\ ~past.destroyedRunning => ~running /\ NoThreadLeft
    /\ \A c \in Controllers :
          pc[c] \in {"dtorBase", "dtorStop", "dtorJoin", "dtorEnd"} => object # "whole"

(* The invariant itself, for every interleaving in which no start() and    *)
(* stop() overlap, whether or not the threads asked for can be created.    *)
LoopDiscipline ==
    /\ TypeOK
    /\ Orderly => /\ OneBusy /\ StartInv /\ StopInv /\ RestInv
                  /\ LateInv /\ DestructionInv /\ NeverTerminates

(* The destructor stops the loop itself (abstract_polling_reporter.cc:63)  *)
(* and test_console_reporter.cc:30 destroys a started reporter: then no    *)
(* run() of it is under way once its members are destroyed.                *)
DestructorStopsRuns ==
    object # "whole" => \A l \in Loops : lpc[l] # "run"
=============================================================================
