------------------------------- MODULE Timer -------------------------------
(***************************************************************************)
(* medida::Timer and medida::TimerContext (src/src/medida/timer.cc,        *)
(* timer_context.cc): a histogram and a meter that are fed one after the   *)
(* other with no lock around the pair, and the contexts that measure what  *)
(* they are fed.  Of the histogram and the meter only their counts are     *)
(* kept; what goes on inside them is in Histogram and Meter.               *)
(*                                                                         *)
(* An activation is what a context begins when it is made or reset.  Each  *)
(* has a number, so that its fate can be told.  Any thread may use any     *)
(* context, but two never use one at a time (timer_context.h:11).          *)
(***************************************************************************)
EXTENDS Integers, FiniteSets

CONSTANTS
    Threads,
    Contexts,        \* the places of TimerContext objects
    Steps,           \* how far the clock moves; set back, if negative
    MaxTime,         \* bound on the clock
    MaxActivations,  \* bound on activations and direct updates
    MaxClears        \* bound on the calls of clear()

ASSUME TimerAssumption ==
    /\ IsFiniteSet(Threads) /\ IsFiniteSet(Contexts)
    /\ "none" \notin Contexts
    /\ Steps \subseteq Int
    /\ MaxTime \in Nat /\ MaxActivations \in Nat /\ MaxClears \in Nat

VARIABLES
    now,        \* what Clock::now() returns
    context,    \* each TimerContext: whether it has an impl_, and its members
    call,       \* what each thread is doing
    calls,      \* histogram_.count(), which is count()
    marks,      \* meter_.count()
    begun,      \* activations and direct updates so far
    recorded,   \* history: how often each was added to the histogram
    dropped,    \* history: those the code decided not to record
    cleared,    \* history: how much clear() took from the histogram
    clears      \* calls of clear() so far

past == <<recorded, dropped, cleared, clears>>
vars == <<now, context, call, calls, marks, begun, past>>

Numbers == 1 .. MaxActivations

(* No object there; an object that was moved from; an object with members. *)
Absent == [life |-> "absent", start |-> 0, active |-> FALSE, number |-> 0]
MovedStillActive == [Absent EXCEPT !.life = "moved", !.active = TRUE]  \* a wrong variant
Moved == [Absent EXCEPT !.life = "moved"]
Started(n) == [life |-> "live", start |-> now, active |-> TRUE, number |-> n]

Places == Contexts \cup {"none"}
Idle == [at |-> "idle", place |-> "none", duration |-> 0, number |-> 0, dies |-> FALSE]

Init ==
    /\ now = 0
    /\ context = [c \in Contexts |-> Absent]
    /\ call = [t \in Threads |-> Idle]
    /\ calls = 0 /\ marks = 0
    /\ begun = 0
    /\ recorded = [n \in Numbers |-> 0]
    /\ dropped = {}
    /\ cleared = 0 /\ clears = 0

(* The context is used by no call; and it has not been moved from, or else *)
(* check_impl() throws before anything changes.                            *)
Unused(c) == \A t \in Threads : call[t].place # c
Usable(c) == Unused(c) /\ context[c].life = "live"

Free(t) == call[t].at = "idle"
Begin == begun < MaxActivations /\ begun' = begun + 1
At(t, label) == call' = [call EXCEPT ![t].at = label]

----------------------------------------------------------------------------
(* Wrong variants of steps below, for the mutation runs only.              *)

FeedHistogramAlways(t) ==
    /\ call[t].at = "update"
    /\ calls' = calls + 1
    /\ recorded' = [recorded EXCEPT ![call[t].number] = @ + 1]
    /\ At(t, IF call[t].duration < 0 THEN "return" ELSE "mark")
    /\ UNCHANGED <<now, context, marks, begun, dropped, cleared, clears>>

ReturnStillActive(t) ==
    /\ call[t].at = "return"
    /\ call' = [call EXCEPT ![t] = Idle]
    /\ UNCHANGED <<now, context, calls, marks, begun, past>>

----------------------------------------------------------------------------
(* The life of a context.                                                  *)

(* time_scope(), which is the constructor.                                 *)
TimeScope(t, c) ==
    /\ Free(t) /\ Unused(c) /\ context[c].life = "absent"
    /\ Begin
    /\ context' = [context EXCEPT ![c] = Started(begun + 1)]
    /\ UNCHANGED <<now, call, calls, marks, past>>

(* What was being timed is forgotten.                                      *)
Reset(t, c) ==
    /\ Free(t) /\ Usable(c)
    /\ Begin
    /\ context' = [context EXCEPT ![c] = Started(begun + 1)]
    /\ dropped' = dropped \cup (IF context[c].active THEN {context[c].number} ELSE {})
    /\ UNCHANGED <<now, call, calls, marks, recorded, cleared, clears>>

(* stop() of an active context, alone or in the destructor: the duration   *)
(* is now known.  Of an inactive one it returns 0 and changes nothing.     *)
Measure(t, c, dies) ==
    call' = [call EXCEPT ![t] =
                [at |-> "update", place |-> c, duration |-> now - context[c].start,
                 number |-> context[c].number, dies |-> dies]]

Stop(t, c) ==
    /\ Free(t) /\ Usable(c) /\ context[c].active
    /\ Measure(t, c, FALSE)
    /\ UNCHANGED <<now, context, calls, marks, begun, past>>

(* The destructor: a context that was moved from has nothing to stop.      *)
Destroy(t, c) ==
    /\ Free(t) /\ Unused(c)
    /\ \/ /\ context[c].active
          /\ Measure(t, c, TRUE)
          /\ UNCHANGED context
       \/ /\ ~context[c].active /\ context[c].life # "absent"
          /\ context' = [context EXCEPT ![c] = Absent]
          /\ UNCHANGED call
    /\ UNCHANGED <<now, calls, marks, begun, past>>

(* The move constructor, also when the source was itself moved from.       *)
Move(c, d) ==
    /\ c # d /\ Unused(c) /\ context[c].life # "absent"
    /\ context[d].life = "absent"
    /\ context' = [context EXCEPT ![d] = context[c], ![c] = Moved]
    /\ UNCHANGED <<now, call, calls, marks, begun, past>>

(* time(func): a context that func() cannot reach.  Whether func returns   *)
(* or throws, its destructor runs.                                         *)
Time(t, c) ==
    /\ Free(t) /\ Unused(c) /\ context[c].life = "absent"
    /\ Begin
    /\ context' = [context EXCEPT ![c] = Started(begun + 1)]
    /\ call' = [call EXCEPT ![t] =
                   [at |-> "func", place |-> c, duration |-> 0,
                    number |-> begun + 1, dies |-> TRUE]]
    /\ UNCHANGED <<now, calls, marks, past>>

FuncEnds(t) ==
    /\ call[t].at = "func"
    /\ Measure(t, call[t].place, TRUE)
    /\ UNCHANGED <<now, context, calls, marks, begun, past>>

----------------------------------------------------------------------------
(* update(duration), from stop() or from the program.                      *)

Update(t, d) ==
    /\ Free(t)
    /\ Begin
    /\ call' = [call EXCEPT ![t] =
                   [at |-> "update", place |-> "none", duration |-> d,
                    number |-> begun + 1, dies |-> FALSE]]
    /\ UNCHANGED <<now, context, calls, marks, past>>

(* A negative duration, which a clock that was set back gives.             *)
Ignore(t) ==
    /\ call[t].at = "update" /\ call[t].duration < 0
    /\ dropped' = dropped \cup {call[t].number}
    /\ At(t, "return")
    /\ UNCHANGED <<now, context, calls, marks, begun, recorded, cleared, clears>>

FeedHistogram(t) ==
    /\ call[t].at = "update" /\ call[t].duration >= 0
    /\ calls' = calls + 1
    /\ recorded' = [recorded EXCEPT ![call[t].number] = @ + 1]
    /\ At(t, "mark")
    /\ UNCHANGED <<now, context, marks, begun, dropped, cleared, clears>>

Mark(t) ==
    /\ call[t].at = "mark"
    /\ marks' = marks + 1
    /\ At(t, "return")
    /\ UNCHANGED <<now, context, calls, begun, past>>

(* active_ = false, or the object is gone.                                 *)
Return(t) ==
    /\ call[t].at = "return"
    /\ context' =
          [c \in Contexts |->
              IF c # call[t].place THEN context[c]
              ELSE IF call[t].dies THEN Absent
              ELSE [context[c] EXCEPT !.active = FALSE]]
    /\ call' = [call EXCEPT ![t] = Idle]
    /\ UNCHANGED <<now, calls, marks, begun, past>>

(* clear() leaves the meter alone.                                         *)
Clear ==
    /\ clears < MaxClears
    /\ clears' = clears + 1
    /\ calls' = 0
    /\ cleared' = cleared + calls
    /\ UNCHANGED <<now, context, call, marks, begun, recorded, dropped>>

(* The getters: count(), min(), max() and so on ask the histogram, the     *)
(* rates and event_type() the meter.                                       *)
Shown == [counted |-> calls, marked |-> marks]

MoveClock ==
    /\ \E d \in Steps : now + d \in 0 .. MaxTime /\ now' = now + d
    /\ UNCHANGED <<context, call, calls, marks, begun, past>>

UpdateStep(t) == Ignore(t) \/ FeedHistogram(t) \/ Mark(t) \/ Return(t)

Next ==
    \/ MoveClock
    \/ Clear
    \/ \E c, d \in Contexts : Move(c, d)
    \/ \E t \in Threads :
          \/ UpdateStep(t)
          \/ FuncEnds(t)
          \/ \E d \in {-1, 1} : Update(t, d)
          \/ \E c \in Contexts :
                TimeScope(t, c) \/ Reset(t, c) \/ Stop(t, c) \/ Destroy(t, c) \/ Time(t, c)

Spec == Init /\ [][Next]_vars

----------------------------------------------------------------------------
(* Properties.                                                             *)

ContextType ==
    [life : {"absent", "moved", "live"}, start : 0 .. MaxTime,
     active : BOOLEAN, number : 0 .. MaxActivations]

CallType ==
    [at : {"idle", "func", "update", "mark", "return"}, place : Places,
     duration : Int, number : 0 .. MaxActivations, dies : BOOLEAN]

TypeOK ==
    /\ now \in 0 .. MaxTime
    /\ context \in [Contexts -> ContextType]
    /\ call \in [Threads -> CallType]
    /\ calls \in Nat /\ marks \in Nat /\ cleared \in Nat
    /\ begun \in 0 .. MaxActivations /\ clears \in 0 .. MaxClears
    /\ recorded \in [Numbers -> Nat]
    /\ dropped \subseteq Numbers

(* A context that a call is using is the one whose activation the call     *)
(* ends; only a live context is active.                                    *)
UseInv ==
    /\ \A t \in Threads :
          LET c == call[t].place
          IN  /\ Free(t) => call[t] = Idle
              /\ call[t].at = "func" => c \in Contexts
              /\ c \in Contexts => context[c].active /\ context[c].number = call[t].number
    /\ \A s, t \in Threads : call[s].place = call[t].place /\ call[s].place \in Contexts => s = t
    /\ \A c \in Contexts : context[c].active => context[c].life = "live"

(* What is under way has the number of an activation, and nothing was done *)
(* with those to come.                                                     *)
NumbersInv ==
    /\ \A c \in Contexts : context[c].active => context[c].number \in 1 .. begun
    /\ \A t \in Threads : ~Free(t) => call[t].number \in 1 .. begun
    /\ \A n \in Numbers : n > begun => recorded[n] = 0 /\ n \notin dropped

TimerInv == TypeOK /\ UseInv /\ NumbersInv

(* Where an activation can be: in an active context no call has taken up,  *)
(* or in a call that has still to record it.                               *)
Held(n) ==
    {c \in Contexts : context[c].active /\ context[c].number = n
                         /\ \A t \in Threads : call[t].place = c => call[t].at = "func"}
Updating(n) == {t \in Threads : call[t].at = "update" /\ call[t].number = n}

Fates(n) ==
    Cardinality(Held(n)) + Cardinality(Updating(n))
        + recorded[n] + (IF n \in dropped THEN 1 ELSE 0)

(* Whatever is stopped, reset, moved, destroyed, in whatever order: each   *)
(* activation waits in one place, or was recorded once, or was not         *)
(* recorded for one of the two reasons the code has, a reset() and a clock *)
(* that was set back; never two of these, and never none.                  *)
OneFate == \A n \in 1 .. begun : Fates(n) = 1

(* The histogram and the meter differ by the calls between the two, and by *)
(* what clear() took from the histogram alone.                             *)
Between == {t \in Threads : call[t].at = "mark"}
HalvesAgree == Shown.counted + cleared = Shown.marked + Cardinality(Between)
=============================================================================
