------------------------------ MODULE Reports ------------------------------
(***************************************************************************)
(* The console, JSON and collectd reporters of medida (src/src/medida/     *)
(* reporting/): a walk over a copy of the registry, and for each metric    *)
(* the process() its kind is dispatched to, which calls getters one after  *)
(* the other while other threads update and clear the metric.  A reporter  *)
(* has one buffer; JSON and collectd guard it with a mutex.  collectd      *)
(* sends a message for each metric and throws if it is too long.           *)
(*                                                                         *)
(* Of a metric's data there is how many values its sample took and its     *)
(* count_, which the getters of CountReaders read before anything else: an *)
(* update feeds the sample before it counts, and clear() empties it last.  *)
(* What minimum and maximum are meanwhile is the matter of Histogram, and  *)
(* nothing here.  A piece of a report is what one getter contributes; its  *)
(* text is left out, but for the sizes of the parts of collectd's          *)
(* messages.  C++11 leaves open in which order the getters of one output   *)
(* statement are called, though not in which order their pieces appear;    *)
(* nothing below depends on it, as the snapshot has a statement of its own. *)
(***************************************************************************)
EXTENDS Integers, Sequences, Functions, FiniteSetsExt

CONSTANTS
    Reporters,    \* the reporters considered, one in a behaviour
    Walkers,      \* the loop thread and direct callers
    NoThread,     \* owner of mutex_ when it is free
    Metrics,      \* the kinds of the metrics in the copied map, in its order
    HostLength, PluginLength, InstanceLength,  \* of each metric's texts
    MaxUpdates, MaxClears, MaxReports   \* bounds of a behaviour

Kinds == {"counter", "value", "meter", "histogram", "timer"}

ASSUME ReportsAssumption ==
    /\ Reporters \subseteq {"console", "json", "collectd"}
    /\ NoThread \notin Walkers
    /\ Metrics \in Seq(Kinds)
    /\ HostLength \in Nat
    /\ PluginLength \in [DOMAIN Metrics -> Nat]
    /\ InstanceLength \in [DOMAIN Metrics -> Nat]
    /\ MaxUpdates \in Nat /\ MaxClears \in Nat /\ MaxReports \in Nat

VARIABLES
    reporter,  \* the reporter of this behaviour
    data,      \* of each metric: its values, and the calls that change them
    mutex,     \* mutex_
    out,       \* out_ of the JSON reporter, msgbuf_ of the collectd reporter
    place, metric, step,  \* where each walker is: in its walk, and in process()
    snapshot,  \* the local copy of the sample
    result,    \* what the walker returned, or sent, last
    calm,      \* history: no update or clear() was under way when it was made
    torn,      \* history: the metric was cleared while it was being reported
    least,     \* history: the least count_ that a getter found for the metric
    updates, clears, reports  \* calls so far

walker == <<place, metric, step, snapshot, result, calm, least>>
bounds == <<updates, clears, reports>>
reportsVars == <<reporter, data, mutex, out, walker, torn, bounds>>

----------------------------------------------------------------------------
(* What each process() reads, in its order.  `quantiles' are those of the  *)
(* snapshot.  Console and JSON have no process(Value&): they inherit one   *)
(* that does nothing.                                                      *)

Rates == <<"rates">>  \* the four of a meter, which Meter is about
Extremes == <<"min", "max", "mean", "std_dev">>
Pieces ==
    {"count", "value", "rates", "min", "max", "mean", "std_dev", "quantiles"}
SummaryWithLateSnapshot ==  \* a wrong variant
    Extremes \o <<"snapshot", "quantiles">>
Summary == <<"snapshot">> \o Extremes \o <<"quantiles">>

ConsoleReads ==
    [counter |-> <<"count">>,
     value |-> <<>>,
     meter |-> <<"count">> \o Rates,
     histogram |-> Summary,
     timer |-> <<"snapshot", "count">> \o Rates \o Extremes \o <<"quantiles">>]

JsonReads == ConsoleReads

CollectdReads ==
    [counter |-> <<"count">>,
     value |-> <<"value">>,
     meter |-> <<"count">> \o Rates,
     histogram |-> Summary,
     timer |-> Summary]

ReadsOf == [console |-> ConsoleReads, json |-> JsonReads, collectd |-> CollectdReads]
Reads(m) == ReadsOf[reporter][Metrics[m]]

----------------------------------------------------------------------------
(* The parts of a collectd message: what the header of each declares, and  *)
(* by how much it moves msgbuf_ptr_.                                       *)

MaxSize == 1024

NumberPart == [declared |-> 12, moved |-> 2 + 2 + 8]
TextPart(length) == [declared |-> length + 1 + 4, moved |-> 2 + 2 + (length + 1)]
ValuesPartWithoutTypes(n) == [declared |-> 6 + n * 9, moved |-> 2 + 2 + 2 + n * 8]  \* a wrong variant
ValuesPart(n) == [declared |-> 6 + n * 9, moved |-> 2 + 2 + 2 + n * 1 + n * 8]

TypeLength ==  \* of medida_counter and so on
    [counter |-> 14, value |-> 12, meter |-> 12, histogram |-> 16, timer |-> 12]
ValuesIn ==
    [counter |-> 1, value |-> 1, meter |-> 5, histogram |-> 10, timer |-> 10]

Message(m) ==
    <<NumberPart, TextPart(HostLength), TextPart(PluginLength[m]),
      TextPart(TypeLength[Metrics[m]]), TextPart(InstanceLength[m]),
      ValuesPart(ValuesIn[Metrics[m]])>>

Moved ==
    [m \in DOMAIN Metrics |->
        FoldFunction(+, 0, [i \in DOMAIN Message(m) |-> Message(m)[i].moved])]
Declared ==
    [m \in DOMAIN Metrics |->
        FoldFunction(+, 0, [i \in DOMAIN Message(m) |-> Message(m)[i].declared])]

Fits(m) == Moved[m] <= MaxSize
TooLong(m) == reporter = "collectd" /\ ~Fits(m)

----------------------------------------------------------------------------

Sampled == {m \in DOMAIN Metrics : Metrics[m] \in {"histogram", "timer"}}
Empty == [sampled |-> 0, count |-> 0, updating |-> 0, clearing |-> 0]
Quiet(m) == data[m].updating = 0 /\ data[m].clearing = 0

Guarded == reporter \in {"json", "collectd"}

ReportsInit ==
    /\ reporter \in Reporters
    /\ data = [m \in Sampled |-> Empty]
    /\ mutex = NoThread
    /\ out = <<>>
    /\ place = [w \in Walkers |-> "idle"]
    /\ metric = [w \in Walkers |-> 0]
    /\ step = [w \in Walkers |-> 0]
    /\ snapshot = [w \in Walkers |-> 0]
    /\ result = [w \in Walkers |-> <<>>]
    /\ calm = [w \in Walkers |-> FALSE]
    /\ torn = [w \in Walkers |-> FALSE]
    /\ least = [w \in Walkers |-> MaxUpdates]
    /\ updates = 0 /\ clears = 0 /\ reports = 0

Set(f, w, x) == [f EXCEPT ![w] = x]
(* The local variables of process() are gone.                              *)
Forget(w) ==
    /\ snapshot' = Set(snapshot, w, 0) /\ calm' = Set(calm, w, FALSE)
    /\ torn' = Set(torn, w, FALSE) /\ least' = Set(least, w, MaxUpdates)

Piece(w, m, what) == <<w, m, what>>
(* JSON has a comma before each metric but the first.                      *)
Comma(w, m) == IF m = 1 THEN <<>> ELSE <<Piece(w, m, ",")>>
Write(piece) == out' = IF reporter = "console" THEN out ELSE Append(out, piece)

----------------------------------------------------------------------------
(* The threads that update and clear a metric that has a sample.  What the *)
(* others are made of is read by one getter at a time.  Of an update there *)
(* are the two steps that touch the sample and count_, with any number of  *)
(* updates between them.                                                   *)

FeedSample(m) ==
    /\ updates < MaxUpdates
    /\ updates' = updates + 1
    /\ data' = [data EXCEPT ![m].sampled = @ + 1, ![m].updating = @ + 1]
    /\ UNCHANGED <<reporter, mutex, out, walker, torn, clears, reports>>

AddCount(m) ==
    /\ data[m].updating > 0
    /\ data' = [data EXCEPT ![m].count = @ + 1, ![m].updating = @ - 1]
    /\ UNCHANGED <<reporter, mutex, out, walker, torn, bounds>>

ClearCount(m) ==
    /\ clears < MaxClears
    /\ clears' = clears + 1
    /\ data' = [data EXCEPT ![m].count = 0, ![m].clearing = @ + 1]
    /\ torn' = [w \in Walkers |-> torn[w] \/ (place[w] = "process" /\ metric[w] = m)]
    /\ UNCHANGED <<reporter, mutex, out, walker, updates, reports>>

ClearSample(m) ==
    /\ data[m].clearing > 0
    /\ data' = [data EXCEPT ![m].sampled = 0, ![m].clearing = @ - 1]
    /\ UNCHANGED <<reporter, mutex, out, walker, torn, bounds>>

----------------------------------------------------------------------------
(* Wrong variants of steps below, for the mutation runs only.              *)

EnterUnlocked(w) == UNCHANGED mutex

OverflowStillLocked(w) ==
    /\ place[w] = "process" /\ TooLong(metric[w])
    /\ place' = Set(place, w, "idle") /\ metric' = Set(metric, w, 0) /\ step' = Set(step, w, 0)
    /\ Forget(w)
    /\ UNCHANGED <<reporter, data, mutex, out, result, bounds>>

----------------------------------------------------------------------------
(* run(), report().                                                        *)

Enter(w) == IF Guarded THEN mutex = NoThread /\ mutex' = w ELSE UNCHANGED mutex
Leave == mutex' = IF Guarded THEN NoThread ELSE mutex

Begin(w) ==
    /\ place[w] = "idle" /\ reports < MaxReports
    /\ reports' = reports + 1
    /\ Enter(w)
    /\ out' = IF reporter = "json" THEN <<>> ELSE out
    /\ place' = Set(place, w, "walk") /\ metric' = Set(metric, w, 0)
    /\ UNCHANGED <<reporter, data, step, snapshot, result, calm, torn, least, updates, clears>>

NextMetric(w) ==
    /\ place[w] = "walk" /\ metric[w] < Len(Metrics)
    /\ LET m == metric[w] + 1
           name == <<Piece(w, m, "name")>>
       IN  /\ metric' = Set(metric, w, m)
           /\ out' = CASE reporter = "console" -> out
                       [] reporter = "json" ->
                             out \o Comma(w, m) \o name
                       [] reporter = "collectd" -> name
    /\ place' = Set(place, w, "process") /\ step' = Set(step, w, 1)
    /\ UNCHANGED <<reporter, data, mutex, snapshot, result, calm, torn, least, bounds>>

Reading(w, what) ==
    /\ place[w] = "process"
    /\ step[w] <= Len(Reads(metric[w])) /\ what = Reads(metric[w])[step[w]]
    /\ step' = Set(step, w, step[w] + 1)

TakeSnapshot(w) ==
    /\ Reading(w, "snapshot")
    /\ snapshot' = Set(snapshot, w, data[metric[w]].sampled)
    /\ calm' = Set(calm, w, Quiet(metric[w]))
    /\ UNCHANGED <<reporter, data, mutex, out, place, metric, result, torn, least, bounds>>

(* count() returns count_, min(), max(), mean() and std_dev() compare it    *)
(* with 0 before anything else.                                            *)
CountReaders == {"count", "min", "max", "mean", "std_dev"}

Read(w) ==
    \E what \in Pieces :
        /\ Reading(w, what)
        /\ Write(Piece(w, metric[w], what))
        /\ least' = IF metric[w] \in Sampled /\ what \in CountReaders
                    THEN Set(least, w, Min({least[w], data[metric[w]].count}))
                    ELSE least
        /\ UNCHANGED <<reporter, data, mutex, place, metric, snapshot, result, calm, torn, bounds>>

(* collectd: the message is sent.                                          *)
EndMetric(w) ==
    /\ place[w] = "process" /\ step[w] > Len(Reads(metric[w])) /\ ~TooLong(metric[w])
    /\ result' = IF reporter = "collectd" THEN Set(result, w, out) ELSE result
    /\ place' = Set(place, w, "walk") /\ step' = Set(step, w, 0)
    /\ Forget(w)
    /\ UNCHANGED <<reporter, data, mutex, out, metric, bounds>>

(* collectd: move_ptr() throws, at some part of the message, out of run(), *)
(* of which the rest is lost.  The bytes of that part, which are written   *)
(* past the buffer before it tests the length, are left out.               *)
Overflow(w) ==
    /\ place[w] = "process" /\ TooLong(metric[w])
    /\ Leave
    /\ place' = Set(place, w, "idle") /\ metric' = Set(metric, w, 0) /\ step' = Set(step, w, 0)
    /\ Forget(w)
    /\ UNCHANGED <<reporter, data, out, result, bounds>>

EndReport(w) ==
    /\ place[w] = "walk" /\ metric[w] = Len(Metrics)
    /\ result' = IF reporter = "json" THEN Set(result, w, out) ELSE result
    /\ Leave
    /\ place' = Set(place, w, "idle") /\ metric' = Set(metric, w, 0)
    /\ UNCHANGED <<reporter, data, out, step, snapshot, calm, torn, least, bounds>>

WalkStep(w) ==
    NextMetric(w) \/ TakeSnapshot(w) \/ Read(w) \/ EndMetric(w) \/ Overflow(w) \/ EndReport(w)

Idle == \A w \in Walkers : place[w] = "idle"

(* The bounds are used up.                                                 *)
Terminated == Idle /\ reports = MaxReports /\ UNCHANGED reportsVars

ReportsNext ==
    \/ \E m \in Sampled :
          FeedSample(m) \/ AddCount(m) \/ ClearCount(m) \/ ClearSample(m)
    \/ \E w \in Walkers : Begin(w) \/ WalkStep(w)
    \/ Terminated

ReportsSpec == ReportsInit /\ [][ReportsNext]_reportsVars

(* Getters return, and a thread in a report is scheduled.                  *)
FairReports == ReportsSpec /\ \A w \in Walkers : WF_reportsVars(WalkStep(w))

----------------------------------------------------------------------------
(* Properties.                                                             *)

ReportsTypeOK ==
    /\ reporter \in Reporters
    /\ data \in [Sampled ->
                    [sampled : Nat, count : Nat, updating : Nat, clearing : Nat]]
    /\ mutex \in Walkers \cup {NoThread}
    /\ place \in [Walkers -> {"idle", "walk", "process"}]
    /\ metric \in [Walkers -> 0 .. Len(Metrics)] /\ step \in [Walkers -> Nat]
    /\ \A w \in Walkers : place[w] = "process" =>
          metric[w] > 0 /\ step[w] \in 1 .. Len(Reads(metric[w])) + 1
    /\ snapshot \in [Walkers -> Nat] /\ least \in [Walkers -> Nat]
    /\ calm \in [Walkers -> BOOLEAN] /\ torn \in [Walkers -> BOOLEAN]
    /\ DOMAIN result = Walkers

(* The mutex is held by the thread in a report, of which there is one.  A  *)
(* message that is sent is as long as the lengths in its parts tell its    *)
(* receiver, and no longer than the buffer.                                *)
OwnerInv == Guarded => \A w \in Walkers : place[w] # "idle" <=> mutex = w

FitsInv ==
    \A w \in Walkers :
        reporter = "collectd" /\ result[w] # <<>> =>
            LET m == result[w][1][2]
            IN  Declared[m] = Moved[m] /\ Fits(m)

ReportInv == ReportsTypeOK /\ OwnerInv /\ FitsInv

(* What a walk writes for each metric, and for all of them in JSON.  The   *)
(* snapshot, taken before all that is written, leaves no piece.            *)
Skipped(m) == IF Reads(m) # <<>> /\ Reads(m)[1] = "snapshot" THEN 1 ELSE 0
Part(w, m, n) ==
    <<Piece(w, m, "name")>> \o [i \in 1 .. n |-> Piece(w, m, Reads(m)[i + Skipped(m)])]
MetricText(w, m) == Part(w, m, Len(Reads(m)) - Skipped(m))

JsonTexts(w) ==
    LET text[m \in 0 .. Len(Metrics)] ==
            IF m = 0 THEN <<>> ELSE text[m - 1] \o Comma(w, m) \o MetricText(w, m)
    IN  text
JsonText(w) == JsonTexts(w)[Len(Metrics)]

(* Whatever threads report at the same time: each gets from the buffer     *)
(* they share the text it wrote, all of it, in order, and nothing else.    *)
ReportsWhole ==
    \A w \in Walkers :
        result[w] # <<>> =>
            \/ reporter = "json" /\ result[w] = JsonText(w)
            \/ reporter = "collectd"
               /\ \E m \in DOMAIN Metrics : result[w] = MetricText(w, m)

(* No getter of a report finds fewer values counted than the quantiles are *)
(* of: the count is at least the size of the sample, and minimum, maximum, *)
(* mean and deviation are not the 0.0 of an empty histogram beside         *)
(* quantiles of something.  Provided that no update or clear() was between *)
(* its two steps when the sample was copied, and no clear() came later;    *)
(* updates may come at any time.                                           *)
CountCoversSample ==
    \A w \in Walkers :
        place[w] = "process" /\ calm[w] /\ ~torn[w] => least[w] >= snapshot[w]

(* The inductive invariant behind them.                                    *)

(* A message that was sent is one whose parts fit.                         *)
SentInv ==
    \A w \in Walkers :
        reporter = "collectd" /\ result[w] # <<>> =>
            \E m \in DOMAIN Metrics : result[w] = MetricText(w, m) /\ Fits(m)

(* How many pieces process() has written.                                  *)
Written(w) == IF step[w] = 1 THEN 0 ELSE step[w] - 1 - Skipped(metric[w])

(* The buffer holds what the thread that has the mutex wrote for the       *)
(* metrics before this one, and of this one what it has read.              *)
BufferInv ==
    \A w \in Walkers :
        LET m == metric[w]
        IN  /\ reporter = "json" /\ place[w] = "walk" => out = JsonTexts(w)[m]
            /\ reporter = "json" /\ place[w] = "process" =>
                  out = JsonTexts(w)[m - 1] \o Comma(w, m) \o Part(w, m, Written(w))
            /\ reporter = "collectd" /\ place[w] = "process" => out = Part(w, m, Written(w))

(* The sample is ahead of count_ by no more than the updates under way,    *)
(* unless it is still to be cleared.                                       *)
DataInv ==
    /\ updates \in 0 .. MaxUpdates
    /\ \A m \in Sampled :
          /\ data[m].sampled <= updates
          /\ data[m].clearing = 0 => data[m].sampled <= data[m].count + data[m].updating

(* A calm snapshot has no more values than any count_ read since, and than *)
(* the one there is to read.                                               *)
CoverInv ==
    \A w \in Walkers :
        /\ place[w] # "process" \/ step[w] = 1 => least[w] = MaxUpdates /\ ~calm[w]
        /\ calm[w] /\ ~torn[w] =>
              /\ metric[w] \in Sampled /\ snapshot[w] <= least[w]
              /\ snapshot[w] <= data[metric[w]].count

ReportsIndInv ==
    /\ ReportInv /\ ReportsWhole /\ SentInv /\ BufferInv /\ DataInv /\ CoverInv

(* A report ends, also one that throws, and so does the wait for the next: *)
(* the mutex comes free.                                                   *)
ReportsEnd ==
    /\ \A w \in Walkers : place[w] # "idle" ~> place[w] = "idle"
    /\ []<>(mutex = NoThread)
=============================================================================
