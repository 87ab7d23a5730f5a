# A TLA+ model of medida

medida is a C++ library of metrics.  A program registers counters, meters,
histograms and timers under names in a `MetricsRegistry`; any of its threads
update them; reporters read them from threads of their own and print or send
them.  Nothing is persisted and nothing is distributed: what is hard is that
the same objects are updated, cleared and read by many threads with atomics,
compare-exchange loops, a few mutexes and one `std::thread` handle.

This directory holds TLA+ modules for the parts where that is decided, the TLC
configurations that check them on small instances, and TLAPS proofs for every
value of the constants.

| module | what it is | runs | proofs |
|---|---|---|---|
| `Histogram` | `medida::Histogram`, one action per access to shared memory | `MCHistogram*.cfg` | `HistogramProofs` |
| `UniformSample` | `stats::UniformSample`, a reservoir of values | `MCUniformSample.cfg` | `UniformSampleProofs` |
| `ExpDecaySample` | `stats::ExpDecaySample`, the sample with a bias for the recent | `MCExpDecaySample.cfg` | `ExpDecaySampleProofs` |
| `Snapshot` | `stats::Snapshot`: quantiles of what a sample holds | (used by `ExpDecaySample`) | `ExpDecaySampleProofs` |
| `Meter` | `medida::Meter` with its three `EWMA`s | `MCMeter.cfg` | `MeterProofs` |
| `Timer` | `medida::Timer` and `TimerContext` | `MCTimer.cfg` | `TimerProofs` |
| `MetricsRegistry` | `MetricsRegistry::new_metric`, `get_all_metrics` and a walk over the copy | `MCMetricsRegistry.cfg` | `MetricsRegistryProofs` |
| `WriteOnceRegistry` | what a registry promises, one atomic step per call | (refined) | |
| `PollingReporter` | `AbstractPollingReporter`: start, stop, loop thread, destructor | `MCPollingReporter.cfg`, `MCDestroyRunning.cfg` | `ReporterProofs` |
| `Reports` | the walks of the console, JSON and collectd reporters beside updates | `MCReports.cfg` | `ReporterProofs` |
| `UdpReporter` | the walk of the UDP reporter and its `UdpSender` | `MCUdpReporter.cfg` | `UdpReporterProofs` |

`MC*.tla` are the small instances.  The definitions of `Reports` that every module has
(`ReportsInit`, `ReportsSpec`) carry its name, so that `ReporterProofs` can be about
both it and `PollingReporter`.  `PROJECT.json` maps every definition to the
lines it stands for and lists hazards, runs, mutants and theorems.  Each module
has a section of *wrong variants*: the plausible slip in the code that each
property is shown to notice.  Nothing in a specification refers to them.

To check: `tlc -config MCMeter.cfg MCMeter`, `tlapm MeterProofs.tla`, and so on.

## Inventory

All paths are under `src/src/medida/`.

**Counter, Value** (`counter.cc`, `value.cc`).  One atomic word each, every
operation one atomic instruction; the only promise is that no increment is lost,
which is the instruction's.  Not modelled.

**Histogram** (`histogram.cc`).  State: `min_`, `max_`, `sum_`, `count_` atomics,
`variance_m_`, `variance_s_` under `variance_mutex_`, and a sample.  `update()`
feeds the sample, raises the maximum and lowers the minimum in compare-exchange
loops, adds to sum and count, and updates the variance under the mutex.
`clear()` stores zeros one by one with no lock.  Getters read `count_` and then
one more member.  *Hard*: all of it is concurrent; the decision "this is the
first value" is read from a word written later.  *Correct if* extremes are those
of the recorded values, nothing is lost, the variance is that of the values, and
getters return something that was the case.

**Meter and EWMA** (`meter.cc`, `stats/ewma.cc`).  State: `count_`,
`last_tick_`, `start_time_`, three averages of plain (non-atomic) members, one
mutex.  `mark()` and the rate accessors tick the averages as often as whole
intervals have passed.  *Hard*: two threads that find the same tick due; a clock
that is set back; ticks owed after a long silence.  *Correct if* every event
counted is in every average exactly once and averages decay with time.

**Timer, TimerContext** (`timer.cc`, `timer_context.cc`).  A histogram and a
meter fed one after the other, without a lock around the pair; `clear()` clears
the histogram only.  A context times one interval: reset, stop, move, stop on
destruction.  *Hard*: a report between the two halves of an update; sequences of
stop, reset and moves.  *Correct if* each activation is recorded at most once
and histogram and meter differ by the calls under way.

**UniformSample, ExpDecaySample** (`stats/*_sample.cc`).  Reservoirs of bounded
size.  The uniform one takes its slot by an atomic increment before it takes the
mutex; the decaying one takes its time stamp before it takes the mutex, keeps
values in a map by priority, and rescales all priorities every hour.  *Hard*:
snapshot or clear between the two steps, stale time stamps, equal priorities,
eviction.  *Correct if* they hold recorded values only and never exceed their
size.

**Snapshot** (`stats/snapshot.cc`).  A sorted copy and quantile interpolation:
sequential and pure.

**MetricName** (`metric_name.cc`).  Four texts, of which three may not be empty,
compared by the text they make when joined with dots.

**MetricsRegistry** (`metrics_registry.cc`).  A map from names to shared pointers
under a mutex.  `new_metric` finds or makes the entry, then compares type and
attributes with what was asked; `get_all_metrics` returns a copy.  *Hard*: the
exceptional exits, and references that stay in use for ever while others
register.  *Correct if* one name is one metric, for ever.

**Metric, MetricProcessor** (`metric_interface.h`, `metric_processor.cc`).
Double dispatch with empty defaults; no state.

**AbstractPollingReporter** (`reporting/abstract_polling_reporter.cc`).  State:
`running_` and `thread_`.  `start()` and `stop()` flip the flag with one
compare-exchange and then assign or join the thread; the loop calls the virtual
`run()`; the destructor of the base class stops.  *Hard*: calls from several
threads, stop and restart, destruction while running.  *Correct if* there is one
loop, none after `stop()`, and `std::terminate` is never called.

**ConsoleReporter, JsonReporter, CollectdReporter** (`reporting/*.cc`).  Each walks
the copied map and calls, for each metric, the `process()` of its kind, which
asks one getter after the other and formats.  JSON and collectd hold a mutex
around the walk and share one buffer (the whole text; one message); the console
has none of either.  Collectd packs a message of six parts into 1024 bytes and
throws when one does not fit.  *Hard*: getters of one metric are not atomic
together; two callers of one reporter; the exception on its way out of a lock.
*Correct if* each caller gets its whole text, a report does not show quantiles of
values its count does not know, and reports go on after one that threw.

**UdpReporter, UdpSender** (`reporting/udp_reporter.cc`).  A message for each
number; connections to all addresses of a host, made when needed and given up
after `reconnect_after` messages.  No mutex: one thread uses it.  *Hard*: any
system call may fail; the counter is advanced by some messages only.  *Correct
if* sockets do not leak, connections are renewed on time, and the sender
recovers when the network does.

**util**: names of units.

**How they interact.**  Application thread -> registry -> metric; reporter loop
thread -> `get_all_metrics()` -> for each metric, its getters, without any lock
that spans the metrics; a metric calls nothing back.  Shared state is therefore
the map (registry), each metric's members, and the handle of each reporter's
thread.  The modules cut along these lines: `MetricsRegistry` includes a walk over
the copy, `PollingReporter` has what drives that walk, `Reports` has the walk
again beside the threads that change what it reads, and `UdpReporter` where its
numbers go.  A timer is a histogram and a meter, a histogram has a sample, a
sample makes snapshots: `Timer` keeps only the counts of its two halves,
`ExpDecaySample` includes `Snapshot`, and `Reports` keeps of a histogram how many
values its sample took and its `count_`.

## The modules

### Histogram

Threads are `Updaters`, `Clearers`, `Readers`.  Variables have the names of the
members (`varM`, `varS` for `variance_m_`, `variance_s_`), `frame[u]` holds the
locals of `update()`, `pc` the place.  Every access to an atomic is an action:
`SampleUpdate`, `LoadMax`, `LoadMin`, the two loops as `Test*`, `Swap*`, `Fail*`
(a weak exchange may fail for nothing), `AddSum`, `AddCount`, `LockVariance`,
`LoadS`, `StoreFirstM` or `StoreM` and `StoreS`.  `clear()` is seven stores,
`ClearMin` .. `ClearSample`.  A getter is `ReadCount` and `LoadField`.

Abstractions: the C++ atomics are used with their default order, so interleaving
is enough.  The sample only counts what it was given; its insides are the two
sample modules.  Doubles of the variance are fixed-point integers, exact for the
`Scale` a run gives (see bounds); rounding is not modelled.  `clear()` writes the
variance without the mutex, which C++ calls a data race; the outcomes modelled
are the interleavings of whole loads and stores of an aligned word.  `sum_` wraps
at `2 * Half`, in the code at 2^64; `sum()`, `count()` and `snapshot()` are single
reads and left out.  `past` is a history variable that only properties read.

What it shows.  `ExtremesExact`: if the first call was alone until it was
counted, `min_` and `max_` bound every counted value and are themselves recorded
values, at every moment.  `ExtremesRecorded`: without that proviso they are still
recorded values.  `ExtremesMonotone`: no step moves an extreme the wrong way.
`Accounting`: sum (in machine arithmetic), count and sample are those of the
calls that got that far.  `VarianceExact`: Welford's recurrence gives the two-pass
variance if calls take the mutex in the order they counted (if not,
`std_dev()` is another one: a second call that comes first divides by 2 from a
mean of 0, and the first then overwrites the mean, `histogram.cc:239`);
`VarianceNonNegative`: in any order `std_dev()` is a number.  `MeanCoversCounted`
(the order sum, count in the writer against count, sum in the reader),
`ExtremeReadsRecorded`, `ClearedIsNew`, `EveryCallReturns`.  Each is stated for
calls that no `clear()` raced (`Undisturbed`) where the code promises no more.

### PollingReporter

`running` is `running_`, `handle` the thread `thread_` can join, `lpc` the loop
threads, `object` how much of the reporter the destructors have left.
`StartWins`, `SpawnThread` or `SpawnFails`, `AssignThread` are `start()`;
`StopWins`, `Join` or `JoinThrows` are `stop()`; `IgnoredCall` is either one losing
its compare-exchange.  `DestroyDerived` .. `DestroyThread` are the destructors in
their C++ order.  `TestRunning`, `BeginRun`, `EndRun`, `RunThrows` are the loop;
`RunOfBase` is the virtual call after the derived part is gone.  `death` is the
cause of a `std::terminate`.

The class cannot take a `start()` and a `stop()` past their compare-exchanges at
the same time: the properties are stated for `Orderly` behaviours, without that;
concurrent starts, concurrent stops, restarts and destruction are all in.  A
thread that could not be created is in as well: `running_` stays true with nothing
behind it, so the next `stop()` throws and leaves a reporter that can be started
again, and a destructor that comes first ends the program.  `LoopDiscipline` says
that it is so and that neither happens for another reason.

### MetricsRegistry and WriteOnceRegistry

A name is a record of four sequences of dot-free pieces and `Repr` joins them,
so that different names with one text are different values with one key.
`Call`, `Lock`, `Find`, `Make`, `Return` are the good path of `new_metric`.
`MakeThrows` has both outcomes C++11 allows for the unsequenced assignment
`metrics_[name] = make_shared(...)`: with and without the empty entry.
`CompareThrows` is the second instance's constructor, `FailWithConflict` the
`runtime_error`.  `CompareNull` and `Process` of an empty entry crash.
`CopyAll`, `Process`, `EndReport` are a report, in any order of the map.

`WriteOnceRegistry` is the promise.  A client asks for a key and attributes
(`Ask`), and is answered once, in one step that looks at what it asked for and
at what is kept: `Create` if the key is free, `Reuse` if the metric there has
these attributes, `Conflict` if it has others, `Throw` if the attributes are
invalid, and nothing else.  The refinement mapping takes as `store` the entries
whose creating call has returned and leaves out empty ones; a client has asked
from `Call` until its call returns or throws.  The destruction of the registry while
references are in use is the caller's and not modelled; `process_all()` is
declared in the class and defined nowhere.

### Meter

`averages` are the three EWMAs' plain members, so a tick is `TakeUncounted`,
`ClearUncounted`, `Fold` for each.  `MoveClock` moves the clock by any of `Steps`,
also back: `Clock` is `high_resolution_clock`, with libstdc++ the system clock.
A rate is an integer number of events per interval times `Scale`; alpha is one
over a small denominator instead of an exponential.  `count()` and `mean_rate()`
read without the mutex and change nothing; left out.

What it shows.  `MeterInv` contains `NothingLost`: at every step of every call,
each average has folded, holds, has in hand or is owed exactly what `count()`
says; and `TicksNotEarly`: no more ticks than whole intervals, even if the clock is
set back.  It follows that between calls the three averages have ticked and
folded alike (`AveragesAgree`, proved).  `LastTickOnlyGrows`, `ReadIsFresh`,
`RatesBounded` (a rate is never above the most events one tick took in).  The
other direction is not so: `last_tick_` takes the time read and not the last whole
interval (`meter.cc:209`), so the remainder is dropped and averages used every one
and a half intervals fall behind without bound.

### UniformSample

`TakeNumber` is the `fetch_add` of `update()`, `Place` its critical section with
any outcome of the random draw.  `ClearValues` and `ClearCount` are `clear()`,
which holds the mutex but stores `count_` after the values, in the way of the
`fetch_add`s.  `LoadCount` and `Copy` are `snapshot()`.  `count_` is accessed with
relaxed order: an older value of it is that of an earlier `LoadCount`, and the
place of a number depends on the number, so interleavings cover it.  `size()` is
the same two reads.  Values are not 0, so that an unwritten slot can be told.

What it shows.  `SampleInv` contains `NoSlotUnwritten`: each slot the count stands for
is written or is that of a call under way, even where updates race clears; and
`NothingDropped`: up to the size of the reservoir the sample is the sequence of the
values.  `SnapshotsRecorded`: a snapshot that no `clear()` met has recorded values
only, but for calls under way.  (One that a `clear()` meets after it loaded the count
can be all zeros; one taken during an `update()` can show one zero for it.)

### ExpDecaySample and Snapshot

`Call` takes the time stamp, `Enter` the mutex with the rescaling if the stamp is
past `next`, `AddCount` and `Place` are the rest under the mutex, cut because `size()`
reads `count_` without it.  `ClearValues`, `ClearCount`, `ClearTimes` are `clear()`.
`snapshot()` and `size()` change nothing: `Shown` and `Reported`.

Abstractions: a priority `exp(alpha * dur) / rand` is its logarithm, `dur + draw`, so
that `rescale()` subtracts; below `Smallest` it is 0 and equal to all others that
are.  One tick is a second, which is what the code truncates to.  A draw of 0, an
infinite priority, is left out, and so is a reservoir of size 0, with which
`update()` reads the first element of an empty map.  The map keeps the *last* of two
equal keys in `rescale()`, the key's new value in `Placed`.  `given` has for each
update since the last `clear()` the logarithm of its undecayed priority and its
value; `worn` says that two priorities were equal or one underflowed.

`Snapshot` has no state: it says which value is the i-th and interpolates as
`quantile()` does, in thousandths.  Its reference is not another way to compute a
quantile but what one is: `Splits`, the numbers of values on either side, and
`Rises`.  The refusal of a fraction outside 0 to 1, and of a snapshot that was moved
from, are left out.

What it shows.  `SampleInv`: never more values than the size or than `size()` says,
even in the middle of a call; none that was not recorded since the last `clear()`;
empty only if nothing was.  `KeepsTheBest`: whatever the order in which time
stamps come to the mutex, and however often everything was rescaled between them,
the sample is the set of the updates with the highest undecayed priorities,
unless `worn`.  `PrioritiesBounded`: no logarithm reaches a threshold and a draw,
which is what keeps `exp` finite.  `QuantilesSplit`: what `snapshot()` returns has
quantiles in the sense of `Splits` and `Rises`.

### Timer

Of the two halves only the counts are kept: `calls` is `histogram_.count()`, `marks`
`meter_.count()`.  `context` are the places of context objects: absent, moved from
(no `impl_`), live.  `TimeScope`, `Reset`, `Stop`, `Destroy`, `Move`, `Time` with `FuncEnds`
are their operations, by any thread, but never two on one context at a time, which
`timer_context.h:11` asks for.  A use of a moved-from context throws before anything
changes (`Usable`); its destructor does nothing.  `Stop`, `Destroy` and `FuncEnds` end in
`Timer::update`: `Ignore` for a negative duration, or `FeedHistogram` and `Mark`, then
`Return`.  `Clear` is `Timer::clear`, which leaves the meter alone.  Activations are
numbered by history variables, so that each one's fate can be told.

What it shows.  `OneFate`: each activation is in one place, an active context or a
call that still has to record it, or was recorded once, or was not recorded
because of a `reset()` or a clock set back; never two of these and never none.
`HalvesAgree`: histogram and meter differ by the calls between the two and by what
`clear()` took, so a report may show a call in one only, and after a `clear()` the
rates go on where `count()` starts again.  `TimerInv`: one call at most uses a
context.

### UdpReporter

`BeginRun`, `NextMetric`, `EndRun` are the walk, `NextMessage` the list of messages of
each kind.  `TestCounter`, `ResolveFails`, `Connect`, `Deliver` are `UdpSender::send`, which
counts the message if it is connected, reconnects when the counter comes round,
and drops the message if the host is not resolved.  `Connect` leaves out any
address whose socket fails, be it all of them, unless the network is up.
`Destroy` is the destructor.  `NetChanges` is the environment.

Abstractions: `messages_sent_` is kept modulo `reconnect_after_`, which is not 0 (the
code would divide by it).  Texts are left out, and `run()` is one thread's: a direct
call beside the loop thread would mix the messages, which the comment `not thread
safe` warns of.

What it shows.  `SenderInv`: no socket is open but those of the connections,
whatever call failed; and from the counter one can tell how many messages the
connection carried.  `ReconnectsOnTime`: a connection is given up after as many
messages as asked for, but the first one after a single message, since the
message that connects is not counted.  `Heals`: if the network stays up, messages
go to all addresses again, also from a sender that had connected to nobody.

### Reports

One of the three reporters, any of which `Walkers` (the loop thread, direct callers)
run.  `Begin`, `NextMetric`, `TakeSnapshot`, `Read`, `EndMetric`, `Overflow`, `EndReport` are
the walk; `ReadsOf` is the table of what each `process()` reads of each kind, in order.
Console and JSON have no `process(Value&)` and inherit one that does nothing.
Beside them `FeedSample` and `AddCount` are the two accesses of an update that a
report can set side by side, the value in the sample and `++count_`; `ClearCount`
and `ClearSample` are those of a `clear()`.  What `update()` and `clear()` do between
and after them, and the values of minimum, maximum and mean, are in `Histogram`.

Abstractions: a *piece* stands for the text a getter contributes, the four rates are
one piece.  C++11 leaves open in which order the getters of one statement are
called, which nothing depends on, as the snapshot has a statement of its own.
Of collectd's messages there are the sizes of the parts, what each declares and how
far it moves; texts are below 64K, where the declared 16-bit size would wrap.
`Overflow` is the exception, at whichever part it is thrown; bytes written past the
buffer before `move_ptr` tests it, and the socket, opened in the constructor and
never closed, are not modelled.

What it shows.  `ReportInv`: the mutex is held by the one thread in a report, and each
message collectd sends is as long as its parts declare and fits.  `ReportsWhole`:
each caller gets from the shared buffer what it wrote, all of it, in order.
`CountCoversSample`: each getter that reads `count_` (`CountReaders`: `max()`, `min()`,
`mean()` and `std_dev()` read it to tell an empty histogram) finds no fewer values
counted than were in the sample the quantiles are of, however many updates race the
report, if no update or `clear()` was between its two steps when the sample was copied
and no `clear()` came later.  So quantiles of something never stand beside a smaller
count or the 0.0 of an empty histogram.  It holds because `getSnapshot()` is called
before the other getters.  It says nothing of the values of `min()` and `max()`: that
they bound what is counted is `ExtremesExact` of `Histogram`, with its proviso, and
finding 1 is that they need not when the first updates race.  `ReportsEnd`: also a
report that throws leaves the mutex free.

## The runs

| run | instance | states | question |
|---|---|---|---|
| `histogram_updates` | 3 calls by 2 threads, values -2, 1, 3 | 65 000 | extremes, sum, count, variance under updates; every call ends |
| `histogram_readers` | 2 updates, a `clear()`, a reader | 1 480 000, symmetric | what getters can return, what survives a `clear()`; the inductive invariant |
| `histogram_max_lost` | 2 updates | violation | is `max()` the largest value after racing first calls? No |
| `uniform_sample` | 3 threads, 4 updates, reservoir of 2, a `clear()`, a reader | 117 000, symmetric | slots, drops, snapshots |
| `exp_decay_sample` | 2 threads, 4 updates, reservoir of 2, a `clear()`, clock 0..4 | 1 370 000, symmetric | what is kept, bounds of priorities, quantiles |
| `meter` | 2 threads, 2 marks, clock 0..6 forward 3 and back 2 | 564 000 | events and ticks |
| `timer` | 2 threads, 2 contexts, 4 activations, a `clear()` | 664 000, symmetric | fate of activations, the two halves |
| `registry` | 2 clients, 1 poller, 3 names of 2 texts, 3 specs | 305 000 | write-once map, refinement, every call ends |
| `polling_reporter` | 3 controllers, 3 starts, threads that cannot be created | 307 000 | one loop, clean stops, no terminate |
| `destroy_while_running` | 1 controller, 1 start | violation | does the destructor stop `run()` in time? No |
| `reports` | 2 walkers, a timer and a meter, 2 updates, a `clear()`, 3 reporters | 398 000 | whole and consistent reports, the mutex comes free |
| `udp_reporter` | 5 kinds, 2 addresses, 5 messages a connection | 3 900 | sockets, counter, recovery |

*Why the bounds are enough.*  The race in an extreme needs a loader, a mover and
a third value between them: three updates of three values by two threads, with
both signs so that neither extreme starts at the constructor's 0 and the word
wraps (`Half = 4`; with 2, 3 and 6 dividing `Scale = 6` the variance is exact).
Clearing needs an update in progress on either side of each store.  A reader
needs a count that moves between its two loads.  The reporter needs a
start, a stop and a restart in progress at once, and a destroyer.  The registry
needs two callers of one text, of another text, of equal and different specs, and
one spec that throws; two objects suffice for two texts, and addresses are not
reused.  The meter needs two threads that find one tick due, more than one tick
due at once (a step of 3 twice over an interval of 2 gives three), and a
clock set back after a tick.  The reservoir needs a full one and a call beyond it,
two calls with a number and no place, and a `clear()` between.  The decaying sample
needs the same, and a time stamp that comes to the mutex after a rescaling by a
later one: clock steps of 2 and -1 with a threshold of 2 and a priority that
underflows 2 below.  The timer needs a context moved while another call is between
its halves, a clock set back, and one activation more than that.  A message of the
UDP reporter can be each of 32, so that a connection ends at any of them in some
run.  The timer and the meter of `reports` have texts with which collectd's message fills
the buffer exactly, and exceeds it by one byte; two updates race each other and
the report, and can be on either side of its copy of the sample.  Unbounded counters are capped by
`MaxUpdates`, `MaxClears`, `MaxMarks`, `MaxActivations`, `MaxReports`, `MaxTime` and the
sizes of `Loops` and `Objects`.

*Deadlock* is checked in every run.  A state in which a model may stop has a step
of its own that says why: `Terminated` (the bounds are used up), `Over` and
`Crashed` (the object or the process is gone).  In the decaying sample and the timer the clock
can always move, and in `UdpReporter` the network.

*Fairness.*  Only liveness uses it, in `FairSpec` (`FairReports`).  A thread inside a call is
scheduled (weak fairness of its steps); `std::mutex` and `compare_exchange_weak`
are not fair in C++, but a thread that tries again and again while the others
finish does get through (strong fairness, of the registry's lock and of the
histogram's two exchanges).  `run()` returns and `sleep_for` ends.  `Heals` supposes
that a started reporter runs again and again, which is `KeepsReporting` of
`PollingReporter`, and that its system calls return.  `ReportsEnd` supposes only that a
thread in a report is scheduled: nobody waits there for another.  Nobody has to call
anything.

## Findings

1. `histogram.cc:233`: two racing first calls can lose the larger value.  Both
   read `count_ == 0`; the one that stores second overwrites the larger value with
   its smaller one, whether it loaded that value before its loop or got it from an
   exchange that failed, as `count_` is still 0.
2. `abstract_polling_reporter.cc:62`: the destructor of the base class is the
   one that stops the loop, after the derived members are gone; the tests
   destroy started reporters.

Each is a run with the expected outcome "violation".

## What is proved

All proofs are for every value of the constants, from the named assumptions
(`ThreadsAssumption`, `NumbersAssumption`, `ActorsAssumption`, `RegistryAssumption`,
`MeterAssumption`, `SampleAssumption`, `TimerAssumption`, `ReportsAssumption`,
`UdpAssumption`), which say no
more than that different kinds of threads are different, that numbers are
numbers, and that threads and contexts are finitely many.

**Histogram** (`ExtremesInvHolds`).  The conclusion, extremes bound the counted
values, is not inductive: one must know what each call knows at each place.
`MaxInv` says a call past its loop has `value <= max`, one in the loop has seen
no more than `max`; `MinInv` is its mirror, one loop later.  `SeedInv` says when
the words hold a recorded value and not the constructor's 0; `FirstAloneInv` is
the proviso in inductive form; `ClearInv` is what an undisturbed `clear()` leaves.
From it `ExtremesExactHolds`, `ExtremesRecordedHolds`, `ExtremesMonotoneHolds`.
`CountExactHolds` goes by the finite set of calls that have not yet counted.

The rest of the histogram is `IndInvHolds`, whose `IndInv` adds to `ExtremesInv` the
`Accounting`, who holds `variance_mutex_` and what it knows of the words there
(`LockInv`, `VarianceInv`), what is left of the object after an undisturbed `clear()`
(`BlankInv`), that `variance_m_` and `variance_s_` are the mean and the sum of squares of the
values *taken* so far, a call in the middle of its stores included (`WelfordInv`), and
what a reader's first load says of its second (`ReadersInv`, `MeanInv`).  From it
`AccountingHolds`, `VarianceNonNegativeHolds`, `VarianceExactHolds`, `ClearedIsNewHolds`,
`ExtremeReadsRecordedHolds`, `MeanCoversCountedHolds`.  Two pieces of mathematics carry it.
`sum_` is compared with a sum over the calls that have not added yet; that such a sum
exists, is unique and does not depend on the order (`AddsExists`, `AddsUnique`, `AddsAny`)
is proved by taking a smallest counterexample among the subsets of the finite set of
updaters, and `WrapAdds` lets it run in the machine word.  One step of Welford's
recurrence is the polynomial identity `WelfordStep`.  The recurrence is over integers,
`Scale` times the doubles, and its two divisions must come out even for an exact
answer: `VarianceExactHolds` has the hypothesis `ExactScale`, that `Scale` is a multiple of
`n * (n + 1)` for every count reached, which the instances meet (2 for two calls, 6
for three).  With the rounding of doubles the code is only near that value, which
is outside the model.  `VarianceNonNegativeHolds` has no such hypothesis.

**PollingReporter** (`LoopDisciplineHolds`).  At most one controller is past its
exchange (`OneBusy`), and its place says whether `thread_` is joinable and which
loop thread may live (`StartInv`, `StopInv`, `RestInv`); `LateInv` and
`DestructionInv` add the last run and the destructors.  From it
`NeverTerminatesHolds`, `OneLoopHolds`, `StoppedMeansNoLoopHolds` (with
`OneLateRun`), `NoRunAfterDestructionHolds`.  What is behind a raised flag (`Behind`)
is that one thread, or none at all if it could not be created.

**MetricsRegistry** (`RegistryInvHolds`).  Owner of the mutex and what it has seen
of the map (`MutexInv`), distinct addresses, empty entries only after a throw,
and that answers and copies are what is registered.  From it
`ReferencesStayValid`, `SharedBySameNameHolds`, `EmptyInvHolds`,
`WriteOnceHolds`, and the whole refinement `ImplementsWriteOnceHolds`: making an
entry is a stutter, returning from the call that made it is `Create`, any other
return is `Reuse`, the exceptional exits are `Conflict` and `Throw`, each with the key
and the attributes of the call.

**Meter** (`MeterInvHolds`).  `MutexInv` (the owner of the mutex still has what
it read), `NothingLost` with what is in hand and owed, `TicksNotEarly` with the
ticks due, `InStep`.  From it `NothingLostHolds`, `AveragesAgreeHolds`,
`ReadIsFreshHolds`, `LastTickOnlyGrowsHolds`; `RatesBoundedHolds` is a second
induction that needs what integer division rounds to.

**UniformSample** (`SampleInvHolds`).  Besides the properties: the numbers of calls
under way are below the count and distinct (`NumbersInv`), `clear()` leaves the
values unused until it has stored the count (`MutexInv`), a reader no `clear()` met
has loaded no more than the count (`ReadersInv`).  From it `NoSlotUnwrittenHolds`,
`NothingDroppedHolds` and, by a second induction, `SnapshotsRecordedHolds`.

**ExpDecaySample and Snapshot** (`IndInvHolds`).  `MutexInv` says that a call past its
`Enter` has a stamp below the next rescaling; with `PrioritiesBounded`, which then is
inductive, that bounds the key it will place.  `BestInv` is `KeepsTheBest` in inductive
form: while nothing is `worn`, the map, shifted back by its start, holds just the best of
what was given: the rest is below all of it, and there is no rest before the map is
full.  A rescaling shifts all keys alike, and a placed key replaces the smallest of a
full map only if it is larger.  `CountInv` ties `count_`, less the call that is between
its two steps (`Settled`), to the number of keys.  From it `SampleInvHolds`, `PrioritiesBoundedHolds`, `KeepsTheBestHolds`.
`SampleAssumption` has `Smallest <= 0`: `exp` has not yet underflowed at 0, where it is 1.
`QuantileSplits` and `QuantileRises` are about every sorted sequence of integers and every
fraction, from the ranks of `Snapshot` and the rounding of its interpolation;
`QuantilesSplitHolds` applies them to what `snapshot()` shows.

**Timer** (`TimerInvHolds`, `OneFateHolds`, `HalvesAgreeHolds`).  A context in use is active
and in one call (`UseInv`), what is under way has a number that was given out and
nothing was done with the others (`NumbersInv`).  `OneFate` is then inductive by
itself: each step takes an activation out of one of two finite sets, the contexts
that hold it and the calls about to record it, and puts it into the other, or
records or drops it; that a set lost its only element is what rules out a second
fate.  `HalvesAgree` counts the calls between the halves in the same way.

**UdpReporter** (`SenderInvHolds`, `ReconnectsOnTimeHolds`).  `CounterInv` ties the counter, modulo
`reconnect_after_`, to the messages the connection was given, and between two
connections to the message that closed the last one.  A counter that is 0 then
means a full connection, or the first.

**Reports** (`ReportsIndInvHolds`).  `OwnerInv` says who is in a report.  `BufferInv` says
what that thread has in the shared buffer at each place of its walk: the texts of the
metrics before this one, and of this one a piece for each step of `process()` taken,
but for the snapshot, which `ReadsShaped` shows every kind to take first or not at
all.  `SentInv` keeps what was sent.  `DataInv` says that the sample of a metric is
ahead of `count_` by no more than the updates under way, unless it is still to be
cleared; `CoverInv` that a calm snapshot is not ahead of any `count_` read since, nor
of the one still to be read.  From it `ReportInvHolds` (with `DeclaredMoved`: part by part a
collectd message moves by what it declares, whatever the lengths of its texts),
`ReportsWholeHolds` and `CountCoversSampleHolds`.  The JSON text is defined by recursion
over the metrics; that the recursion has a solution (`TextExists`) is proved through
the least number of metrics for which it would not.

**Only model-checked.**  Liveness (`EveryCallReturns`, both `CallsReturn`,
`KeepsReporting`, `Heals`, `ReportsEnd`), which TLAPS cannot prove under fairness; and the
two violations, which are counterexamples.

## Not modelled, and the plan

Left out for good: `Counter` and `Value` (one atomic word each), the units of `util`,
the accessors of `MetricName` and the refusal of empty parts (no state), the text the
reporters print (formatting), the UDP reporter's use by two threads at once and
other calls the library forbids, memory written past collectd's buffer before its
test, and the socket of the collectd reporter, which has no operations but to be
opened.

All components with state are modelled, and every safety property that a run checks is
proved.  What could be added is a specification of what `Timer` and `UdpReporter`
promise, with the modules shown to implement it, as `WriteOnceRegistry` is for the
registry.
