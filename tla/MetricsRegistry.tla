-------------------------- MODULE MetricsRegistry --------------------------
(***************************************************************************)
(* medida::MetricsRegistry (src/src/medida/metrics_registry.cc): a map     *)
(* from names to metrics under one mutex.  new_metric() finds or makes the *)
(* metric and compares its type and attributes with the ones asked for;    *)
(* get_all_metrics() copies the map, and a reporter then walks the copy    *)
(* without the mutex.                                                      *)
(*                                                                         *)
(* A name is compared by the text its parts make when joined with dots: a  *)
(* part is the sequence of its dot-separated pieces, and Repr joins them.  *)
(***************************************************************************)
EXTENDS Naturals, Sequences

CONSTANTS
    Clients,  \* threads that call new_counter(), new_meter() ...
    Pollers,  \* threads of the reporters
    NoThread, \* owner of mutex_ when it is free
    Names,    \* the names asked for
    Specs,    \* type and attributes of a metric
    Invalid,  \* the specs whose constructor throws
    Objects,  \* the metrics that may be allocated, told apart by address
    Null      \* an entry whose shared_ptr is empty

ASSUME RegistryAssumption ==
    /\ NoThread \notin Clients \cup Pollers
    /\ Clients \cap Pollers = {}
    /\ Invalid \subseteq Specs
    /\ Null \notin [spec : Specs, object : Objects]
    /\ \A n \in Names : DOMAIN n = {"domain", "type", "name", "scope"}

(* MetricName: repr_ and operator<.                                        *)
Repr(n) == n.domain \o n.type \o n.name \o n.scope

Keys == {Repr(n) : n \in Names}

VARIABLES
    metrics,   \* metrics_, from the keys in use to metrics or Null
    mutex,     \* the owner of mutex_
    pc,        \* where each thread is
    request,   \* name and spec a client asked for
    creating,  \* the client's call put the entry there itself
    answers,   \* the outcome of each client's last call
    snapshot,  \* the copy of the map each poller walks
    crashed,   \* a null pointer was dereferenced
    threw      \* history: a constructor threw while an entry was made

vars == <<metrics, mutex, pc, request, creating, answers, snapshot, crashed, threw>>

Threads == Clients \cup Pollers
Empty == [k \in {} |-> Null]
Put(f, k, m) == [j \in DOMAIN f \cup {k} |-> IF j = k THEN m ELSE f[j]]

(* The addresses of live metrics: an allocation returns another one.       *)
InUse == {metrics[k].object : k \in {j \in DOMAIN metrics : metrics[j] # Null}}

Nothing == [outcome |-> "none"]
Asked(k, s) == [key |-> k, spec |-> s]
Got(k, m) == [outcome |-> "metric", key |-> k, metric |-> m]

Init ==
    /\ metrics = Empty
    /\ mutex = NoThread
    /\ pc = [t \in Threads |-> "idle"]
    /\ request \in [Clients -> [name : Names, spec : Specs]]
    /\ creating = [c \in Clients |-> FALSE]
    /\ answers = [c \in Clients |-> Nothing]
    /\ snapshot = [p \in Pollers |-> Empty]
    /\ crashed = FALSE
    /\ threw = FALSE

Goto(t, label) == pc' = [pc EXCEPT ![t] = label]
KeyOf(c) == Repr(request[c].name)

(* Leaving new_metric(), by return or exception, releases the mutex.       *)
Leave(c, answer) ==
    /\ answers' = [answers EXCEPT ![c] = answer]
    /\ creating' = [creating EXCEPT ![c] = FALSE]
    /\ mutex' = NoThread
    /\ Goto(c, "idle")

----------------------------------------------------------------------------
(* Wrong variants of steps below, for the mutation runs only.              *)

FindNothing(c) ==
    /\ pc[c] = "find"
    /\ Goto(c, "make")
    /\ UNCHANGED <<metrics, mutex, request, creating, answers, snapshot, crashed, threw>>

EnterUnlocked(c) ==
    /\ pc[c] = "lock"
    /\ Goto(c, "find")
    /\ UNCHANGED <<metrics, mutex, request, creating, answers, snapshot, crashed, threw>>

ReturnUncompared(c) ==
    /\ pc[c] = "compare"
    /\ KeyOf(c) \in DOMAIN metrics
    /\ metrics[KeyOf(c)] # Null
    /\ Leave(c, Got(KeyOf(c), metrics[KeyOf(c)]))
    /\ UNCHANGED <<metrics, request, snapshot, crashed, threw>>

ReturnWithoutUnlock(c) ==
    /\ pc[c] = "compare"
    /\ metrics[KeyOf(c)] # Null
    /\ metrics[KeyOf(c)].spec # request[c].spec
    /\ answers' = [answers EXCEPT ![c] = [outcome |-> "conflict"]]
    /\ creating' = [creating EXCEPT ![c] = FALSE]
    /\ Goto(c, "idle")
    /\ UNCHANGED <<metrics, mutex, request, snapshot, crashed, threw>>

----------------------------------------------------------------------------
(* new_metric(name, args)                                                  *)

Call(c, n, s) ==
    /\ pc[c] = "idle"
    /\ request' = [request EXCEPT ![c] = [name |-> n, spec |-> s]]
    /\ answers' = [answers EXCEPT ![c] = Nothing]
    /\ Goto(c, "lock")
    /\ UNCHANGED <<metrics, mutex, creating, snapshot, crashed, threw>>

Lock(c) ==
    /\ pc[c] = "lock"
    /\ mutex = NoThread
    /\ mutex' = c
    /\ Goto(c, "find")
    /\ UNCHANGED <<metrics, request, creating, answers, snapshot, crashed, threw>>

Find(c) ==
    /\ pc[c] = "find"
    /\ Goto(c, IF KeyOf(c) \in DOMAIN metrics THEN "compare" ELSE "make")
    /\ UNCHANGED <<metrics, mutex, request, creating, answers, snapshot, crashed, threw>>

Make(c) ==
    /\ pc[c] = "make"
    /\ request[c].spec \notin Invalid
    /\ \E o \in Objects \ InUse :
          metrics' = Put(metrics, KeyOf(c), [spec |-> request[c].spec, object |-> o])
    /\ creating' = [creating EXCEPT ![c] = TRUE]
    /\ Goto(c, "compare")
    /\ UNCHANGED <<mutex, request, answers, snapshot, crashed, threw>>

(* The constructor throws.  In `metrics_[name] = make_shared(args)' the    *)
(* order of the two sides is unspecified (C++11): the entry may be there.  *)
MakeThrows(c) ==
    /\ pc[c] = "make"
    /\ request[c].spec \in Invalid
    /\ metrics' \in {metrics, Put(metrics, KeyOf(c), Null)}
    /\ threw' = TRUE
    /\ Leave(c, [outcome |-> "threw"])
    /\ UNCHANGED <<request, snapshot, crashed>>

(* A second instance is built to compare the attributes: it throws for     *)
(* invalid arguments before anything is looked at.                         *)
CompareThrows(c) ==
    /\ pc[c] = "compare"
    /\ request[c].spec \in Invalid
    /\ Leave(c, [outcome |-> "threw"])
    /\ UNCHANGED <<metrics, request, snapshot, crashed, threw>>

CompareNull(c) ==
    /\ pc[c] = "compare"
    /\ request[c].spec \notin Invalid
    /\ metrics[KeyOf(c)] = Null
    /\ crashed' = TRUE
    /\ UNCHANGED <<metrics, mutex, pc, request, creating, answers, snapshot, threw>>

Return(c) ==
    /\ pc[c] = "compare"
    /\ request[c].spec \notin Invalid
    /\ metrics[KeyOf(c)] # Null
    /\ metrics[KeyOf(c)].spec = request[c].spec
    /\ Leave(c, Got(KeyOf(c), metrics[KeyOf(c)]))
    /\ UNCHANGED <<metrics, request, snapshot, crashed, threw>>

FailWithConflict(c) ==
    /\ pc[c] = "compare"
    /\ request[c].spec \notin Invalid
    /\ metrics[KeyOf(c)] # Null
    /\ metrics[KeyOf(c)].spec # request[c].spec
    /\ Leave(c, [outcome |-> "conflict"])
    /\ UNCHANGED <<metrics, request, snapshot, crashed, threw>>

----------------------------------------------------------------------------
(* A reporter's run(): get_all_metrics(), then process() on each entry.    *)

CopyAll(p) ==
    /\ pc[p] = "idle"
    /\ mutex = NoThread
    /\ snapshot' = [snapshot EXCEPT ![p] = metrics]
    /\ Goto(p, "walk")
    /\ UNCHANGED <<metrics, mutex, request, creating, answers, crashed, threw>>

Process(p, k) ==
    /\ pc[p] = "walk"
    /\ k \in DOMAIN snapshot[p]
    /\ snapshot' = [snapshot EXCEPT ![p] = [j \in DOMAIN @ \ {k} |-> @[j]]]
    /\ crashed' = (snapshot[p][k] = Null)
    /\ UNCHANGED <<metrics, mutex, pc, request, creating, answers, threw>>

EndReport(p) ==
    /\ pc[p] = "walk"
    /\ DOMAIN snapshot[p] = {}
    /\ Goto(p, "idle")
    /\ UNCHANGED <<metrics, mutex, request, creating, answers, snapshot, crashed, threw>>

----------------------------------------------------------------------------
ClientStep(c) ==
    /\ ~crashed
    /\ \/ Lock(c) \/ Find(c) \/ Make(c) \/ MakeThrows(c)
       \/ CompareThrows(c) \/ CompareNull(c) \/ Return(c) \/ FailWithConflict(c)

PollerStep(p) ==
    /\ ~crashed
    /\ (\E k \in DOMAIN snapshot[p] : Process(p, k)) \/ EndReport(p)

(* A crash ends the process.                                               *)
Crashed == crashed /\ UNCHANGED vars

Next ==
    \/ \E c \in Clients :
          \/ ~crashed /\ \E n \in Names, s \in Specs : Call(c, n, s)
          \/ ClientStep(c)
    \/ \E p \in Pollers : (~crashed /\ CopyAll(p)) \/ PollerStep(p)
    \/ Crashed

Spec == Init /\ [][Next]_vars

(* Threads in a call are scheduled, and a thread that waits for the mutex  *)
(* again and again gets it at last.  Nobody has to call.                   *)
Fairness ==
    /\ \A c \in Clients : WF_vars(ClientStep(c)) /\ SF_vars(~crashed /\ Lock(c))
    /\ \A p \in Pollers : WF_vars(PollerStep(p))

FairSpec == Spec /\ Fairness

----------------------------------------------------------------------------
(* Properties.                                                             *)

Metric == [spec : Specs \ Invalid, object : Objects]
Maps == UNION {[K -> Metric \cup {Null}] : K \in SUBSET Keys}

(* Every variable keeps its type.                                          *)
TypeOK ==
    /\ metrics \in Maps
    /\ mutex \in Clients \cup {NoThread}
    /\ pc \in [Threads -> {"idle", "lock", "find", "make", "compare", "walk"}]
    /\ request \in [Clients -> [name : Names, spec : Specs]]
    /\ creating \in [Clients -> BOOLEAN]
    /\ answers \in [Clients -> [outcome : {"none", "conflict", "threw"}]
                                  \cup [outcome : {"metric"}, key : Keys, metric : Metric]]
    /\ snapshot \in [Pollers -> Maps]
    /\ crashed \in BOOLEAN
    /\ threw \in BOOLEAN

(* The thread inside new_metric() is the owner of the mutex, and what it   *)
(* has seen of the map still stands.                                       *)
MutexInv ==
    \A c \in Clients :
        /\ pc[c] \in {"find", "make", "compare"} <=> mutex = c
        /\ pc[c] = "make" => KeyOf(c) \notin DOMAIN metrics
        /\ pc[c] = "compare" => KeyOf(c) \in DOMAIN metrics
        /\ creating[c] => /\ pc[c] = "compare"
                          /\ metrics[KeyOf(c)] # Null
                          /\ metrics[KeyOf(c)].spec = request[c].spec

(* Under different keys there are different metrics.                       *)
DistinctMetrics ==
    \A j, k \in DOMAIN metrics :
        j # k /\ metrics[j] # Null /\ metrics[k] # Null
            => metrics[j].object # metrics[k].object

(* A thread dereferences a null pointer only where an entry is left empty. *)
NoNullDereference == crashed => \E k \in DOMAIN metrics : metrics[k] = Null

(* Empty entries come only from constructors that threw, and crashes only  *)
(* from empty entries.                                                     *)
EmptyInv ==
    /\ (\E k \in DOMAIN metrics : metrics[k] = Null) => threw
    /\ NoNullDereference

(* A reference a thread got from new_metric() is, for ever, that of the    *)
(* metric registered under the name, with the attributes it asked for: two *)
(* threads that ask for the same name and attributes share one metric.     *)
HeldIsRegistered ==
    \A c \in Clients :
        answers[c].outcome = "metric" =>
            /\ answers[c].key \in DOMAIN metrics
            /\ metrics[answers[c].key] = answers[c].metric
            /\ pc[c] = "idle" => /\ answers[c].key = KeyOf(c)
                                 /\ answers[c].metric.spec = request[c].spec

(* A report walks metrics that are still the registered ones, however many *)
(* are registered meanwhile.                                               *)
SnapshotIsRegistered ==
    \A p \in Pollers : \A k \in DOMAIN snapshot[p] :
        /\ k \in DOMAIN metrics
        /\ snapshot[p][k] = metrics[k]

(* The inductive invariant of the proofs.                                  *)
RegistryInv ==
    /\ TypeOK
    /\ MutexInv
    /\ DistinctMetrics
    /\ EmptyInv
    /\ HeldIsRegistered
    /\ SnapshotIsRegistered

(* Two threads that were given metrics were given the same one exactly if  *)
(* the names they asked for have one text.                                 *)
SharedBySameName ==
    \A c, d \in Clients :
        /\ answers[c].outcome = "metric" /\ pc[c] = "idle"
        /\ answers[d].outcome = "metric" /\ pc[d] = "idle"
        => (answers[c].metric.object = answers[d].metric.object
               <=> Repr(request[c].name) = Repr(request[d].name))

(* No step replaces or removes a registered metric, which would leave      *)
(* dangling the references handed out.                                     *)
NeverReplaced ==
    /\ DOMAIN metrics \subseteq DOMAIN metrics'
    /\ \A k \in DOMAIN metrics : metrics[k] # Null => metrics'[k] = metrics[k]

WriteOnce == [][NeverReplaced]_vars

(* Every call of new_metric() returns or throws: the mutex is never left   *)
(* locked, whichever way the call ends.                                    *)
CallsReturn == \A c \in Clients : pc[c] = "lock" ~> pc[c] = "idle" \/ crashed

(* The abstract registry: an entry that the call which made it has not     *)
(* returned yet is not there, nor are empty entries.  A client waits from  *)
(* Call until the call returns or throws.                                  *)
Committed ==
    {k \in DOMAIN metrics :
        metrics[k] # Null /\ \A c \in Clients : creating[c] => KeyOf(c) # k}

Abstract ==
    INSTANCE WriteOnceRegistry WITH
        store <- [k \in Committed |-> metrics[k]],
        asked <- [c \in Clients |->
                    IF pc[c] = "idle" THEN Nothing ELSE Asked(KeyOf(c), request[c].spec)]

(* Whatever the interleaving of calls and reports, each call is answered   *)
(* as if it had been made at one instant, by what it asked for and what is *)
(* registered at that instant.                                             *)
ImplementsWriteOnce == Abstract!Spec
=============================================================================
