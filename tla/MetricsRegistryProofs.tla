----------------------- MODULE MetricsRegistryProofs -----------------------
(***************************************************************************)
(* Theorems about MetricsRegistry for every number of clients and pollers, *)
(* every set of names and every set of metrics.                            *)
(***************************************************************************)
EXTENDS MetricsRegistry, TLAPS

(* A partial map is a function of some of the keys.                        *)
LEMMA MapFacts ==
    ASSUME NEW f \in Maps
    PROVE  /\ DOMAIN f \subseteq Keys
           /\ \A k \in DOMAIN f : f[k] \in Metric \cup {Null}
           /\ f = [k \in DOMAIN f |-> f[k]]
BY DEF Maps

LEMMA EmptyIsMap == Empty \in Maps
<1>1. Empty \in [{} -> Metric \cup {Null}]
  BY DEF Empty
<1>2. {} \in SUBSET Keys
  OBVIOUS
<1> QED
  BY <1>1, <1>2 DEF Maps

LEMMA PutFacts ==
    ASSUME NEW f \in Maps, NEW k \in Keys, NEW m \in Metric \cup {Null}
    PROVE  /\ Put(f, k, m) \in Maps
           /\ DOMAIN Put(f, k, m) = DOMAIN f \cup {k}
           /\ Put(f, k, m)[k] = m
           /\ \A j \in DOMAIN f : j # k => Put(f, k, m)[j] = f[j]
<1>1. Put(f, k, m) \in [DOMAIN f \cup {k} -> Metric \cup {Null}]
  BY MapFacts DEF Put
<1>2. DOMAIN f \cup {k} \in SUBSET Keys
  BY MapFacts
<1> QED
  BY <1>1, <1>2 DEF Maps, Put

LEMMA RestrictionIsMap ==
    ASSUME NEW f \in Maps, NEW k
    PROVE  [j \in DOMAIN f \ {k} |-> f[j]] \in Maps
<1>1. [j \in DOMAIN f \ {k} |-> f[j]] \in [DOMAIN f \ {k} -> Metric \cup {Null}]
  BY MapFacts
<1>2. DOMAIN f \ {k} \in SUBSET Keys
  BY MapFacts
<1> QED
  BY <1>1, <1>2 DEF Maps

LEMMA KeyOfFacts ==
    ASSUME TypeOK, NEW c \in Clients
    PROVE  KeyOf(c) \in Keys
BY DEF TypeOK, KeyOf, Keys


LEMMA CallStep ==
    ASSUME RegistryInv, NEW c \in Clients, NEW n \in Names, NEW s \in Specs, Call(c, n, s)
    PROVE  RegistryInv'
<1> USE RegistryAssumption DEF Call, Goto, Leave, Threads, Nothing, Got
<1>1. TypeOK'
  BY DEF RegistryInv, TypeOK, Metric, MutexInv
<1>2. MutexInv'
  BY DEF RegistryInv, TypeOK, MutexInv, KeyOf
<1>3. DistinctMetrics'
  BY DEF RegistryInv, TypeOK, DistinctMetrics
<1>4. EmptyInv'
  BY DEF RegistryInv, TypeOK, MutexInv, EmptyInv, NoNullDereference
<1>5. HeldIsRegistered'
  BY DEF RegistryInv, TypeOK, MutexInv, HeldIsRegistered, KeyOf
<1>6. SnapshotIsRegistered'
  BY DEF RegistryInv, TypeOK, SnapshotIsRegistered
<1> QED
  BY <1>1, <1>2, <1>3, <1>4, <1>5, <1>6 DEF RegistryInv

LEMMA LockStep ==
    ASSUME RegistryInv, NEW c \in Clients, Lock(c)
    PROVE  RegistryInv'
<1> USE RegistryAssumption DEF Lock, Goto, Leave, Threads, Nothing, Got
<1>1. TypeOK'
  BY DEF RegistryInv, TypeOK, Metric, MutexInv
<1>2. MutexInv'
  BY DEF RegistryInv, TypeOK, MutexInv, KeyOf
<1>3. DistinctMetrics'
  BY DEF RegistryInv, TypeOK, DistinctMetrics
<1>4. EmptyInv'
  BY DEF RegistryInv, TypeOK, MutexInv, EmptyInv, NoNullDereference
<1>5. HeldIsRegistered'
  BY DEF RegistryInv, TypeOK, MutexInv, HeldIsRegistered, KeyOf
<1>6. SnapshotIsRegistered'
  BY DEF RegistryInv, TypeOK, SnapshotIsRegistered
<1> QED
  BY <1>1, <1>2, <1>3, <1>4, <1>5, <1>6 DEF RegistryInv

LEMMA FindStep ==
    ASSUME RegistryInv, NEW c \in Clients, Find(c)
    PROVE  RegistryInv'
<1> USE RegistryAssumption DEF Find, Goto, Leave, Threads, Nothing, Got
<1>1. TypeOK'
  BY DEF RegistryInv, TypeOK, Metric, MutexInv
<1>2. MutexInv'
  BY DEF RegistryInv, TypeOK, MutexInv, KeyOf
<1>3. DistinctMetrics'
  BY DEF RegistryInv, TypeOK, DistinctMetrics
<1>4. EmptyInv'
  BY DEF RegistryInv, TypeOK, MutexInv, EmptyInv, NoNullDereference
<1>5. HeldIsRegistered'
  BY DEF RegistryInv, TypeOK, MutexInv, HeldIsRegistered, KeyOf
<1>6. SnapshotIsRegistered'
  BY DEF RegistryInv, TypeOK, SnapshotIsRegistered
<1> QED
  BY <1>1, <1>2, <1>3, <1>4, <1>5, <1>6 DEF RegistryInv

LEMMA MakeStep ==
    ASSUME RegistryInv, NEW c \in Clients, Make(c)
    PROVE  RegistryInv'
<1> USE RegistryAssumption DEF Threads
<1> DEFINE K == KeyOf(c)
<1>1. PICK o \in Objects \ InUse :
          metrics' = Put(metrics, K, [spec |-> request[c].spec, object |-> o])
  BY DEF Make
<1> DEFINE m == [spec |-> request[c].spec, object |-> o]
<1>2. /\ mutex = c /\ K \in Keys /\ K \notin DOMAIN metrics
      /\ \A d \in Clients : ~creating[d]
  BY KeyOfFacts DEF Make, RegistryInv, TypeOK, MutexInv
<1>3. m \in Metric /\ m # Null /\ m.spec = request[c].spec /\ m.object = o
  BY DEF Make, RegistryInv, TypeOK, Metric
<1>4. /\ metrics' \in Maps
      /\ DOMAIN metrics' = DOMAIN metrics \cup {K}
      /\ metrics'[K] = m
      /\ \A j \in DOMAIN metrics : metrics'[j] = metrics[j]
  <2>1. metrics \in Maps /\ m \in Metric \cup {Null} /\ metrics' = Put(metrics, K, m)
    BY <1>1, <1>3 DEF RegistryInv, TypeOK
  <2> HIDE DEF K, m
  <2> QED
    BY <1>2, <2>1, PutFacts
<1>5. /\ \A j \in DOMAIN metrics : metrics[j] # Null => metrics[j].object # o
  BY DEF InUse
<1>6. /\ pc' = [pc EXCEPT ![c] = "compare"] /\ creating' = [creating EXCEPT ![c] = TRUE]
      /\ UNCHANGED <<mutex, request, answers, snapshot, crashed, threw>>
      /\ K' = K /\ \A d \in Clients : KeyOf(d)' = KeyOf(d)
  BY DEF Make, Goto, KeyOf
<1> HIDE DEF K, m
<1>7. TypeOK'
  BY <1>4, <1>6 DEF RegistryInv, TypeOK
<1>8. MutexInv'
  BY <1>2, <1>3, <1>4, <1>6 DEF RegistryInv, TypeOK, MutexInv, K
<1>9. DistinctMetrics'
  BY <1>2, <1>3, <1>4, <1>5 DEF RegistryInv, DistinctMetrics
<1>10. EmptyInv'
  BY <1>3, <1>4, <1>6 DEF RegistryInv, EmptyInv, NoNullDereference
<1>11. HeldIsRegistered'
  BY <1>2, <1>4, <1>6 DEF RegistryInv, TypeOK, MutexInv, HeldIsRegistered
<1>12. SnapshotIsRegistered'
  BY <1>2, <1>4, <1>6 DEF RegistryInv, SnapshotIsRegistered
<1> QED
  BY <1>7, <1>8, <1>9, <1>10, <1>11, <1>12 DEF RegistryInv

LEMMA MakeThrowsStep ==
    ASSUME RegistryInv, NEW c \in Clients, MakeThrows(c)
    PROVE  RegistryInv'
<1> USE RegistryAssumption DEF Threads
<1> DEFINE K == KeyOf(c)
<1>1. /\ mutex = c /\ K \in Keys /\ K \notin DOMAIN metrics
      /\ \A d \in Clients : ~creating[d]
  BY KeyOfFacts DEF MakeThrows, RegistryInv, TypeOK, MutexInv
<1>2. /\ metrics' \in Maps
      /\ DOMAIN metrics \subseteq DOMAIN metrics'
      /\ \A j \in DOMAIN metrics' : j \in DOMAIN metrics \/ metrics'[j] = Null
      /\ \A j \in DOMAIN metrics : metrics'[j] = metrics[j]
  <2>1. metrics \in Maps /\ Null \in Metric \cup {Null}
    BY DEF RegistryInv, TypeOK
  <2>2. metrics' = metrics \/ metrics' = Put(metrics, K, Null)
    BY DEF MakeThrows
  <2> HIDE DEF K
  <2>3. \A m \in Metric \cup {Null} :
            /\ Put(metrics, K, m) \in Maps
            /\ DOMAIN Put(metrics, K, m) = DOMAIN metrics \cup {K}
            /\ Put(metrics, K, m)[K] = m
            /\ \A j \in DOMAIN metrics : j # K => Put(metrics, K, m)[j] = metrics[j]
    BY <1>1, <2>1, PutFacts
  <2> QED
    BY <1>1, <2>1, <2>2, <2>3
<1>3. /\ pc' = [pc EXCEPT ![c] = "idle"] /\ creating' = [creating EXCEPT ![c] = FALSE]
      /\ answers' = [answers EXCEPT ![c] = [outcome |-> "threw"]]
      /\ mutex' = NoThread /\ threw' = TRUE
      /\ UNCHANGED <<request, snapshot, crashed>>
      /\ \A d \in Clients : KeyOf(d)' = KeyOf(d)
  BY DEF MakeThrows, Leave, Goto, KeyOf
<1> HIDE DEF K
<1>4. TypeOK'
  BY <1>2, <1>3 DEF RegistryInv, TypeOK
<1>5. MutexInv'
  BY <1>1, <1>2, <1>3 DEF RegistryInv, TypeOK, MutexInv
<1>6. DistinctMetrics'
  BY <1>2 DEF RegistryInv, DistinctMetrics
<1>7. EmptyInv'
  BY <1>2, <1>3 DEF RegistryInv, EmptyInv, NoNullDereference
<1>8. HeldIsRegistered'
  BY <1>1, <1>2, <1>3 DEF RegistryInv, TypeOK, MutexInv, HeldIsRegistered
<1>9. SnapshotIsRegistered'
  BY <1>2, <1>3 DEF RegistryInv, SnapshotIsRegistered
<1> QED
  BY <1>4, <1>5, <1>6, <1>7, <1>8, <1>9 DEF RegistryInv

LEMMA CompareThrowsStep ==
    ASSUME RegistryInv, NEW c \in Clients, CompareThrows(c)
    PROVE  RegistryInv'
<1> USE RegistryAssumption DEF CompareThrows, Goto, Leave, Threads, Nothing, Got
<1>1. TypeOK'
  BY DEF RegistryInv, TypeOK, Metric, MutexInv
<1>2. MutexInv'
  BY DEF RegistryInv, TypeOK, MutexInv, KeyOf
<1>3. DistinctMetrics'
  BY DEF RegistryInv, TypeOK, DistinctMetrics
<1>4. EmptyInv'
  BY DEF RegistryInv, TypeOK, MutexInv, EmptyInv, NoNullDereference
<1>5. HeldIsRegistered'
  BY DEF RegistryInv, TypeOK, MutexInv, HeldIsRegistered, KeyOf
<1>6. SnapshotIsRegistered'
  BY DEF RegistryInv, TypeOK, SnapshotIsRegistered
<1> QED
  BY <1>1, <1>2, <1>3, <1>4, <1>5, <1>6 DEF RegistryInv

LEMMA CompareNullStep ==
    ASSUME RegistryInv, NEW c \in Clients, CompareNull(c)
    PROVE  RegistryInv'
<1> USE RegistryAssumption DEF CompareNull, Goto, Leave, Threads, Nothing, Got
<1>1. TypeOK'
  BY DEF RegistryInv, TypeOK, Metric, MutexInv
<1>2. MutexInv'
  BY DEF RegistryInv, TypeOK, MutexInv, KeyOf
<1>3. DistinctMetrics'
  BY DEF RegistryInv, TypeOK, DistinctMetrics
<1>4. EmptyInv'
  BY DEF RegistryInv, TypeOK, MutexInv, EmptyInv, NoNullDereference
<1>5. HeldIsRegistered'
  BY DEF RegistryInv, TypeOK, MutexInv, HeldIsRegistered, KeyOf
<1>6. SnapshotIsRegistered'
  BY DEF RegistryInv, TypeOK, SnapshotIsRegistered
<1> QED
  BY <1>1, <1>2, <1>3, <1>4, <1>5, <1>6 DEF RegistryInv

LEMMA ReturnStep ==
    ASSUME RegistryInv, NEW c \in Clients, Return(c)
    PROVE  RegistryInv'
<1> USE RegistryAssumption DEF Return, Goto, Leave, Threads, Nothing, Got
<1>1. TypeOK'
  BY KeyOfFacts, MapFacts DEF RegistryInv, TypeOK, Metric, MutexInv
<1>2. MutexInv'
  BY DEF RegistryInv, TypeOK, MutexInv, KeyOf
<1>3. DistinctMetrics'
  BY DEF RegistryInv, TypeOK, DistinctMetrics
<1>4. EmptyInv'
  BY DEF RegistryInv, TypeOK, MutexInv, EmptyInv, NoNullDereference
<1>5. HeldIsRegistered'
  BY DEF RegistryInv, TypeOK, MutexInv, HeldIsRegistered, KeyOf
<1>6. SnapshotIsRegistered'
  BY DEF RegistryInv, TypeOK, SnapshotIsRegistered
<1> QED
  BY <1>1, <1>2, <1>3, <1>4, <1>5, <1>6 DEF RegistryInv

LEMMA FailWithConflictStep ==
    ASSUME RegistryInv, NEW c \in Clients, FailWithConflict(c)
    PROVE  RegistryInv'
<1> USE RegistryAssumption DEF FailWithConflict, Goto, Leave, Threads, Nothing, Got
<1>1. TypeOK'
  BY DEF RegistryInv, TypeOK, Metric, MutexInv
<1>2. MutexInv'
  BY DEF RegistryInv, TypeOK, MutexInv, KeyOf
<1>3. DistinctMetrics'
  BY DEF RegistryInv, TypeOK, DistinctMetrics
<1>4. EmptyInv'
  BY DEF RegistryInv, TypeOK, MutexInv, EmptyInv, NoNullDereference
<1>5. HeldIsRegistered'
  BY DEF RegistryInv, TypeOK, MutexInv, HeldIsRegistered, KeyOf
<1>6. SnapshotIsRegistered'
  BY DEF RegistryInv, TypeOK, SnapshotIsRegistered
<1> QED
  BY <1>1, <1>2, <1>3, <1>4, <1>5, <1>6 DEF RegistryInv

LEMMA CopyAllStep ==
    ASSUME RegistryInv, NEW p \in Pollers, CopyAll(p)
    PROVE  RegistryInv'
<1> USE RegistryAssumption DEF CopyAll, Goto, Leave, Threads, Nothing, Got
<1>1. TypeOK'
  BY DEF RegistryInv, TypeOK, Metric, MutexInv
<1>2. MutexInv'
  BY DEF RegistryInv, TypeOK, MutexInv, KeyOf
<1>3. DistinctMetrics'
  BY DEF RegistryInv, TypeOK, DistinctMetrics
<1>4. EmptyInv'
  BY DEF RegistryInv, TypeOK, MutexInv, EmptyInv, NoNullDereference
<1>5. HeldIsRegistered'
  BY DEF RegistryInv, TypeOK, MutexInv, HeldIsRegistered, KeyOf
<1>6. SnapshotIsRegistered'
  BY DEF RegistryInv, TypeOK, SnapshotIsRegistered
<1> QED
  BY <1>1, <1>2, <1>3, <1>4, <1>5, <1>6 DEF RegistryInv

LEMMA ProcessStep ==
    ASSUME RegistryInv, NEW p \in Pollers, NEW k \in DOMAIN snapshot[p], Process(p, k)
    PROVE  RegistryInv'
<1> USE RegistryAssumption DEF Process, Goto, Leave, Threads, Nothing, Got
<1>0. snapshot[p] \in Maps /\ [j \in DOMAIN snapshot[p] \ {k} |-> snapshot[p][j]] \in Maps
  BY RestrictionIsMap DEF RegistryInv, TypeOK
<1>1. TypeOK'
  <2>1. snapshot' \in [Pollers -> Maps]
    BY <1>0 DEF RegistryInv, TypeOK
  <2>2. crashed' \in BOOLEAN
    OBVIOUS
  <2> QED
    BY <2>1, <2>2 DEF RegistryInv, TypeOK
<1>2. MutexInv'
  BY DEF RegistryInv, TypeOK, MutexInv, KeyOf
<1>3. DistinctMetrics'
  BY DEF RegistryInv, TypeOK, DistinctMetrics
<1>4. EmptyInv'
  <2>1. ASSUME snapshot[p][k] = Null PROVE k \in DOMAIN metrics /\ metrics[k] = Null
    BY <2>1 DEF RegistryInv, SnapshotIsRegistered
  <2>2. crashed' => \E j \in DOMAIN metrics : metrics[j] = Null
    BY <2>1
  <2> QED
    BY <2>2 DEF RegistryInv, EmptyInv, NoNullDereference
<1>5. HeldIsRegistered'
  BY DEF RegistryInv, TypeOK, MutexInv, HeldIsRegistered, KeyOf
<1>6. SnapshotIsRegistered'
  BY DEF RegistryInv, TypeOK, SnapshotIsRegistered
<1> QED
  BY <1>1, <1>2, <1>3, <1>4, <1>5, <1>6 DEF RegistryInv

LEMMA EndReportStep ==
    ASSUME RegistryInv, NEW p \in Pollers, EndReport(p)
    PROVE  RegistryInv'
<1> USE RegistryAssumption DEF EndReport, Goto, Leave, Threads, Nothing, Got
<1>1. TypeOK'
  BY DEF RegistryInv, TypeOK, Metric, MutexInv
<1>2. MutexInv'
  BY DEF RegistryInv, TypeOK, MutexInv, KeyOf
<1>3. DistinctMetrics'
  BY DEF RegistryInv, TypeOK, DistinctMetrics
<1>4. EmptyInv'
  BY DEF RegistryInv, TypeOK, MutexInv, EmptyInv, NoNullDereference
<1>5. HeldIsRegistered'
  BY DEF RegistryInv, TypeOK, MutexInv, HeldIsRegistered, KeyOf
<1>6. SnapshotIsRegistered'
  BY DEF RegistryInv, TypeOK, SnapshotIsRegistered
<1> QED
  BY <1>1, <1>2, <1>3, <1>4, <1>5, <1>6 DEF RegistryInv

(* The invariant holds at the start, every step preserves it.              *)
LEMMA RegistryInvInit == Init => RegistryInv
<1> SUFFICES ASSUME Init PROVE RegistryInv
  OBVIOUS
<1> USE RegistryAssumption DEF Init, Threads, Nothing
<1>1. TypeOK
  BY EmptyIsMap DEF TypeOK
<1>2. DOMAIN Empty = {}
  BY DEF Empty
<1>3. MutexInv
  BY DEF MutexInv
<1>4. DistinctMetrics /\ EmptyInv /\ SnapshotIsRegistered
  BY <1>2 DEF DistinctMetrics, EmptyInv, NoNullDereference, SnapshotIsRegistered
<1>5. HeldIsRegistered
  BY DEF HeldIsRegistered
<1> QED
  BY <1>1, <1>3, <1>4, <1>5 DEF RegistryInv

LEMMA RegistryInvStep == RegistryInv /\ [Next]_vars => RegistryInv'
<1> SUFFICES ASSUME RegistryInv, [Next]_vars PROVE RegistryInv'
  OBVIOUS
<1>1. CASE UNCHANGED vars
  BY <1>1
     DEF vars, RegistryInv, TypeOK, MutexInv, DistinctMetrics, EmptyInv, NoNullDereference,
         HeldIsRegistered, SnapshotIsRegistered, KeyOf
<1>2. ASSUME NEW c \in Clients, ClientStep(c) PROVE RegistryInv'
  BY <1>2, LockStep, FindStep, MakeStep, MakeThrowsStep, CompareThrowsStep, CompareNullStep,
     ReturnStep, FailWithConflictStep DEF ClientStep
<1>3. ASSUME NEW p \in Pollers, PollerStep(p) PROVE RegistryInv'
  BY <1>3, ProcessStep, EndReportStep DEF PollerStep
<1> QED
  BY <1>1, <1>2, <1>3, CallStep, CopyAllStep DEF Next, Crashed

(* Types, the mutex, distinct metrics, and the three guarantees of the     *)
(* registry hold in every state.                                           *)
THEOREM RegistryInvHolds == Spec => []RegistryInv
BY RegistryInvInit, RegistryInvStep, PTL DEF Spec

(* Every reference handed out is, for ever, the registered metric with the *)
(* attributes asked for; reports walk registered metrics.                  *)
THEOREM ReferencesStayValid == Spec => [](HeldIsRegistered /\ SnapshotIsRegistered)
<1>1. RegistryInv => HeldIsRegistered /\ SnapshotIsRegistered
  BY DEF RegistryInv
<1> QED
  BY <1>1, RegistryInvHolds, PTL

(* Threads share a metric exactly if they asked for names with one text.   *)
THEOREM SharedBySameNameHolds == Spec => []SharedBySameName
<1>1. RegistryInv => SharedBySameName
  <2> SUFFICES ASSUME RegistryInv, NEW c \in Clients, NEW d \in Clients,
                      answers[c].outcome = "metric", pc[c] = "idle",
                      answers[d].outcome = "metric", pc[d] = "idle"
               PROVE  answers[c].metric.object = answers[d].metric.object
                          <=> Repr(request[c].name) = Repr(request[d].name)
    BY DEF SharedBySameName
  <2>1. /\ KeyOf(c) \in DOMAIN metrics /\ metrics[KeyOf(c)] = answers[c].metric
        /\ KeyOf(d) \in DOMAIN metrics /\ metrics[KeyOf(d)] = answers[d].metric
    BY DEF RegistryInv, HeldIsRegistered
  <2>2. answers[c].metric \in Metric /\ answers[d].metric \in Metric
    BY DEF RegistryInv, TypeOK
  <2>3. answers[c].metric # Null /\ answers[d].metric # Null
    BY <2>2, RegistryAssumption DEF Metric
  <2> QED
    BY <2>1, <2>3 DEF RegistryInv, DistinctMetrics, KeyOf
<1> QED
  BY <1>1, RegistryInvHolds, PTL

(* A null pointer is dereferenced only where an entry is empty, and an     *)
(* entry is empty only once a constructor threw.                           *)
THEOREM EmptyInvHolds == Spec => []EmptyInv
<1>1. RegistryInv => EmptyInv
  BY DEF RegistryInv
<1> QED
  BY <1>1, RegistryInvHolds, PTL

(* No step replaces or removes a metric.                                   *)
LEMMA NeverReplacedStep == RegistryInv /\ [Next]_vars => NeverReplaced
<1> SUFFICES ASSUME RegistryInv, [Next]_vars PROVE NeverReplaced
  OBVIOUS
<1>1. ASSUME NEW c \in Clients, Make(c) \/ MakeThrows(c) PROVE NeverReplaced
  <2>1. KeyOf(c) \notin DOMAIN metrics /\ KeyOf(c) \in Keys
    BY <1>1, KeyOfFacts DEF Make, MakeThrows, RegistryInv, MutexInv
  <2>2. metrics' = metrics \/ \E m : metrics' = Put(metrics, KeyOf(c), m)
    BY <1>1 DEF Make, MakeThrows
  <2> QED
    BY <2>1, <2>2 DEF NeverReplaced, Put
<1>2. ASSUME ~(\E c \in Clients : Make(c) \/ MakeThrows(c)) PROVE metrics' = metrics
  BY <1>2
     DEF Next, vars, ClientStep, PollerStep, Call, Lock, Find, CompareThrows, CompareNull, Return,
         FailWithConflict, CopyAll, Process, EndReport, Crashed
<1> QED
  BY <1>1, <1>2 DEF NeverReplaced

THEOREM WriteOnceHolds == Spec => WriteOnce
<1>1. RegistryInv /\ [Next]_vars => [NeverReplaced]_vars
  BY NeverReplacedStep
<1> QED
  BY <1>1, RegistryInvHolds, PTL DEF Spec, WriteOnce

----------------------------------------------------------------------------
(* The registry implements the abstract one.                               *)

Store == [k \in Committed |-> metrics[k]]
Pending ==
    [c \in Clients |->
        IF pc[c] = "idle" THEN Nothing ELSE Asked(KeyOf(c), request[c].spec)]

(* A call that ends waits no more; the other clients wait as before.       *)
LEMMA LeavePending ==
    ASSUME RegistryInv, NEW c \in Clients, pc' = [pc EXCEPT ![c] = "idle"], request' = request
    PROVE  Pending' = [Pending EXCEPT ![c] = Nothing]
<1>1. pc'[c] = "idle" /\ \A d \in Clients : d # c => pc'[d] = pc[d]
  BY DEF RegistryInv, TypeOK, Threads
<1>2. \A d \in Clients : KeyOf(d)' = KeyOf(d)
  BY DEF KeyOf
<1> QED
  BY <1>1, <1>2 DEF Pending

(* A call under way waits for the same, wherever in the call it is.        *)
LEMMA SamePending ==
    ASSUME RegistryInv, request' = request,
           \A c \in Clients : pc'[c] = "idle" <=> pc[c] = "idle"
    PROVE  Pending' = Pending
<1>1. \A d \in Clients : KeyOf(d)' = KeyOf(d)
  BY DEF KeyOf
<1> QED
  BY <1>1 DEF Pending

(* A step that leaves the committed entries alone leaves the store alone.  *)
LEMMA SameStore ==
    ASSUME RegistryInv, Committed' = Committed,
           \A k \in Committed : metrics'[k] = metrics[k]
    PROVE  Store' = Store
BY DEF Store

LEMMA OnlyOneCreates ==
    ASSUME RegistryInv, NEW c \in Clients, NEW d \in Clients, mutex = c, creating[d]
    PROVE  d = c
BY DEF RegistryInv, MutexInv

(* A thread that has the lock back or never had it has made nothing.       *)
LEMMA NotCreating ==
    ASSUME RegistryInv, NEW c \in Clients, pc[c] # "compare"
    PROVE  creating[c] = FALSE
BY DEF RegistryInv, MutexInv, TypeOK

(* Making an entry does not commit it.                                     *)
LEMMA MakeStutters ==
    ASSUME RegistryInv, NEW c \in Clients, Make(c)
    PROVE  Store' = Store /\ Pending' = Pending /\ answers' = answers
<1>1. /\ KeyOf(c) \notin DOMAIN metrics
      /\ \E m : metrics' = Put(metrics, KeyOf(c), m)
      /\ creating' = [creating EXCEPT ![c] = TRUE]
      /\ request' = request /\ answers' = answers
  BY DEF Make, RegistryInv, MutexInv
<1>2. \A d \in Clients : creating[d] = FALSE
  BY NotCreating, OnlyOneCreates DEF Make, RegistryInv, MutexInv, TypeOK
<1>3. /\ DOMAIN metrics' = DOMAIN metrics \cup {KeyOf(c)}
      /\ \A k \in DOMAIN metrics : metrics'[k] = metrics[k]
  BY <1>1 DEF Put
<1>4. /\ creating'[c] = TRUE
      /\ \A d \in Clients : d # c => creating'[d] = FALSE
      /\ \A d \in Clients : KeyOf(d)' = KeyOf(d)
  BY <1>1, <1>2 DEF RegistryInv, TypeOK, KeyOf
<1>5. Committed' = Committed
  BY <1>1, <1>2, <1>3, <1>4 DEF Committed
<1>6. Pending' = Pending
  BY <1>1, SamePending DEF Make, Goto, RegistryInv, TypeOK, Threads
<1> QED
  BY <1>1, <1>3, <1>5, <1>6, SameStore DEF Committed

(* An exception leaves the committed entries alone.                        *)
LEMMA ThrowRefuses ==
    ASSUME RegistryInv, NEW c \in Clients,
           MakeThrows(c) \/ CompareThrows(c) \/ FailWithConflict(c)
    PROVE  Store' = Store /\ creating[c] = FALSE
<1>2. creating[c] = FALSE
  <2>1. CASE MakeThrows(c)
    BY <2>1, NotCreating DEF MakeThrows
  <2>2. ASSUME CompareThrows(c) \/ FailWithConflict(c), creating[c] PROVE FALSE
    <3>1. /\ KeyOf(c) \in DOMAIN metrics /\ metrics[KeyOf(c)] # Null
          /\ metrics[KeyOf(c)].spec = request[c].spec
      BY <2>2 DEF RegistryInv, MutexInv
    <3>2. metrics[KeyOf(c)] \in Metric
      BY <3>1, MapFacts DEF RegistryInv, TypeOK
    <3> QED
      BY <2>2, <3>1, <3>2 DEF CompareThrows, FailWithConflict, Metric
  <2>3. creating[c] \in BOOLEAN
    BY DEF RegistryInv, TypeOK
  <2> QED
    BY <2>1, <2>2, <2>3
<1>3. creating' = creating /\ request' = request
  <2>1. creating' = [creating EXCEPT ![c] = FALSE] /\ request' = request
    BY DEF MakeThrows, CompareThrows, FailWithConflict, Leave
  <2>2. creating \in [Clients -> BOOLEAN]
    BY DEF RegistryInv, TypeOK
  <2> QED
    BY <1>2, <2>1, <2>2
<1>4. /\ DOMAIN metrics \subseteq DOMAIN metrics'
      /\ \A k \in DOMAIN metrics' : k \in DOMAIN metrics \/ metrics'[k] = Null
      /\ \A k \in DOMAIN metrics : metrics'[k] = metrics[k]
  <2>1. CASE MakeThrows(c)
    <3>1. KeyOf(c) \notin DOMAIN metrics
      BY <2>1 DEF MakeThrows, RegistryInv, MutexInv
    <3>2. metrics' = metrics \/ metrics' = Put(metrics, KeyOf(c), Null)
      BY <2>1 DEF MakeThrows
    <3> QED
      BY <3>1, <3>2 DEF Put
  <2>2. CASE CompareThrows(c) \/ FailWithConflict(c)
    BY <2>2 DEF CompareThrows, FailWithConflict
  <2> QED
    BY <2>1, <2>2
<1>5. Committed' = Committed
  BY <1>3, <1>4 DEF Committed, KeyOf
<1> QED
  BY <1>2, <1>4, <1>5, SameStore DEF Committed

(* A conflict is with a committed entry.                                   *)
LEMMA ConflictCommitted ==
    ASSUME RegistryInv, NEW c \in Clients, FailWithConflict(c)
    PROVE  KeyOf(c) \in Committed
<1>1. creating[c] = FALSE
  BY ThrowRefuses
<1>2. mutex = c /\ KeyOf(c) \in DOMAIN metrics /\ metrics[KeyOf(c)] # Null
  BY DEF FailWithConflict, RegistryInv, MutexInv
<1>3. \A d \in Clients : creating[d] => d = c
  BY <1>2, OnlyOneCreates
<1> QED
  BY <1>1, <1>2, <1>3 DEF Committed

(* Returning commits the entry the call made, or finds a committed one.    *)
LEMMA ReturnCommits ==
    ASSUME RegistryInv, NEW c \in Clients, Return(c)
    PROVE  LET K == KeyOf(c)
               m == metrics[K]
           IN  /\ answers' = [answers EXCEPT ![c] = Got(K, m)]
               /\ m \in Metric /\ K \in Keys /\ m.spec = request[c].spec
               /\ \/ K \in Committed /\ Store' = Store
                  \/ /\ K \notin Committed
                     /\ \A k \in Committed : metrics[k].object # m.object
                     /\ Store' = [j \in Committed \cup {K} |-> IF j = K THEN m ELSE Store[j]]
<1> DEFINE K == KeyOf(c)
           m == metrics[K]
<1>1. /\ answers' = [answers EXCEPT ![c] = Got(K, m)]
      /\ metrics' = metrics /\ request' = request
      /\ creating' = [creating EXCEPT ![c] = FALSE]
      /\ m # Null /\ K \in DOMAIN metrics /\ mutex = c
  BY DEF Return, Leave, RegistryInv, MutexInv
<1>2. m \in Metric /\ K \in Keys /\ m.spec = request[c].spec
  BY <1>1, MapFacts DEF Return, RegistryInv, TypeOK
<1>3. \A d \in Clients : d # c => creating[d] = FALSE
  BY <1>1, OnlyOneCreates DEF RegistryInv, TypeOK
<1>4. \A d \in Clients : creating'[d] = FALSE
  BY <1>1, <1>3 DEF RegistryInv, TypeOK
<1>5. Committed' = {k \in DOMAIN metrics : metrics[k] # Null}
  BY <1>1, <1>4 DEF Committed
<1>6. CASE ~creating[c]
  <2>1. Committed = {k \in DOMAIN metrics : metrics[k] # Null}
    BY <1>3, <1>6 DEF Committed
  <2> QED
    BY <1>1, <1>2, <1>5, <2>1, SameStore
<1>7. CASE creating[c]
  <2>1. Committed = {k \in DOMAIN metrics : metrics[k] # Null /\ k # K}
    BY <1>3, <1>7 DEF Committed
  <2>2. Committed' = Committed \cup {K} /\ K \notin Committed
    BY <1>1, <1>5, <2>1
  <2>3. \A k \in Committed : metrics[k].object # m.object
    BY <1>1, <2>1 DEF RegistryInv, DistinctMetrics
  <2>4. Store' = [j \in Committed \cup {K} |-> IF j = K THEN m ELSE Store[j]]
    BY <1>1, <2>2 DEF Store
  <2> QED
    BY <1>1, <1>2, <2>2, <2>3, <2>4
<1> QED
  BY <1>6, <1>7

(* Every step of a client or a reporter is one of the abstract registry's, *)
(* or leaves it unchanged.                                                 *)
LEMMA StepSimulates == RegistryInv /\ [Next]_vars => [Abstract!Next]_(Abstract!vars)
<1> SUFFICES ASSUME RegistryInv, [Next]_vars
             PROVE  Abstract!Next \/ (Store' = Store /\ Pending' = Pending /\ answers' = answers)
  BY DEF Abstract!vars, Store, Pending
<1>1. CASE UNCHANGED vars
  <2>1. Committed' = Committed /\ Pending' = Pending
    BY <1>1 DEF vars, Committed, Pending, KeyOf
  <2> QED
    BY <1>1, <2>1 DEF vars, Store
<1>2. ASSUME NEW c \in Clients, NEW n \in Names, NEW s \in Specs, Call(c, n, s)
      PROVE  Abstract!Next
  <2>1. creating[c] = FALSE
    BY <1>2, NotCreating DEF Call
  <2>2. /\ metrics' = metrics /\ creating' = creating
        /\ request'[c].spec = s /\ pc'[c] # "idle" /\ KeyOf(c)' = Repr(n)
    BY <1>2 DEF Call, KeyOf, Goto, RegistryInv, TypeOK, Threads
  <2>3. \A d \in Clients : d # c => /\ KeyOf(d)' = KeyOf(d) /\ request'[d] = request[d]
                                     /\ pc'[d] = pc[d]
    BY <1>2 DEF Call, KeyOf, Goto, RegistryInv, TypeOK, Threads
  <2>4. Store' = Store
    BY <2>1, <2>2, <2>3 DEF Store, Committed
  <2>5. PICK k \in Keys : k = Repr(n)
    BY DEF Keys
  <2>6. Pending' = [Pending EXCEPT ![c] = Asked(k, s)]
    BY <2>2, <2>3, <2>5 DEF Pending
  <2>7. Pending[c] = Nothing
    BY <1>2 DEF Pending, Call
  <2>8. Abstract!Ask(c, k, s)
    BY <1>2, <2>4, <2>6
       DEF Call, Abstract!Ask, Abstract!Nothing, Nothing, Abstract!Asked, Asked, Store, Pending
  <2> QED
    BY <2>7, <2>8 DEF Abstract!Next, Abstract!Nothing, Nothing, Pending
<1>3. ASSUME NEW c \in Clients, Make(c)
      PROVE  Store' = Store /\ Pending' = Pending /\ answers' = answers
  BY <1>3, MakeStutters
<1>4. ASSUME NEW c \in Clients, NEW k \in Keys, NEW s \in Specs,
             k = KeyOf(c), s = request[c].spec, pc[c] # "idle"
      PROVE  Abstract!Reply(c, k, s) => Abstract!Next
  <2>1. Pending[c] = Asked(k, s)
    BY <1>4 DEF Pending
  <2> QED
    BY <2>1 DEF Abstract!Next, Abstract!Asked, Asked, Pending
<1>5. ASSUME NEW c \in Clients, MakeThrows(c) \/ CompareThrows(c)
      PROVE  Abstract!Next
  <2>1. PICK k \in Keys, s \in Specs : k = KeyOf(c) /\ s = request[c].spec
    BY KeyOfFacts DEF RegistryInv, TypeOK
  <2>2. /\ pc[c] # "idle" /\ pc' = [pc EXCEPT ![c] = "idle"] /\ request' = request
        /\ answers' = [answers EXCEPT ![c] = [outcome |-> "threw"]]
        /\ s \in Invalid
    BY <1>5, <2>1 DEF MakeThrows, CompareThrows, Leave, Goto
  <2>3. Pending' = [Pending EXCEPT ![c] = Nothing] /\ Store' = Store
    BY <1>5, <2>2, LeavePending, ThrowRefuses
  <2>4. Abstract!Throw(c, s)
    BY <2>2, <2>3
       DEF Abstract!Throw, Abstract!Answer, Abstract!Nothing, Nothing, Pending, Store
  <2>5. Abstract!Reply(c, k, s)
    BY <2>4 DEF Abstract!Reply
  <2> QED
    BY <1>4, <2>1, <2>2, <2>5
<1>6. ASSUME NEW c \in Clients, FailWithConflict(c)
      PROVE  Abstract!Next
  <2>1. PICK k \in Keys, s \in Specs : k = KeyOf(c) /\ s = request[c].spec
    BY KeyOfFacts DEF RegistryInv, TypeOK
  <2>2. /\ pc[c] # "idle" /\ pc' = [pc EXCEPT ![c] = "idle"] /\ request' = request
        /\ answers' = [answers EXCEPT ![c] = [outcome |-> "conflict"]]
        /\ s \notin Invalid /\ metrics[k].spec # s
    BY <1>6, <2>1 DEF FailWithConflict, Leave, Goto
  <2>3. Pending' = [Pending EXCEPT ![c] = Nothing] /\ Store' = Store
    BY <1>6, <2>2, LeavePending, ThrowRefuses
  <2>4. k \in DOMAIN Store /\ Store[k] = metrics[k]
    BY <1>6, <2>1, ConflictCommitted DEF Store
  <2>5. Abstract!Conflict(c, k, s)
    BY <2>2, <2>3, <2>4
       DEF Abstract!Conflict, Abstract!Answer, Abstract!Nothing, Nothing, Pending, Store
  <2>6. Abstract!Reply(c, k, s)
    BY <2>2, <2>5 DEF Abstract!Reply
  <2> QED
    BY <1>4, <2>1, <2>2, <2>6
<1>7. ASSUME NEW c \in Clients, Return(c)
      PROVE  Abstract!Next
  <2>1. PICK k \in Keys, s \in Specs, m \in Metric :
            k = KeyOf(c) /\ s = request[c].spec /\ m = metrics[KeyOf(c)]
    BY <1>7, KeyOfFacts, ReturnCommits DEF RegistryInv, TypeOK
  <2>2. /\ answers' = [answers EXCEPT ![c] = Got(k, m)] /\ m.spec = s
        /\ \/ k \in Committed /\ Store' = Store
           \/ /\ k \notin Committed
              /\ \A j \in Committed : metrics[j].object # m.object
              /\ Store' = [j \in Committed \cup {k} |-> IF j = k THEN m ELSE Store[j]]
    BY <1>7, <2>1, ReturnCommits
  <2>3. pc[c] # "idle" /\ pc' = [pc EXCEPT ![c] = "idle"] /\ request' = request /\ s \notin Invalid
    BY <1>7, <2>1 DEF Return, Leave, Goto
  <2>4. Pending' = [Pending EXCEPT ![c] = Nothing]
    BY <2>3, LeavePending
  <2>5. DOMAIN Store = Committed /\ \A j \in Committed : Store[j] = metrics[j]
    BY DEF Store
  <2>6. Abstract!Answer(c, Got(k, m))
    BY <2>2, <2>4 DEF Abstract!Answer, Abstract!Nothing, Nothing, Pending
  <2>7. CASE k \in Committed /\ Store' = Store
    <3>1. Store[k] = m
      BY <2>1, <2>5, <2>7
    <3>2. Abstract!Reuse(c, k, s)
      BY <2>2, <2>4, <2>5, <2>7, <3>1
         DEF Abstract!Reuse, Abstract!Answer, Abstract!Nothing, Nothing, Abstract!Got, Got,
             Pending, Store
    <3>3. Abstract!Reply(c, k, s)
      BY <2>3, <3>2 DEF Abstract!Reply
    <3> QED
      BY <1>4, <2>1, <2>3, <3>3
  <2>8. CASE /\ k \notin Committed
             /\ \A j \in Committed : metrics[j].object # m.object
             /\ Store' = [j \in Committed \cup {k} |-> IF j = k THEN m ELSE Store[j]]
    <3>1. Abstract!Create(c, k, m)
      BY <2>2, <2>3, <2>5, <2>6, <2>8
         DEF Abstract!Create, Abstract!Fresh, Abstract!Got, Got, Store
    <3>2. PICK o \in Objects : m = [spec |-> s, object |-> o]
      BY <2>2 DEF Metric
    <3>3. Abstract!Create(c, k, [spec |-> s, object |-> o])
      BY <3>1, <3>2
    <3>4. Abstract!Reply(c, k, s)
      BY <3>3 DEF Abstract!Reply
    <3> QED
      BY <1>4, <2>1, <2>3, <3>4
  <2> QED
    BY <2>2, <2>7, <2>8
<1>8. ASSUME ~UNCHANGED vars,
             ~\E c \in Clients :
                 \/ \E n \in Names, s \in Specs : Call(c, n, s)
                 \/ Make(c) \/ MakeThrows(c) \/ CompareThrows(c) \/ FailWithConflict(c)
                 \/ Return(c)
      PROVE  Store' = Store /\ Pending' = Pending /\ answers' = answers
  <2>1. UNCHANGED <<metrics, request, creating, answers>>
    BY <1>8
       DEF Next, ClientStep, PollerStep, Lock, Find, CompareNull, CopyAll, Process, EndReport,
           Crashed
  <2>2. Committed' = Committed
    BY <2>1 DEF Committed, KeyOf
  <2>3. \A c \in Clients : pc'[c] = "idle" <=> pc[c] = "idle"
    <3>1. CASE \E c \in Clients : Lock(c) \/ Find(c)
      BY <3>1 DEF Lock, Find, Goto, RegistryInv, TypeOK, Threads
    <3>2. CASE \E p \in Pollers : CopyAll(p) \/ EndReport(p)
      BY <3>2, RegistryAssumption DEF CopyAll, EndReport, Goto, RegistryInv, TypeOK, Threads
    <3>3. CASE ~(\E c \in Clients : Lock(c) \/ Find(c))
               /\ ~(\E p \in Pollers : CopyAll(p) \/ EndReport(p))
      BY <1>8, <3>3 DEF Next, ClientStep, PollerStep, CompareNull, Process, Crashed, vars
    <3> QED
      BY <3>1, <3>2, <3>3
  <2> QED
    BY <2>1, <2>2, <2>3, SamePending DEF Store
<1> QED
  BY <1>1, <1>2, <1>3, <1>5, <1>6, <1>7, <1>8

(* Every call is answered as if made at one instant, by what it asked for  *)
(* and what is registered then, whatever the interleaving.                 *)
THEOREM ImplementsWriteOnceHolds == Spec => ImplementsWriteOnce
<1>1. Init => Abstract!Init
  BY DEF Init, Abstract!Init, Committed, Empty, Nothing, Abstract!Nothing, Threads
<1> QED
  BY <1>1, StepSimulates, RegistryInvHolds, PTL DEF Spec, ImplementsWriteOnce, Abstract!Spec
=============================================================================
