-------------------------- MODULE UdpReporterProofs --------------------------
(***************************************************************************)
(* Proofs about UdpReporter for every list of metrics, set of addresses    *)
(* and number of messages between two connections.                         *)
(***************************************************************************)
EXTENDS UdpReporter, TLAPS

(* What the counter of messages, kept modulo reconnect_after_, can be.     *)
LEMMA ModBelow ==
    ASSUME NEW n \in Nat, n < ReconnectAfter
    PROVE  n % ReconnectAfter = n
BY UdpAssumption

LEMMA ModSelf == ReconnectAfter % ReconnectAfter = 0
BY UdpAssumption

LEMMA ModRange ==
    ASSUME NEW n \in Nat
    PROVE  n % ReconnectAfter \in 0 .. ReconnectAfter - 1
BY UdpAssumption

(* One more message, of a connection that is not yet to be given up.       *)
LEMMA CounterStep ==
    ASSUME NEW n \in 1 .. ReconnectAfter, n % ReconnectAfter # 0
    PROVE  /\ n + 1 \in 1 .. ReconnectAfter
           /\ ((n % ReconnectAfter) + 1) % ReconnectAfter = (n + 1) % ReconnectAfter
<1>1. n # ReconnectAfter
  BY ModSelf
<1>2. n \in Nat /\ n < ReconnectAfter
  BY <1>1, UdpAssumption
<1> QED
  BY <1>2, ModBelow, UdpAssumption

LEMMA GivenUpWhenFull ==
    ASSUME NEW n \in 1 .. ReconnectAfter, n % ReconnectAfter = 0
    PROVE  n = ReconnectAfter
<1>1. ASSUME n < ReconnectAfter PROVE FALSE
  BY <1>1, ModBelow, UdpAssumption
<1> QED
  BY <1>1, UdpAssumption

----------------------------------------------------------------------------
(* The parts of the invariant, one lemma for each action that disturbs the *)
(* sender or the counter.                                                  *)

LEMMA MetricsLength == Len(Metrics) \in Nat
BY UdpAssumption

LEMMA NextMessageWalks ==
    ASSUME TypeOK, NextMessage
    PROVE  /\ pc' \in {"send", "walk"} /\ metric' = metric
           /\ message' \in Nat
BY DEF TypeOK, NextMessage

LEMMA TestCounterStep ==
    ASSUME SenderInv, TestCounter
    PROVE  SenderInv'
<1> USE UdpAssumption DEF TestCounter
<1>1. TypeOK /\ CounterInv /\ sockets = conns /\ (~connected => conns = {})
  BY DEF SenderInv
<1>2. sent + 1 \in Nat /\ 0 \in Nat /\ 1 \in Nat
  BY <1>1 DEF TypeOK
<1>3. (sent + 1) % ReconnectAfter \in 0 .. ReconnectAfter - 1
  BY <1>2, ModRange
<1>4. TypeOK'
  BY <1>1, <1>3 DEF TypeOK, Disconnected
<1>5. CASE ~connected
  BY <1>1, <1>4, <1>5 DEF SenderInv, CounterInv
<1>6. CASE connected /\ sent = 0
  <2>1. /\ connected' = FALSE /\ conns' = {} /\ sockets' = {} /\ pc' = "connect"
        /\ sent' = 1 % ReconnectAfter /\ carried' = carried /\ first' = first
    BY <1>1, <1>6 DEF Disconnected
  <2>2. carried # 0
    BY <1>1, <1>6 DEF CounterInv
  <2>3. CounterInv'
    BY <2>1, <2>2 DEF CounterInv
  <2> QED
    BY <1>4, <2>1, <2>3 DEF SenderInv
<1>7. CASE connected /\ sent # 0
  <2>1. /\ connected' /\ UNCHANGED <<conns, sockets, carried, first>>
        /\ pc = "send" /\ pc' = "deliver" /\ sent' = (sent + 1) % ReconnectAfter
    BY <1>7
  <2>2. ~first /\ carried \in 1 .. ReconnectAfter /\ sent = carried % ReconnectAfter
    BY <1>1, <1>7, <2>1 DEF CounterInv, TypeOK
  <2>3. carried + 1 \in 1 .. ReconnectAfter /\ sent' = (carried + 1) % ReconnectAfter
    BY <1>7, <2>1, <2>2, CounterStep
  <2>4. CounterInv'
    BY <2>1, <2>2, <2>3 DEF CounterInv
  <2> QED
    BY <1>1, <1>4, <2>1, <2>4 DEF SenderInv
<1> QED
  BY <1>1, <1>5, <1>6, <1>7 DEF TypeOK

LEMMA ConnectStep ==
    ASSUME SenderInv, Connect
    PROVE  SenderInv'
<1> USE UdpAssumption
<1>1. PICK S \in SUBSET Addresses : conns' = S /\ sockets' = sockets \cup S
  BY DEF Connect
<1>2. /\ TypeOK /\ CounterInv /\ pc = "connect" /\ ~connected /\ sockets = {}
      /\ connected' = TRUE /\ pc' = "deliver" /\ carried' = 0
      /\ first' = (first /\ carried = 0)
      /\ UNCHANGED <<net, sent, metric, message>>
  BY DEF SenderInv, Connect
<1>3. TypeOK'
  BY <1>1, <1>2 DEF TypeOK
<1>4. CASE first /\ carried = 0
  <2>1. first' /\ sent' = 0
    BY <1>2, <1>4 DEF CounterInv
  <2> QED
    BY <1>1, <1>2, <1>3, <2>1 DEF SenderInv, CounterInv
<1>5. CASE ~(first /\ carried = 0)
  <2>1. ~first' /\ sent' = 1 % ReconnectAfter
    BY <1>2, <1>5 DEF CounterInv
  <2>2. 0 + 1 = 1 /\ 1 \in 1 .. ReconnectAfter
    OBVIOUS
  <2>3. CounterInv'
    BY <1>2, <2>1, <2>2 DEF CounterInv
  <2> QED
    BY <1>1, <1>2, <1>3, <2>3 DEF SenderInv
<1> QED
  BY <1>4, <1>5

LEMMA DeliverStep ==
    ASSUME SenderInv, Deliver
    PROVE  SenderInv'
<1> USE UdpAssumption
<1>1. /\ TypeOK /\ CounterInv /\ pc = "deliver" /\ connected
      /\ UNCHANGED <<net, sender, first>>
  BY DEF SenderInv, Deliver
<1>2. carried + 1 \in 1 .. ReconnectAfter
  BY <1>1 DEF CounterInv, TypeOK
<1>3. carried' = carried + 1
  BY <1>1, <1>2 DEF Deliver, TypeOK
<1>4. pc' \in {"send", "walk"} /\ metric' = metric /\ message' \in Nat
  BY <1>1, NextMessageWalks DEF Deliver
<1>5. TypeOK'
  BY <1>1, <1>2, <1>3, <1>4 DEF TypeOK, sender
<1>6. CounterInv'
  BY <1>1, <1>2, <1>3, <1>4 DEF CounterInv, sender
<1> QED
  BY <1>1, <1>4, <1>5, <1>6 DEF SenderInv, sender

LEMMA SenderStep ==
    ASSUME SenderInv, [Next]_vars
    PROVE  SenderInv'
<1> USE UdpAssumption, MetricsLength
<1>1. CASE TestCounter
  BY <1>1, TestCounterStep
<1>2. CASE Connect
  BY <1>2, ConnectStep
<1>3. CASE Deliver
  BY <1>3, DeliverStep
<1>4. CASE ResolveFails
  <2>1. pc' \in {"send", "walk"} /\ metric' = metric /\ message' \in Nat
    BY <1>4, NextMessageWalks DEF ResolveFails, SenderInv
  <2> QED
    BY <1>4, <2>1 DEF ResolveFails, SenderInv, TypeOK, CounterInv, sender
<1>5. CASE BeginRun
  BY <1>5 DEF BeginRun, SenderInv, TypeOK, CounterInv, sender
<1>6. CASE NextMetric
  BY <1>6 DEF NextMetric, SenderInv, TypeOK, CounterInv, sender
<1>7. CASE EndRun
  BY <1>7 DEF EndRun, SenderInv, TypeOK, CounterInv, sender
<1>8. CASE Destroy
  BY <1>8 DEF Destroy, Disconnected, SenderInv, TypeOK, CounterInv
<1>9. CASE NetChanges
  BY <1>9 DEF NetChanges, SenderInv, TypeOK, CounterInv, sender, walk
<1>10. CASE UNCHANGED vars
  BY <1>10 DEF vars, SenderInv, TypeOK, CounterInv, sender, walk
<1> QED
  BY <1>1, <1>2, <1>3, <1>4, <1>5, <1>6, <1>7, <1>8, <1>9, <1>10 DEF Next, RunStep

(* The sender's sockets are those of its connections, and its counter says *)
(* how many messages the connection has carried.                           *)
THEOREM SenderInvHolds == Spec => []SenderInv
<1>1. ASSUME Init PROVE SenderInv
  <2>1. TypeOK
    <3>1. 0 \in 0 .. ReconnectAfter - 1 /\ 0 \in 0 .. ReconnectAfter
      BY UdpAssumption
    <3>2. 0 \in 0 .. Len(Metrics)
      BY MetricsLength
    <3> QED
      BY <1>1, <3>1, <3>2 DEF Init, TypeOK
  <2> QED
    BY <1>1, <2>1 DEF Init, SenderInv, CounterInv
<1> QED
  BY <1>1, SenderStep, PTL DEF Spec

(* A connection is given up after one message if it is the first, and      *)
(* after reconnect_after messages if it is a later one.                    *)
THEOREM ReconnectsOnTimeHolds == Spec => ReconnectsOnTime
<1>1. SenderInv /\ [Next]_vars
         => [connected /\ ~connected' /\ pc = "send"
               => carried = IF first THEN 1 ELSE ReconnectAfter]_vars
  <2> SUFFICES ASSUME SenderInv, Next, connected, ~connected', pc = "send"
               PROVE  carried = IF first THEN 1 ELSE ReconnectAfter
    OBVIOUS
  <2>1. TestCounter \/ NetChanges
    BY DEF Next, RunStep, BeginRun, NextMetric, EndRun, ResolveFails, Connect, Deliver,
           Destroy
  <2>2. sent = 0
    BY <2>1 DEF TestCounter, NetChanges, sender
  <2>3. IF first THEN carried = 1
        ELSE carried \in 1 .. ReconnectAfter /\ carried % ReconnectAfter = 0
    BY <2>2 DEF SenderInv, CounterInv, TypeOK
  <2> QED
    BY <2>3, GivenUpWhenFull
<1> QED
  BY <1>1, SenderInvHolds, PTL DEF Spec, ReconnectsOnTime
=============================================================================
