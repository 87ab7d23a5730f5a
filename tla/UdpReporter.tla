----------------------------- MODULE UdpReporter -----------------------------
(***************************************************************************)
(* medida::reporting::UdpReporter (src/src/medida/reporting/               *)
(* udp_reporter.cc): run() sends a message for each number of each metric, *)
(* through a UdpSender that connects when it must and disconnects after a  *)
(* number of messages, to find the addresses of its host anew.             *)
(*                                                                         *)
(* One thread runs it: UdpSender is `not thread safe', and OneLoop of      *)
(* PollingReporter is what keeps the loop alone.  The texts of messages    *)
(* are left out.  messages_sent_ is kept modulo reconnect_after_ (at 2^64  *)
(* the word wraps and one connection may be shorter).                      *)
(***************************************************************************)
EXTENDS Integers, Sequences

CONSTANTS
    Metrics,         \* the kinds of the metrics in the copied map, in its order
    Addresses,       \* the addresses of the host
    ReconnectAfter   \* reconnect_after_

Kinds == {"counter", "value", "meter", "histogram", "timer"}

ASSUME UdpAssumption ==
    /\ Metrics \in Seq(Kinds)
    /\ ReconnectAfter \in Nat \ {0}    \* with 0, send() would divide by it

VARIABLES
    net,        \* "up", or "down": any call may fail
    connected,  \* connected_
    conns,      \* connections_, by the address each is connected to
    sockets,    \* the sockets of the sender that are open
    sent,       \* messages_sent_ modulo ReconnectAfter
    pc,         \* where the thread is
    metric,     \* the metric of this iteration of run(), 0 outside it
    message,    \* the message of process()
    carried,    \* history: messages given to this connection, as far as it matters
    first       \* history: this connection, or the next, is the first

sender == <<connected, conns, sockets, sent>>
walk == <<pc, metric, message>>
vars == <<net, sender, walk, carried, first>>

(* What each process() sends, in its order.                                *)
Rates == <<"mean_rate", "1min_rate", "5min_rate", "15min_rate">>
Quantiles == <<"median", "75pct", "95pct", "98pct", "99pct", "999pct">>
Extremes == <<"min", "max", "mean", "std_dev">>

MessagesOf ==
    [counter |-> <<"count">>,
     value |-> <<"value">>,
     meter |-> <<"count">> \o Rates,
     histogram |-> Extremes \o Quantiles,
     timer |-> <<"count">> \o Rates \o Extremes \o Quantiles]

Init ==
    /\ net \in {"up", "down"}
    /\ connected = FALSE
    /\ conns = {}
    /\ sockets = {}
    /\ sent = 0
    /\ pc = "idle" /\ metric = 0 /\ message = 0
    /\ carried = 0
    /\ first = TRUE

----------------------------------------------------------------------------
(* Wrong variants of steps below, for the mutation runs only.              *)

CounterUntested ==
    /\ pc = "send"
    /\ sent' = IF connected THEN (sent + 1) % ReconnectAfter ELSE sent
    /\ pc' = IF connected THEN "deliver" ELSE "connect"
    /\ UNCHANGED <<net, connected, conns, sockets, metric, message, carried, first>>

CounterOfAllMessages ==
    /\ pc = "send"
    /\ sent' = (sent + 1) % ReconnectAfter
    /\ IF connected /\ sent # 0
       THEN pc' = "deliver" /\ UNCHANGED <<connected, conns, sockets>>
       ELSE pc' = "connect" /\ connected' = FALSE /\ conns' = {} /\ sockets' = {}
    /\ UNCHANGED <<net, metric, message, carried, first>>

ConnectLeavesSockets ==
    /\ pc = "connect"
    /\ \E S \in SUBSET Addresses :
          /\ net = "up" => S = Addresses
          /\ conns' = S
          /\ sockets' = Addresses
    /\ connected' = TRUE
    /\ first' = (first /\ carried = 0)
    /\ carried' = 0
    /\ pc' = "deliver"
    /\ UNCHANGED <<net, sent, metric, message>>

----------------------------------------------------------------------------
(* run(): for each metric its messages, each sent before the next is made. *)

BeginRun ==
    /\ pc = "idle"
    /\ pc' = "walk" /\ metric' = 0 /\ UNCHANGED message
    /\ UNCHANGED <<net, sender, carried, first>>

NextMetric ==
    /\ pc = "walk" /\ metric < Len(Metrics)
    /\ pc' = "send" /\ metric' = metric + 1 /\ message' = 1
    /\ UNCHANGED <<net, sender, carried, first>>

EndRun ==
    /\ pc = "walk" /\ metric = Len(Metrics)
    /\ pc' = "idle" /\ metric' = 0 /\ message' = 0
    /\ UNCHANGED <<net, sender, carried, first>>

(* The message has been sent, or given up.                                 *)
NextMessage ==
    IF message < Len(MessagesOf[Metrics[metric]])
    THEN pc' = "send" /\ message' = message + 1 /\ UNCHANGED metric
    ELSE pc' = "walk" /\ UNCHANGED <<metric, message>>

----------------------------------------------------------------------------
(* UdpSender::send().  The counter advances only while connected.          *)

Disconnected == connected' = FALSE /\ conns' = {} /\ sockets' = sockets \ conns

TestCounter ==
    /\ pc = "send"
    /\ sent' = IF connected THEN (sent + 1) % ReconnectAfter ELSE sent
    /\ IF connected /\ sent = 0
       THEN Disconnected
       ELSE UNCHANGED <<connected, conns, sockets>>
    /\ pc' = IF connected /\ sent # 0 THEN "deliver" ELSE "connect"
    /\ UNCHANGED <<net, metric, message, carried, first>>

(* getaddrinfo() fails: this message is dropped, the next tries again.     *)
ResolveFails ==
    /\ pc = "connect" /\ net = "down"
    /\ NextMessage
    /\ UNCHANGED <<net, sender, carried, first>>

(* An address whose socket cannot be made or connected is left out, be it  *)
(* the last: the sender is connected to nobody then.                       *)
Connect ==
    /\ pc = "connect"
    /\ \E S \in SUBSET Addresses :
          /\ net = "up" => S = Addresses
          /\ conns' = S
          /\ sockets' = sockets \cup S
    /\ connected' = TRUE
    /\ first' = (first /\ carried = 0)
    /\ carried' = 0
    /\ pc' = "deliver"
    /\ UNCHANGED <<net, sent, metric, message>>

(* do_send(): failures are logged and ignored.                             *)
Deliver ==
    /\ pc = "deliver"
    /\ carried' = IF carried > ReconnectAfter THEN carried ELSE carried + 1
    /\ NextMessage
    /\ UNCHANGED <<net, sender, first>>

(* ~UdpSender(), once no run is under way.                                 *)
Destroy ==
    /\ pc = "idle"
    /\ pc' = "gone"
    /\ IF connected THEN Disconnected ELSE UNCHANGED <<connected, conns, sockets>>
    /\ UNCHANGED <<net, sent, metric, message, carried, first>>

(* The network fails and recovers as it likes.                             *)
NetChanges ==
    /\ net' \in {"up", "down"} \ {net}
    /\ UNCHANGED <<sender, walk, carried, first>>

RunStep ==
    BeginRun \/ NextMetric \/ EndRun \/ TestCounter \/ ResolveFails \/ Connect \/ Deliver

Next == RunStep \/ Destroy \/ NetChanges

Spec == Init /\ [][Next]_vars

(* A started reporter runs again and again (KeepsReporting); run() and the *)
(* system calls it makes return.                                           *)
FairSpec == Spec /\ WF_vars(RunStep)

----------------------------------------------------------------------------
(* Properties.                                                             *)

TypeOK ==
    /\ net \in {"up", "down"}
    /\ connected \in BOOLEAN /\ first \in BOOLEAN
    /\ conns \subseteq Addresses /\ sockets \subseteq Addresses
    /\ sent \in 0 .. ReconnectAfter - 1
    /\ pc \in {"idle", "walk", "send", "connect", "deliver", "gone"}
    /\ metric \in 0 .. Len(Metrics)
    /\ message \in Nat
    /\ carried \in 0 .. ReconnectAfter

(* The message that made a connection is not counted (on the first one) or *)
(* was counted before (on the others): where the counter stands tells how  *)
(* many messages the connection has carried, but for the one in hand, and  *)
(* between connections whether the next one is the first.                  *)
CounterInv ==
    LET given == carried + (IF pc = "deliver" THEN 1 ELSE 0)
    IN  IF connected
        THEN IF first THEN sent = 0 /\ given = 1
             ELSE given \in 1 .. ReconnectAfter /\ sent = given % ReconnectAfter
        ELSE pc = "gone"
             \/ sent = IF first /\ carried = 0 THEN 0 ELSE 1 % ReconnectAfter

(* No socket is open but those of the connections, whatever call failed,   *)
(* and none when the sender is disconnected or destroyed; disconnect() and *)
(* reconnect() find the state they assert.                                 *)
SenderInv ==
    /\ TypeOK
    /\ sockets = conns
    /\ ~connected => conns = {}
    /\ pc = "gone" \/ pc = "connect" => ~connected
    /\ pc = "deliver" => connected
    /\ CounterInv

(* A connection is given up after as many messages as were asked for, only *)
(* the first one after one.                                                *)
ReconnectsOnTime ==
    [][connected /\ ~connected' /\ pc = "send"
         => carried = IF first THEN 1 ELSE ReconnectAfter]_vars

(* When the network stays up from some moment on, a message is sent to all *)
(* addresses again and again, though the sender may have been connected to *)
(* nobody, unless the reporter is destroyed.                               *)
Heals ==
    <>[](net = "up") => []<>(pc = "gone" \/ (pc = "deliver" /\ conns = Addresses))
=============================================================================
