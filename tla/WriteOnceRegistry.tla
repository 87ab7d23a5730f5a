------------------------- MODULE WriteOnceRegistry -------------------------
(***************************************************************************)
(* What a registry of metrics promises.  A client asks for a key and       *)
(* attributes and is answered once, in one atomic step: with a metric made *)
(* for it if the key is free, with the very metric kept under the key if   *)
(* that has these attributes, with a conflict if it has others, with an    *)
(* exception if the attributes are invalid.  Nothing is ever replaced or   *)
(* removed.                                                                *)
(***************************************************************************)
CONSTANTS Clients, Keys, Specs, Invalid, Objects

VARIABLES
    store,   \* from the keys in use to their metrics
    asked,   \* what each client waits for, or Nothing
    answers  \* the outcome of each client's last call

vars == <<store, asked, answers>>

Nothing == [outcome |-> "none"]
Asked(k, s) == [key |-> k, spec |-> s]
Got(k, m) == [outcome |-> "metric", key |-> k, metric |-> m]

Init ==
    /\ store = [k \in {} |-> Nothing]
    /\ asked = [c \in Clients |-> Nothing]
    /\ answers = [c \in Clients |-> Nothing]

Ask(c, k, s) ==
    /\ asked' = [asked EXCEPT ![c] = Asked(k, s)]
    /\ answers' = [answers EXCEPT ![c] = Nothing]
    /\ UNCHANGED store

Answer(c, answer) ==
    /\ answers' = [answers EXCEPT ![c] = answer]
    /\ asked' = [asked EXCEPT ![c] = Nothing]

Fresh(o) == \A k \in DOMAIN store : store[k].object # o

Create(c, k, m) ==
    /\ k \notin DOMAIN store
    /\ m.spec \notin Invalid
    /\ Fresh(m.object)
    /\ store' = [j \in DOMAIN store \cup {k} |-> IF j = k THEN m ELSE store[j]]
    /\ Answer(c, Got(k, m))

Reuse(c, k, s) ==
    /\ k \in DOMAIN store
    /\ store[k].spec = s
    /\ Answer(c, Got(k, store[k]))
    /\ UNCHANGED store

Conflict(c, k, s) ==
    /\ k \in DOMAIN store
    /\ store[k].spec # s
    /\ Answer(c, [outcome |-> "conflict"])
    /\ UNCHANGED store

Throw(c, s) ==
    /\ s \in Invalid
    /\ Answer(c, [outcome |-> "threw"])
    /\ UNCHANGED store

(* A call is answered by the key and the attributes it asked for.          *)
Reply(c, k, s) ==
    \/ Throw(c, s)
    \/ s \notin Invalid /\ (Reuse(c, k, s) \/ Conflict(c, k, s))
    \/ \E o \in Objects : Create(c, k, [spec |-> s, object |-> o])

Next ==
    \E c \in Clients :
        LET request == asked[c]
        IN  \E k \in Keys, s \in Specs :
                \/ request = Nothing /\ Ask(c, k, s)
                \/ request = Asked(k, s) /\ Reply(c, k, s)

Spec == Init /\ [][Next]_vars
=============================================================================
