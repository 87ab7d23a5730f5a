------------------------ MODULE ExpDecaySampleProofs ------------------------
(***************************************************************************)
(* Theorems about ExpDecaySample for any threads, values, draws, size of   *)
(* the reservoir, threshold and movement of the clock: the sample holds    *)
(* the values of the highest priorities, through every rescaling and       *)
(* clear(), and its priorities stay within one threshold and one draw.     *)
(* Then about Snapshot, for every function from a finite set to integers:  *)
(* the quantiles split the values and rise.                                *)
(***************************************************************************)
EXTENDS ExpDecaySample, FiniteSetTheorems, TLAPS

----------------------------------------------------------------------------
(* Finite sets.                                                            *)

(* Induction over the subsets of a finite set, as the least counterexample.*)
LEMMA MinimalSubset ==
    ASSUME NEW S, IsFiniteSet(S), NEW T \in SUBSET SUBSET S, T # {}
    PROVE  \E U \in T : \A V \in T : V \subseteq U => V = U
<1>1. IsWellFoundedOn(StrictSubsetOrdering(S), SUBSET S)
  BY FS_FiniteSubsetsOfFinite, FS_StrictSubsetOrderingWellFounded, Zenon
<1>2. PICK U \in T : \A V \in T : ~(<<V, U>> \in StrictSubsetOrdering(S))
  BY <1>1, WFMin, Zenon
<1>3. ASSUME NEW V \in T, V \subseteq U, V # U PROVE FALSE
  BY <1>2, <1>3, Zenon DEF StrictSubsetOrdering
<1> QED
  BY <1>3, Zenon

(* A finite set of integers has a least and a greatest element.            *)
LEMMA LeastAndGreatest ==
    ASSUME NEW S, IsFiniteSet(S), S \subseteq Int, S # {}
    PROVE  /\ \E k \in S : \A l \in S : k <= l
           /\ \E k \in S : \A l \in S : l <= k
<1> DEFINE Ends(U) == \E a, b \in U : \A l \in U : a <= l /\ l <= b
           T == {U \in SUBSET S : U # {} /\ ~Ends(U)}
<1>1. ASSUME T # {} PROVE FALSE
  <2>0. T \in SUBSET SUBSET S
    OBVIOUS
  <2>1. PICK U \in T : \A V \in T : V \subseteq U => V = U
    <3> HIDE DEF T
    <3>1. \E U \in T : \A V \in T : V \subseteq U => V = U
      BY ONLY IsFiniteSet(S), <1>1, <2>0, MinimalSubset, SMT
    <3> QED
      BY <3>1
  <2>2. PICK x \in U : TRUE
    OBVIOUS
  <2> DEFINE V == U \ {x}
  <2>3. CASE V = {}
    BY <2>2, <2>3
  <2>4. CASE V # {}
    <3>1. Ends(V)
      <4>1. V \subseteq U /\ V # U /\ V \in SUBSET S
        BY <2>2, <2>1
      <4> QED
        BY <4>1, <2>1, <2>4, Zenon
    <3>2. PICK a, b \in V : \A l \in V : a <= l /\ l <= b
      BY <3>1
    <3> DEFINE c == IF x < a THEN x ELSE a
               d == IF x > b THEN x ELSE b
    <3>3. /\ U = V \cup {x} /\ U \subseteq Int /\ V \subseteq Int /\ {x, a, b} \subseteq Int
      BY <2>2, <3>2, <2>1
    <3>4. c \in U /\ d \in U
      BY <3>3
    <3> HIDE DEF V, Ends
    <3>5. ASSUME NEW l \in U PROVE c <= l /\ l <= d
      BY <3>2, <3>3
    <3>6. Ends(U)
      BY <3>4, <3>5 DEF Ends
    <3> QED
      BY <3>6, <2>1
  <2> QED
    BY <2>3, <2>4
<1>2. Ends(S)
  BY <1>1
<1> QED
  BY <1>2

(* Cardinalities of a set with one element more or less.                   *)
LEMMA OneMore ==
    ASSUME NEW S, IsFiniteSet(S), NEW x
    PROVE  /\ IsFiniteSet(S \cup {x}) /\ Cardinality(S) \in Nat
           /\ x \in S => Cardinality(S \cup {x}) = Cardinality(S)
           /\ x \notin S => Cardinality(S \cup {x}) = Cardinality(S) + 1
BY FS_AddElement, FS_CardinalityType

(* A finite set without one of its elements.                               *)
LEMMA OneLess ==
    ASSUME NEW S, IsFiniteSet(S), NEW x \in S
    PROVE  /\ IsFiniteSet(S \ {x}) /\ Cardinality(S) \in Nat
           /\ Cardinality(S \ {x}) = Cardinality(S) - 1 /\ Cardinality(S) >= 1
<1>1. /\ IsFiniteSet(S \ {x}) /\ Cardinality(S \ {x}) = Cardinality(S) - 1
  BY FS_RemoveElement
<1>2. Cardinality(S \ {x}) \in Nat /\ Cardinality(S) \in Nat
  BY <1>1, FS_CardinalityType
<1> QED
  BY <1>1, <1>2

(* Subsets have no more elements.                                          *)
LEMMA Smaller ==
    ASSUME NEW S, IsFiniteSet(S), NEW T, T \subseteq S
    PROVE  /\ IsFiniteSet(T) /\ Cardinality(T) \in Nat /\ Cardinality(S) \in Nat
           /\ Cardinality(T) <= Cardinality(S)
BY FS_Subset, FS_CardinalityType

(* Only the empty set has none.                                            *)
LEMMA NoElements ==
    ASSUME NEW S, IsFiniteSet(S)
    PROVE  Cardinality(S) \in Nat /\ (Cardinality(S) = 0 <=> S = {})
BY FS_EmptySet, FS_CardinalityType

(* What a function makes of a finite set.                                  *)
LEMMA FiniteImage ==
    ASSUME NEW S, IsFiniteSet(S), NEW f, f \in [S -> {f[x] : x \in S}]
    PROVE  LET T == {f[x] : x \in S}
           IN  /\ IsFiniteSet(T) /\ Cardinality(T) <= Cardinality(S)
               /\ (\A x, y \in S : f[x] = f[y] => x = y) => Cardinality(T) = Cardinality(S)
<1> DEFINE T == {f[x] : x \in S}
<1>1. f \in Surjection(S, T)
  BY DEF Surjection
<1>2. ASSUME \A x, y \in S : f[x] = f[y] => x = y PROVE f \in Injection(S, T)
  BY <1>2 DEF Injection, IsInjective
<1> HIDE DEF T
<1>3. /\ IsFiniteSet(T) /\ Cardinality(T) <= Cardinality(S)
      /\ Cardinality(T) = Cardinality(S) <=> f \in Injection(S, T)
  BY <1>1, FS_Surjection
<1> QED
  BY <1>2, <1>3 DEF T

----------------------------------------------------------------------------
(* The map of priorities to values.                                        *)

IsMap(m) == IsFiniteSet(DOMAIN m) /\ DOMAIN m \subseteq Int /\ m \in [DOMAIN m -> Int]

(* What a map holds, with the priorities as they are before the start is   *)
(* taken from them.                                                        *)
Pairs(m, s) == {<<k + s, m[k]>> : k \in DOMAIN m}

(* A map with one more key, and its size.                                  *)
LEMMA WithIsMap ==
    ASSUME NEW m, IsMap(m), NEW key \in Int, NEW v \in Int
    PROVE  IsMap(With(m, key, v))
<1>1. IsFiniteSet(DOMAIN m)
  BY DEF IsMap
<1>2. IsFiniteSet(DOMAIN m \cup {key})
  BY <1>1, FS_AddElement
<1> QED
  BY <1>2 DEF With, IsMap

LEMMA WithCounted ==
    ASSUME NEW m, IsMap(m), NEW key, NEW v
    PROVE  Cardinality(DOMAIN With(m, key, v))
               = IF key \in DOMAIN m THEN Cardinality(DOMAIN m) ELSE Cardinality(DOMAIN m) + 1
<1>1. IsFiniteSet(DOMAIN m)
  BY DEF IsMap
<1>2. Cardinality(DOMAIN m \cup {key})
          = IF key \in DOMAIN m THEN Cardinality(DOMAIN m) ELSE Cardinality(DOMAIN m) + 1
  BY <1>1, FS_AddElement
<1> QED
  BY <1>2 DEF With

(* A map without one of its keys.                                          *)
LEMMA WithoutMap ==
    ASSUME NEW m, IsMap(m), NEW key \in DOMAIN m
    PROVE  LET w == Without(m, {key})
           IN  /\ IsMap(w) /\ DOMAIN w = DOMAIN m \ {key}
               /\ \A k \in DOMAIN w : w[k] = m[k]
               /\ Cardinality(DOMAIN m) \in Nat
               /\ Cardinality(DOMAIN w) = Cardinality(DOMAIN m) - 1
<1> DEFINE w == Without(m, {key})
<1>1. /\ DOMAIN w = DOMAIN m \ {key} /\ w \in [DOMAIN w -> Int]
      /\ \A k \in DOMAIN w : w[k] = m[k]
  BY DEF Without, IsMap
<1>2. /\ IsFiniteSet(DOMAIN m \ {key}) /\ Cardinality(DOMAIN m) \in Nat
      /\ Cardinality(DOMAIN m \ {key}) = Cardinality(DOMAIN m) - 1
  <2>1. IsFiniteSet(DOMAIN m)
    BY DEF IsMap
  <2> QED
    BY <2>1, OneLess
<1>3. DOMAIN m \ {key} \subseteq Int
  BY DEF IsMap
<1> HIDE DEF w
<1> QED
  BY <1>1, <1>2, <1>3 DEF IsMap, w

(* The first key of a map is its smallest.                                 *)
LEMMA LowestIsLowest ==
    ASSUME NEW m, IsMap(m), DOMAIN m # {}
    PROVE  Lowest(DOMAIN m) \in DOMAIN m /\ \A l \in DOMAIN m : Lowest(DOMAIN m) <= l
<1>1. \E k \in DOMAIN m : \A l \in DOMAIN m : k <= l
  BY LeastAndGreatest DEF IsMap
<1> QED
  BY <1>1 DEF Lowest

(* A map of size 0 is the empty one.                                       *)
LEMMA EmptyMap ==
    ASSUME NEW m, IsMap(m)
    PROVE  /\ Cardinality(DOMAIN m) \in Nat
           /\ m = NoValues <=> DOMAIN m = {}
           /\ Cardinality(DOMAIN m) = 0 <=> m = NoValues
<1>1. m = NoValues <=> DOMAIN m = {}
  BY DEF IsMap, NoValues
<1>2. Cardinality(DOMAIN m) \in Nat /\ (Cardinality(DOMAIN m) = 0 <=> DOMAIN m = {})
  BY NoElements DEF IsMap
<1> QED
  BY <1>1, <1>2

LEMMA NoValuesIsMap == IsMap(NoValues) /\ DOMAIN NoValues = {} /\ Cardinality(DOMAIN NoValues) = 0
BY FS_EmptySet DEF IsMap, NoValues

(* A map holds as many pairs as keys.                                      *)
LEMMA PairsCounted ==
    ASSUME NEW m, IsMap(m), NEW s \in Int
    PROVE  IsFiniteSet(Pairs(m, s)) /\ Cardinality(Pairs(m, s)) = Cardinality(DOMAIN m)
<1> DEFINE f == [k \in DOMAIN m |-> <<k + s, m[k]>>]
           S == DOMAIN m
<1>1. /\ Pairs(m, s) = {f[k] : k \in S}
      /\ f \in [S -> {f[k] : k \in S}]
  BY DEF Pairs
<1>2. ASSUME NEW x \in S, NEW y \in S, f[x] = f[y] PROVE x = y
  <2>1. x + s = y + s /\ x \in Int /\ y \in Int
    BY <1>2 DEF IsMap
  <2> QED
    BY <2>1
<1>3. IsFiniteSet(S)
  BY DEF IsMap
<1> HIDE DEF f, S
<1>4. LET T == {f[x] : x \in S}
      IN  /\ IsFiniteSet(T)
          /\ (\A x, y \in S : f[x] = f[y] => x = y) => Cardinality(T) = Cardinality(S)
  BY <1>1, <1>3, FiniteImage
<1> QED
  BY <1>1, <1>2, <1>4 DEF S

(* rescale(): every key is lowered by the same, down to Smallest.  Keys    *)
(* may meet there, and only there.                                         *)
LEMMA RescaledMap ==
    ASSUME IsMap(values), NEW by \in Int
    PROVE  LET w == Rescaled(by)
           IN  /\ IsMap(w)
               /\ Cardinality(DOMAIN w) <= Cardinality(DOMAIN values)
               /\ DOMAIN w = {} <=> DOMAIN values = {}
               /\ \A k \in DOMAIN w :
                     \E l \in DOMAIN values : k = Floor(l - by) /\ w[k] = values[l]
               /\ (\A l \in DOMAIN values : l - by >= Smallest) =>
                     /\ Cardinality(DOMAIN w) = Cardinality(DOMAIN values)
                     /\ DOMAIN w = {l - by : l \in DOMAIN values}
                     /\ \A l \in DOMAIN values : w[l - by] = values[l]
<1> DEFINE S == DOMAIN values
           f == [l \in S |-> Floor(l - by)]
           w == Rescaled(by)
<1> USE SampleAssumption
<1>1. S \subseteq Int /\ IsFiniteSet(S) /\ \A l \in S : f[l] \in Int
  BY DEF IsMap, Floor
<1>2. DOMAIN w = {f[l] : l \in S} /\ f \in [S -> {f[l] : l \in S}]
  BY DEF Rescaled
<1>3. /\ IsFiniteSet(DOMAIN w) /\ Cardinality(DOMAIN w) <= Cardinality(S)
      /\ (\A x, y \in S : f[x] = f[y] => x = y) => Cardinality(DOMAIN w) = Cardinality(S)
  <2> HIDE DEF S, f, w
  <2> QED
    BY <1>1, <1>2, FiniteImage
<1>4. ASSUME NEW k \in DOMAIN w
      PROVE  \E l \in S : f[l] = k /\ \A m \in S : f[m] = k => m <= l
  <2> DEFINE U == {l \in S : f[l] = k}
  <2>1. IsFiniteSet(U)
    <3> HIDE DEF f
    <3> QED
      BY <1>1, FS_Subset
  <2>2. U \subseteq Int /\ U # {}
    BY <1>1, <1>2
  <2> HIDE DEF U
  <2>3. \E l \in U : \A m \in U : m <= l
    BY <2>1, <2>2, LeastAndGreatest
  <2> QED
    BY <2>3 DEF U
<1>5. ASSUME NEW k \in DOMAIN w
      PROVE  \E l \in S : k = Floor(l - by) /\ w[k] = values[l]
  <2> DEFINE P(l) == Floor(l - by) = k /\ \A m \in S : Floor(m - by) = k => m <= l
  <2>1. \E l \in S : P(l)
    BY <1>4
  <2>2. (CHOOSE l \in S : P(l)) \in S /\ P(CHOOSE l \in S : P(l))
    <3> HIDE DEF P
    <3> QED
      BY <2>1
  <2>3. w[k] = values[CHOOSE l \in S : P(l)]
    BY DEF Rescaled
  <2> HIDE DEF w
  <2> QED
    BY <2>2, <2>3
<1>6. IsMap(w)
  <2>1. \A k \in DOMAIN w : w[k] \in Int
    BY <1>5 DEF IsMap
  <2>2. w = [k \in DOMAIN w |-> w[k]]
    BY DEF Rescaled
  <2>3. DOMAIN w \subseteq Int
    BY <1>1, <1>2
  <2> HIDE DEF w
  <2> QED
    BY <1>3, <2>1, <2>2, <2>3 DEF IsMap
<1>7. DOMAIN w = {} <=> DOMAIN values = {}
  BY <1>2
<1>8. ASSUME \A l \in S : l - by >= Smallest
      PROVE  /\ Cardinality(DOMAIN w) = Cardinality(S)
             /\ DOMAIN w = {l - by : l \in S}
             /\ \A l \in S : w[l - by] = values[l]
  <2>1. \A l \in S : f[l] = l - by
    BY <1>1, <1>8 DEF Floor
  <2>2. \A x, y \in S : f[x] = f[y] => x = y
    BY <2>1, <1>1
  <2>3. DOMAIN w = {l - by : l \in S}
    BY <1>2, <2>1
  <2>4. ASSUME NEW l \in S PROVE w[l - by] = values[l]
    <3>1. l - by \in DOMAIN w
      BY <2>3
    <3>2. PICK x \in S : l - by = Floor(x - by) /\ w[l - by] = values[x]
      BY <3>1, <1>5
    <3>3. x = l
      BY <3>2, <2>1, <2>2
    <3> QED
      BY <3>2, <3>3
  <2> QED
    BY <1>3, <2>2, <2>3, <2>4
<1> HIDE DEF w
<1> QED
  BY <1>3, <1>5, <1>6, <1>7, <1>8 DEF w

----------------------------------------------------------------------------
(* What the invariant says, in the form the steps below use.               *)

(* Settled is the count, less the call between its two steps.              *)
LEMMA SettledIs ==
    /\ (\A u \in Updaters : pc[u] # "place") => Settled = count
    /\ (\E u \in Updaters : pc[u] = "place") => Settled = count - 1
BY DEF Settled

(* What the invariant says of whoever has the mutex.                       *)
LEMMA Facts ==
    ASSUME IndInv
    PROVE  /\ IsMap(values) /\ Cardinality(DOMAIN values) \in Nat
           /\ Kept = Pairs(values, start)
           /\ {now, start} \subseteq 0 .. MaxTime /\ now \in Int /\ start \in Int /\ next \in Int
           /\ count \in Nat
           /\ mutex = NoThread =>
                 /\ \A t \in Threads : pc[t] \notin {"count", "place", "times"}
                 /\ Settled = count /\ Uncleared
           /\ \A u \in Updaters : mutex = u =>
                 /\ \A t \in Threads : t # u => pc[t] \notin {"count", "place", "times"}
                 /\ Uncleared
           /\ \A c \in Clearers : mutex = c =>
                 /\ \A t \in Threads : t # c => pc[t] \notin {"count", "place", "times"}
                 /\ Settled = count
<1> USE SampleAssumption DEF Threads
<1>1. IsMap(values)
  BY DEF IndInv, TypeOK, DataInv, IsMap
<1>2. Cardinality(DOMAIN values) \in Nat
  BY <1>1, EmptyMap
<1>3. /\ Kept = Pairs(values, start)
      /\ {now, start} \subseteq 0 .. MaxTime /\ now \in Int /\ start \in Int /\ next \in Int
      /\ count \in Nat
  BY DEF Kept, Pairs, IndInv, TypeOK
<1>4. ASSUME mutex = NoThread
      PROVE  /\ \A t \in Threads : pc[t] \notin {"count", "place", "times"}
             /\ Settled = count /\ Uncleared
  <2>1. \A t \in Threads : pc[t] \notin {"count", "place", "times"}
    BY <1>4 DEF IndInv, MutexInv
  <2> QED
    BY <2>1, SettledIs DEF Uncleared
<1>5. ASSUME NEW u \in Updaters, mutex = u
      PROVE  /\ \A t \in Threads : t # u => pc[t] \notin {"count", "place", "times"}
             /\ Uncleared
  <2>1. \A t \in Threads : t # u => pc[t] \notin {"count", "place", "times"}
    BY <1>5 DEF IndInv, MutexInv
  <2> QED
    BY <2>1 DEF Uncleared
<1>6. ASSUME NEW c \in Clearers, mutex = c
      PROVE  /\ \A t \in Threads : t # c => pc[t] \notin {"count", "place", "times"}
             /\ Settled = count
  <2>1. \A t \in Threads : t # c => pc[t] \notin {"count", "place", "times"}
    BY <1>6 DEF IndInv, MutexInv
  <2> QED
    BY <2>1, SettledIs
<1> QED
  BY <1>1, <1>2, <1>3, <1>4, <1>5, <1>6

(* One thread moves, the others stay where they are.                       *)
LEMMA Moves ==
    ASSUME TypeOK, NEW t \in Threads,
           NEW label \in {"idle", "enter", "count", "place", "times"}, Goto(t, label)
    PROVE  /\ pc' \in [Threads -> {"idle", "enter", "count", "place", "times"}]
           /\ pc'[t] = label /\ \A w \in Threads : w # t => pc'[w] = pc[w]
BY DEF TypeOK, Goto

(* Steps that change neither the map nor what was given nor the times keep *)
(* most of the invariant.                                                  *)
LEMMA SameData ==
    ASSUME IndInv, UNCHANGED <<start, values, given, worn>>
    PROVE  DataInv' /\ PrioritiesBounded' /\ Kept' = Kept
BY DEF IndInv, DataInv, PrioritiesBounded, Kept

(* A step that touches none of it keeps counts and best values.            *)
LEMMA SameCounts ==
    ASSUME IndInv, UNCHANGED <<start, values, given, worn>>, Settled' = Settled,
           Uncleared' => Uncleared,
           \A c \in Clearers : pc'[c] # "idle" => given = {}
    PROVE  CountInv' /\ BestInv'
<1>1. Kept' = Kept
  BY SameData
<1>2. CountInv'
  BY DEF IndInv, CountInv
<1>3. BestInv'
  BY <1>1 DEF IndInv, BestInv
<1> QED
  BY <1>2, <1>3

(* The steps of the specification, one lemma for each.                     *)
LEMMA MoveClockStep == IndInv /\ MoveClock => IndInv'
<1> SUFFICES ASSUME IndInv, MoveClock PROVE IndInv'
  OBVIOUS
<1>1. /\ UNCHANGED <<start, next, count, values, mutex, pc, frame, given, worn, updates, clears>>
      /\ now' \in 0 .. MaxTime
  BY DEF MoveClock, past
<1>2. TypeOK' /\ MutexInv'
  BY <1>1 DEF IndInv, TypeOK, MutexInv
<1>3. Settled' = Settled /\ (Uncleared' => Uncleared)
      /\ \A c \in Clearers : pc'[c] # "idle" => given = {}
  BY <1>1 DEF Settled, Uncleared, IndInv, CountInv
<1> QED
  BY <1>1, <1>2, <1>3, SameData, SameCounts DEF IndInv

LEMMA CallStep == IndInv /\ (\E u \in Updaters, v \in Values : Call(u, v)) => IndInv'
<1> SUFFICES ASSUME IndInv, NEW u \in Updaters, NEW v \in Values, Call(u, v) PROVE IndInv'
  OBVIOUS
<1> USE SampleAssumption DEF Threads
<1>1. /\ UNCHANGED <<now, start, next, count, values, mutex, given, worn, clears>>
      /\ pc[u] = "idle" /\ Goto(u, "enter")
      /\ updates' \in 0 .. MaxUpdates /\ now \in 0 .. MaxTime
  BY DEF Call, IndInv, TypeOK
<1>2. /\ pc' \in [Threads -> {"idle", "enter", "count", "place", "times"}]
      /\ pc'[u] = "enter" /\ \A w \in Threads : w # u => pc'[w] = pc[w]
  BY <1>1, Moves DEF IndInv
<1>3. /\ frame' \in [Updaters -> [value : Values \cup {0}, time : 0 .. MaxTime]]
      /\ \A w \in Updaters : w # u => frame'[w] = frame[w]
  BY <1>1 DEF Call, IndInv, TypeOK
<1>4. TypeOK'
  BY <1>1, <1>2, <1>3 DEF IndInv, TypeOK
<1>5. MutexInv'
  BY <1>1, <1>2, <1>3 DEF IndInv, MutexInv
<1>6. Settled' = Settled /\ (Uncleared' => Uncleared)
      /\ \A c \in Clearers : pc'[c] # "idle" => given = {}
  BY <1>1, <1>2 DEF Settled, Uncleared, IndInv, CountInv
<1> QED
  BY <1>1, <1>4, <1>5, <1>6, SameData, SameCounts DEF IndInv

LEMMA AddCountStep == IndInv /\ (\E u \in Updaters : AddCount(u)) => IndInv'
<1> SUFFICES ASSUME IndInv, NEW u \in Updaters, AddCount(u) PROVE IndInv'
  OBVIOUS
<1> USE SampleAssumption DEF Threads
<1>1. /\ UNCHANGED <<now, start, next, values, mutex, frame, given, worn, updates, clears>>
      /\ pc[u] = "count" /\ Goto(u, "place") /\ count' = count + 1 /\ count \in Nat
  BY DEF AddCount, IndInv, TypeOK, past
<1>2. /\ pc' \in [Threads -> {"idle", "enter", "count", "place", "times"}]
      /\ pc'[u] = "place" /\ \A w \in Threads : w # u => pc'[w] = pc[w]
  BY <1>1, Moves DEF IndInv
<1>3. TypeOK'
  BY <1>1, <1>2 DEF IndInv, TypeOK
<1>4. MutexInv'
  BY <1>1, <1>2 DEF IndInv, MutexInv
<1>5. mutex = u
  BY <1>1 DEF IndInv, MutexInv
<1>6. \A t \in Threads : t # u => pc[t] \notin {"count", "place", "times"}
  BY <1>5, Facts
<1>7. Settled = count
  BY <1>1, <1>6, SettledIs
<1>8. Settled' = count' - 1
  BY <1>2 DEF Settled
<1>9. Settled' = Settled
  BY <1>1, <1>7, <1>8
<1>10. (Uncleared' => Uncleared) /\ \A c \in Clearers : pc'[c] # "idle" => given = {}
  BY <1>1, <1>2 DEF Uncleared, IndInv, CountInv
<1> QED
  BY <1>1, <1>3, <1>4, <1>9, <1>10, SameData, SameCounts DEF IndInv

(* Rescaling without an underflow moves the start and nothing else: the    *)
(* pairs of priority and value are the same.                               *)
LEMMA RescaleKeepsPairs ==
    ASSUME IsMap(values), start \in Int, NEW when \in Int,
           \A l \in DOMAIN values : l - (when - start) >= Smallest
    PROVE  Pairs(Rescaled(when - start), when) = Pairs(values, start)
<1> DEFINE by == when - start
           w == Rescaled(by)
<1>1. by \in Int /\ DOMAIN values \subseteq Int
  BY DEF IsMap
<1>2. /\ DOMAIN w = {l - by : l \in DOMAIN values}
      /\ \A l \in DOMAIN values : w[l - by] = values[l]
  BY <1>1, RescaledMap
<1>3. \A l \in DOMAIN values : (l - by) + when = l + start
  BY <1>1
<1> HIDE DEF w, by
<1>4. \A l \in DOMAIN values :
          /\ l - by \in DOMAIN w
          /\ <<(l - by) + when, w[l - by]>> = <<l + start, values[l]>>
  BY <1>2, <1>3
<1>5. Pairs(values, start) \subseteq Pairs(w, when)
  BY <1>4 DEF Pairs
<1>6. ASSUME NEW k \in DOMAIN w PROVE <<k + when, w[k]>> \in Pairs(values, start)
  <2>1. PICK l \in DOMAIN values : k = l - by
    BY <1>2
  <2> QED
    BY <2>1, <1>4 DEF Pairs
<1>7. Pairs(w, when) \subseteq Pairs(values, start)
  BY <1>6 DEF Pairs
<1> QED
  BY <1>5, <1>7 DEF w, by

LEMMA EnterStep == IndInv /\ (\E u \in Updaters : Enter(u)) => IndInv'
<1> SUFFICES ASSUME IndInv, NEW u \in Updaters, Enter(u) PROVE IndInv'
  OBVIOUS
<1> USE SampleAssumption DEF Threads
<1>1. /\ UNCHANGED <<now, frame, given, updates, clears>>
      /\ pc[u] = "enter" /\ Goto(u, "count") /\ mutex = NoThread /\ mutex' = u
  BY DEF Enter
<1>2. /\ pc' \in [Threads -> {"idle", "enter", "count", "place", "times"}]
      /\ pc'[u] = "count" /\ \A w \in Threads : w # u => pc'[w] = pc[w]
  BY <1>1, Moves DEF IndInv
<1>3. /\ \A t \in Threads : pc[t] \notin {"count", "place", "times"}
      /\ Settled = count /\ Uncleared
      /\ IsMap(values) /\ Cardinality(DOMAIN values) \in Nat /\ Kept = Pairs(values, start)
      /\ start \in Int /\ next \in Int /\ count \in Nat
  BY <1>1, Facts
<1>4. /\ \A t \in Updaters : pc'[t] # "place"
      /\ \A c \in Clearers : pc'[c] = "idle" /\ c # u
  BY <1>2, <1>3 DEF IndInv, MutexInv
<1>5. Settled' = count' /\ Uncleared'
  BY <1>4 DEF Settled, Uncleared
<1>6. frame[u].time \in 0 .. MaxTime
  BY DEF IndInv, TypeOK
<1>7. CASE ~Due(frame[u].time)
  <2>1. UNCHANGED <<start, next, count, values, worn>> /\ frame[u].time < next
    BY <1>7, <1>3, <1>6 DEF Enter, Due
  <2>2. TypeOK'
    BY <1>1, <1>2, <2>1 DEF IndInv, TypeOK
  <2>3. MutexInv'
    BY <1>1, <1>2, <1>3, <2>1 DEF IndInv, MutexInv
  <2>4. Settled' = Settled
    BY <1>3, <1>5, <2>1
  <2> QED
    BY <1>1, <1>3, <1>4, <2>1, <2>2, <2>3, <2>4, SameData, SameCounts DEF IndInv
<1>8. CASE Due(frame[u].time)
  <2> DEFINE when == frame[u].time
             by == when - start
  <2>1. /\ next' = when + Threshold /\ start' = when /\ values' = Rescaled(by)
        /\ count' = Cardinality(DOMAIN values')
        /\ worn' = (worn \/ \E k \in DOMAIN values : k - by < Smallest)
    BY <1>8 DEF Enter, Rescale
  <2>2. when \in Int /\ by \in Int /\ by >= Threshold
    BY <1>3, <1>6, <1>8 DEF Due, IndInv, TypeOK
  <2> HIDE DEF by, when
  <2>3. /\ IsMap(values')
        /\ Cardinality(DOMAIN values') <= Cardinality(DOMAIN values)
        /\ DOMAIN values' = {} <=> DOMAIN values = {}
        /\ \A k \in DOMAIN values' :
              \E l \in DOMAIN values : k = Floor(l - by) /\ values'[k] = values[l]
        /\ (\A l \in DOMAIN values : l - by >= Smallest) =>
              Cardinality(DOMAIN values') = Cardinality(DOMAIN values)
    <3> DEFINE w == Rescaled(by)
    <3>1. /\ IsMap(w)
          /\ Cardinality(DOMAIN w) <= Cardinality(DOMAIN values)
          /\ DOMAIN w = {} <=> DOMAIN values = {}
          /\ \A k \in DOMAIN w :
                \E l \in DOMAIN values : k = Floor(l - by) /\ w[k] = values[l]
          /\ (\A l \in DOMAIN values : l - by >= Smallest) =>
                Cardinality(DOMAIN w) = Cardinality(DOMAIN values)
      BY <1>3, <2>2, RescaledMap
    <3> HIDE DEF w
    <3>2. values' = w
      BY <2>1 DEF w
    <3> QED
      BY <3>1, <3>2
  <2>4. /\ Cardinality(DOMAIN values') \in Nat
        /\ Cardinality(DOMAIN values') = 0 <=> values' = NoValues
        /\ values' = NoValues <=> values = NoValues
    BY <1>3, <2>3, EmptyMap
  <2>5. TypeOK'
    <3>1. start' \in 0 .. MaxTime /\ next' = start' + Threshold
      BY <2>1, <1>6 DEF when
    <3>2. count' \in Nat /\ DOMAIN values' \subseteq Int /\ worn' \in BOOLEAN
      BY <2>1, <2>3, <2>4 DEF IsMap, IndInv, TypeOK
    <3> QED
      BY <1>1, <1>2, <3>1, <3>2 DEF IndInv, TypeOK
  <2>6. MutexInv'
    <3>1. frame'[u].time < next'
      BY <1>1, <2>1, <2>2 DEF when
    <3> QED
      BY <1>1, <1>2, <1>3, <3>1 DEF IndInv, MutexInv
  <2>7. DataInv'
    <3>1. ASSUME NEW k \in DOMAIN values' PROVE \E g \in given : values'[k] = g[2]
      BY <2>3 DEF IndInv, DataInv
    <3> QED
      BY <1>1, <2>3, <2>4, <3>1 DEF IndInv, DataInv, IsMap
  <2>8. CountInv'
    <3>1. Settled' = Cardinality(DOMAIN values') /\ Cardinality(DOMAIN values') <= Reservoir
      BY <1>3, <1>5, <2>1, <2>3, <2>4 DEF IndInv, CountInv
    <3>2. Settled' = 0 <=> given' = {}
      BY <1>1, <2>4, <3>1 DEF IndInv, DataInv
    <3> QED
      BY <1>4, <2>4, <3>1, <3>2 DEF CountInv
  <2>9. BestInv'
    <3> SUFFICES ASSUME ~worn'
                 PROVE  /\ Kept' = Kept /\ given' = given /\ ~worn
                        /\ Cardinality(DOMAIN values') = Cardinality(DOMAIN values)
                        /\ Settled' = Cardinality(DOMAIN values')
      <4>1. Cardinality(DOMAIN values') \in Nat /\ Cardinality(DOMAIN values') <= Reservoir
        BY <2>4, <2>8 DEF CountInv
      <4> QED
        BY <4>1 DEF BestInv, IndInv
    <3>1. ~worn /\ \A l \in DOMAIN values : l - by >= Smallest
      <4>1. ~worn /\ ~\E k \in DOMAIN values : k - by < Smallest
        BY <2>1, Zenon
      <4> QED
        BY <1>3, <2>2, <4>1 DEF IsMap
    <3>2. Pairs(values', start') = Pairs(values, start)
      BY <3>1, <1>3, <2>1, <2>2, RescaleKeepsPairs DEF by
    <3>3. Kept' = Kept
      BY <1>3, <3>2 DEF Kept, Pairs
    <3> QED
      BY <1>1, <1>5, <2>1, <2>3, <3>1, <3>3
  <2>10. PrioritiesBounded'
    <3> SUFFICES ASSUME NEW k \in DOMAIN values' PROVE \E draw \in Draws : k < Threshold + draw
      BY DEF PrioritiesBounded
    <3>1. PICK l \in DOMAIN values : k = Floor(l - by)
      BY <2>3
    <3>2. PICK draw \in Draws : l < Threshold + draw
      BY DEF IndInv, PrioritiesBounded
    <3>3. l \in Int /\ draw \in Nat
      BY <1>3 DEF IsMap
    <3>4. k < Threshold + draw
      BY <2>2, <3>1, <3>2, <3>3 DEF Floor
    <3> QED
      BY <3>4
  <2> QED
    BY <2>5, <2>6, <2>7, <2>8, <2>9, <2>10 DEF IndInv
<1> QED
  BY <1>7, <1>8

----------------------------------------------------------------------------
(* clear().                                                                *)

LEMMA ClearValuesStep == IndInv /\ (\E c \in Clearers : ClearValues(c)) => IndInv'
<1> SUFFICES ASSUME IndInv, NEW c \in Clearers, ClearValues(c) PROVE IndInv'
  OBVIOUS
<1> USE SampleAssumption DEF Threads
<1>1. /\ UNCHANGED <<now, start, next, count, frame, updates>>
      /\ pc[c] = "idle" /\ Goto(c, "count") /\ mutex = NoThread /\ mutex' = c
      /\ values' = NoValues /\ given' = {} /\ worn' = FALSE /\ clears' \in 0 .. MaxClears
  BY DEF ClearValues, IndInv, TypeOK
<1>2. /\ pc' \in [Threads -> {"idle", "enter", "count", "place", "times"}]
      /\ pc'[c] = "count" /\ \A w \in Threads : w # c => pc'[w] = pc[w]
  BY <1>1, Moves DEF IndInv
<1>3. /\ \A t \in Threads : pc[t] \notin {"count", "place", "times"}
      /\ count \in Nat
  BY <1>1, Facts
<1>4. IsMap(values') /\ DOMAIN values' = {} /\ Cardinality(DOMAIN values') = 0
  BY <1>1, NoValuesIsMap
<1>5. TypeOK'
  BY <1>1, <1>2, <1>4 DEF IndInv, TypeOK
<1>6. MutexInv'
  BY <1>1, <1>2, <1>3 DEF IndInv, MutexInv
<1>7. DataInv'
  <2>1. IsFiniteSet({})
    BY FS_EmptySet
  <2> QED
    BY <1>1, <1>4, <2>1 DEF DataInv, IsMap
<1>8. Settled' = count /\ ~Uncleared'
  BY <1>1, <1>2, <1>3 DEF Settled, Uncleared
<1>9. CountInv'
  BY <1>1, <1>3, <1>4, <1>8 DEF CountInv
<1>10. BestInv'
  <2>1. Kept' = {}
    BY <1>4 DEF Kept
  <2> QED
    BY <1>1, <1>8, <2>1 DEF BestInv
<1>11. PrioritiesBounded'
  BY <1>4 DEF PrioritiesBounded
<1> QED
  BY <1>5, <1>6, <1>7, <1>9, <1>10, <1>11 DEF IndInv

LEMMA ClearCountStep == IndInv /\ (\E c \in Clearers : ClearCount(c)) => IndInv'
<1> SUFFICES ASSUME IndInv, NEW c \in Clearers, ClearCount(c) PROVE IndInv'
  OBVIOUS
<1> USE SampleAssumption DEF Threads
<1>1. /\ UNCHANGED <<now, start, next, values, mutex, frame, given, worn, updates, clears>>
      /\ pc[c] = "count" /\ Goto(c, "times") /\ count' = 0
  BY DEF ClearCount, past
<1>2. /\ pc' \in [Threads -> {"idle", "enter", "count", "place", "times"}]
      /\ pc'[c] = "times" /\ \A w \in Threads : w # c => pc'[w] = pc[w]
  BY <1>1, Moves DEF IndInv
<1>3. TypeOK'
  BY <1>1, <1>2 DEF IndInv, TypeOK
<1>4. MutexInv'
  BY <1>1, <1>2 DEF IndInv, MutexInv
<1>5. mutex = c
  BY <1>1 DEF IndInv, MutexInv
<1>6. /\ \A t \in Threads : t # c => pc[t] \notin {"count", "place", "times"}
      /\ IsMap(values)
  BY <1>5, Facts
<1>7. Settled' = 0
  BY <1>1, <1>2, <1>6 DEF Settled
<1>8. given = {} /\ values = NoValues
  BY <1>1 DEF IndInv, CountInv, DataInv
<1>9. Cardinality(DOMAIN values) = 0 /\ DOMAIN values = {}
  BY <1>8, NoValuesIsMap
<1>10. CountInv'
  BY <1>1, <1>7, <1>8, <1>9 DEF CountInv
<1>11. BestInv'
  <2>1. Kept' = {}
    BY <1>1, <1>9 DEF Kept
  <2> QED
    BY <1>1, <1>7, <1>8, <1>9, <2>1 DEF BestInv
<1> QED
  BY <1>1, <1>3, <1>4, <1>10, <1>11, SameData DEF IndInv

LEMMA ClearTimesStep == IndInv /\ (\E c \in Clearers : ClearTimes(c)) => IndInv'
<1> SUFFICES ASSUME IndInv, NEW c \in Clearers, ClearTimes(c) PROVE IndInv'
  OBVIOUS
<1> USE SampleAssumption DEF Threads
<1>1. /\ UNCHANGED <<now, count, values, frame, given, worn, updates, clears>>
      /\ pc[c] = "times" /\ Goto(c, "idle") /\ mutex' = NoThread
      /\ start' = now /\ next' = now + Threshold
  BY DEF ClearTimes, past
<1>2. /\ pc' \in [Threads -> {"idle", "enter", "count", "place", "times"}]
      /\ pc'[c] = "idle" /\ \A w \in Threads : w # c => pc'[w] = pc[w]
  BY <1>1, Moves DEF IndInv
<1>3. TypeOK'
  BY <1>1, <1>2 DEF IndInv, TypeOK
<1>4. mutex = c
  BY <1>1 DEF IndInv, MutexInv
<1>5. /\ \A t \in Threads : t # c => pc[t] \notin {"count", "place", "times"}
      /\ Settled = count
  BY <1>4, Facts
<1>6. MutexInv'
  BY <1>1, <1>2, <1>5 DEF IndInv, MutexInv
<1>7. given = {} /\ values = NoValues
  BY <1>1 DEF IndInv, CountInv, DataInv
<1>8. Cardinality(DOMAIN values) = 0 /\ DOMAIN values = {}
  BY <1>7, NoValuesIsMap
<1>9. Settled' = count
  BY <1>1, <1>2, <1>5 DEF Settled
<1>10. DataInv' /\ PrioritiesBounded'
  BY <1>1, <1>8 DEF IndInv, DataInv, PrioritiesBounded
<1>11. Uncleared
  BY <1>1, <1>5 DEF Uncleared
<1>12. CountInv'
  BY <1>1, <1>2, <1>5, <1>7, <1>8, <1>9, <1>11 DEF CountInv, IndInv
<1>13. BestInv'
  <2>1. Kept' = {} /\ Kept = {}
    BY <1>1, <1>8 DEF Kept
  <2>2. Settled = 0
    BY <1>7, <1>11 DEF IndInv, CountInv
  <2> QED
    BY <1>1, <1>5, <1>7, <1>8, <1>9, <2>1, <2>2 DEF BestInv
<1> QED
  BY <1>3, <1>6, <1>10, <1>12, <1>13 DEF IndInv

----------------------------------------------------------------------------
(* The place of a value.                                                   *)

(* The map after doUpdate() placed a value.                                *)
LEMMA PlacedMap ==
    ASSUME IsMap(values), NEW u \in Updaters, frame[u].value \in Int, NEW p \in Int,
           count \in Nat, Cardinality(DOMAIN values) <= Reservoir,
           Cardinality(DOMAIN values) <= count - 1,
           count > Reservoir => DOMAIN values # {}
    PROVE  LET w == Placed(u, p)
           IN  /\ IsMap(w) /\ DOMAIN w # {}
               /\ Cardinality(DOMAIN w) <= Reservoir /\ Cardinality(DOMAIN w) <= count
               /\ \A k \in DOMAIN w : \/ k = p /\ w[k] = frame[u].value
                                      \/ k \in DOMAIN values /\ w[k] = values[k]
<1> USE SampleAssumption
<1> DEFINE first == Lowest(DOMAIN values)
           v == frame[u].value
           less == Without(values, {first})
<1>0. Cardinality(DOMAIN values) \in Nat
  BY EmptyMap
<1>1. CASE count <= Reservoir
  <2> DEFINE w == With(values, p, v)
  <2>1. Placed(u, p) = w
    BY <1>1 DEF Placed
  <2>2. /\ DOMAIN w = DOMAIN values \cup {p} /\ w[p] = v
        /\ \A k \in DOMAIN values : k # p => w[k] = values[k]
    BY DEF With
  <2>3. IsMap(w)
    BY WithIsMap, Zenon
  <2>4. Cardinality(DOMAIN w)
            = IF p \in DOMAIN values THEN Cardinality(DOMAIN values) ELSE Cardinality(DOMAIN values) + 1
    BY WithCounted, Zenon
  <2> HIDE DEF v, w
  <2> QED
    BY <1>0, <1>1, <2>1, <2>2, <2>3, <2>4 DEF v
<1>2. CASE count > Reservoir /\ first < p /\ p \notin DOMAIN values
  <2>1. Placed(u, p) = With(less, p, v)
    BY <1>2 DEF Placed
  <2>2. first \in DOMAIN values
    BY <1>2, LowestIsLowest
  <2> HIDE DEF v, less, first
  <2>3. /\ IsMap(less) /\ DOMAIN less = DOMAIN values \ {first}
        /\ \A k \in DOMAIN less : less[k] = values[k]
        /\ Cardinality(DOMAIN less) = Cardinality(DOMAIN values) - 1
    BY <2>2, WithoutMap DEF less
  <2> DEFINE w == With(less, p, v)
  <2>a. /\ DOMAIN w = DOMAIN less \cup {p} /\ w[p] = v
        /\ \A k \in DOMAIN less : k # p => w[k] = less[k]
    BY DEF With
  <2>b. IsMap(w)
    BY <2>3, WithIsMap, Zenon DEF v
  <2>c. Cardinality(DOMAIN w)
            = IF p \in DOMAIN less THEN Cardinality(DOMAIN less) ELSE Cardinality(DOMAIN less) + 1
    BY <2>3, WithCounted, Zenon
  <2> HIDE DEF w
  <2>5. Cardinality(DOMAIN w) <= Reservoir /\ Cardinality(DOMAIN w) <= count
    BY <1>0, <1>2, <2>3, <2>c
  <2> QED
    BY <2>1, <2>3, <2>a, <2>b, <2>5 DEF v, w
<1>3. CASE count > Reservoir /\ ~(first < p /\ p \notin DOMAIN values)
  <2>1. Placed(u, p) = values
    BY <1>3 DEF Placed
  <2> QED
    BY <1>0, <1>3, <2>1
<1> QED
  BY <1>1, <1>2, <1>3

(* The keys moved back by the start, with one more and one less.           *)
LEMMA PairsWith ==
    ASSUME NEW m, IsMap(m), NEW p \in Int, p \notin DOMAIN m, NEW v \in Int, NEW s \in Int
    PROVE  Pairs(With(m, p, v), s) = Pairs(m, s) \cup {<<p + s, v>>}
<1> DEFINE w == With(m, p, v)
<1>1. /\ DOMAIN w = DOMAIN m \cup {p} /\ w[p] = v
      /\ \A k \in DOMAIN m : k # p => w[k] = m[k]
  BY DEF With
<1> HIDE DEF w
<1> QED
  BY <1>1 DEF Pairs, w

LEMMA PairsWithout ==
    ASSUME NEW m, IsMap(m), NEW p \in DOMAIN m, NEW s \in Int
    PROVE  Pairs(Without(m, {p}), s) = Pairs(m, s) \ {<<p + s, m[p]>>}
<1> DEFINE w == Without(m, {p})
<1>1. /\ DOMAIN w = DOMAIN m \ {p}
      /\ \A k \in DOMAIN w : w[k] = m[k]
  BY WithoutMap
<1>2. DOMAIN m \subseteq Int
  BY DEF IsMap
<1> HIDE DEF w
<1>3. \A k \in DOMAIN w : <<k + s, m[k]>> # <<p + s, m[p]>>
  <2> SUFFICES ASSUME NEW k \in DOMAIN w PROVE k + s # p + s
    OBVIOUS
  <2>1. k \in Int /\ p \in Int /\ k # p
    BY <1>1, <1>2
  <2>2. \A x, y \in Int : x + s = y + s => x = y
    OBVIOUS
  <2> QED
    BY <2>1, <2>2, Zenon
<1>4. Pairs(w, s) \subseteq Pairs(m, s) \ {<<p + s, m[p]>>}
  BY <1>1, <1>3 DEF Pairs
<1>5. ASSUME NEW k \in DOMAIN m, <<k + s, m[k]>> # <<p + s, m[p]>>
      PROVE  k \in DOMAIN w /\ <<k + s, w[k]>> = <<k + s, m[k]>>
  BY <1>1, <1>5
<1>6. Pairs(m, s) \ {<<p + s, m[p]>>} \subseteq Pairs(w, s)
  BY <1>5 DEF Pairs
<1> QED
  BY <1>4, <1>6 DEF w

(* With a priority that is not taken, the map holds the best after the     *)
(* call if it held them before.                                            *)
LEMMA PlacedBest ==
    ASSUME IsMap(values), NEW u \in Updaters, NEW v \in Int, frame[u].value = v, NEW p \in Int,
           NEW s \in Int, NEW G \in SUBSET (Int \X Int), \A g \in G : g[1] # p + s,
           NEW K, K = Pairs(values, s), K \subseteq G,
           \A g \in G \ K, h \in K : g[1] < h[1],
           G # K => Cardinality(DOMAIN values) = Reservoir,
           count \in Nat, count - 1 \in Nat,
           count - 1 < Reservoir => Cardinality(DOMAIN values) = count - 1,
           count - 1 >= Reservoir => Cardinality(DOMAIN values) = Reservoir
    PROVE  LET w == Placed(u, p)
               more == G \cup {<<p + s, v>>}
           IN  /\ Pairs(w, s) \subseteq more
               /\ \A g \in more \ Pairs(w, s), h \in Pairs(w, s) : g[1] < h[1]
               /\ more # Pairs(w, s) => Cardinality(DOMAIN w) = Reservoir
               /\ count < Reservoir => Cardinality(DOMAIN w) = count
               /\ count >= Reservoir => Cardinality(DOMAIN w) = Reservoir
<1> USE SampleAssumption
<1> DEFINE first == Lowest(DOMAIN values)
           less == Without(values, {first})
           w == Placed(u, p)
           new == <<p + s, v>>
           more == G \cup {new}
<1>1. DOMAIN values \subseteq Int /\ Cardinality(DOMAIN values) \in Nat
  BY EmptyMap DEF IsMap
<1>2. p \notin DOMAIN values
  <2>1. ASSUME p \in DOMAIN values PROVE <<p + s, values[p]>> \in G
    BY <2>1 DEF Pairs
  <2>2. <<p + s, values[p]>>[1] = p + s
    OBVIOUS
  <2> QED
    BY <2>1, <2>2, Zenon
<1>3. CASE count <= Reservoir
  <2>1. w = With(values, p, v)
    BY <1>3 DEF Placed
  <2>2. Cardinality(DOMAIN values) = count - 1 /\ G = K
    BY <1>1, <1>3
  <2>3. Pairs(w, s) = more
    BY <1>2, <2>1, <2>2, PairsWith
  <2>4. Cardinality(DOMAIN w) = Cardinality(DOMAIN values) + 1
    BY <1>2, <2>1, WithCounted, Zenon
  <2>5. Cardinality(DOMAIN w) = count
    BY <1>1, <2>2, <2>4
  <2> QED
    BY <1>3, <2>3, <2>5
<1>4. ASSUME count > Reservoir
      PROVE  /\ Cardinality(DOMAIN values) = Reservoir
             /\ first \in DOMAIN values /\ first \in Int
             /\ \A l \in DOMAIN values : first <= l
             /\ <<first + s, values[first]>> \in K
             /\ \A h \in K : first + s <= h[1]
  <2>1. Cardinality(DOMAIN values) = Reservoir
    BY <1>4
  <2>2. DOMAIN values # {}
    BY <1>1, <2>1, EmptyMap
  <2>3. first \in DOMAIN values /\ \A l \in DOMAIN values : first <= l
    BY <2>2, LowestIsLowest
  <2> HIDE DEF first
  <2>4. <<first + s, values[first]>> \in K
    BY <2>3 DEF Pairs
  <2>5. \A h \in K : first + s <= h[1]
    BY <1>1, <2>3 DEF Pairs
  <2> QED
    BY <1>1, <2>1, <2>3, <2>4, <2>5
<1>5. CASE count > Reservoir /\ first < p
  <2> DEFINE old == <<first + s, values[first]>>
  <2>1. w = With(less, p, v)
    BY <1>2, <1>5 DEF Placed
  <2>2. /\ Cardinality(DOMAIN values) = Reservoir /\ first \in DOMAIN values /\ first \in Int
        /\ old \in K /\ \A h \in K : first + s <= h[1]
    BY <1>4, <1>5
  <2> HIDE DEF first
  <2>3. /\ IsMap(less) /\ DOMAIN less = DOMAIN values \ {first}
        /\ Cardinality(DOMAIN less) = Cardinality(DOMAIN values) - 1
    BY <2>2, WithoutMap
  <2>4. Pairs(less, s) = K \ {old}
    BY <2>2, PairsWithout
  <2> HIDE DEF less, w
  <2>5. Pairs(w, s) = (K \ {old}) \cup {new}
    BY <1>2, <2>1, <2>3, <2>4, PairsWith
  <2>6. Cardinality(DOMAIN w) = Reservoir
    <3>1. Cardinality(DOMAIN w) = Cardinality(DOMAIN less) + 1
      <4>1. p \notin DOMAIN less
        BY <1>2, <2>3
      <4> QED
        BY <2>1, <2>3, <4>1, WithCounted, Zenon
    <3> QED
      BY <2>2, <2>3, <3>1
  <2>7. \A h \in K \ {old} : old[1] < h[1]
    <3> SUFFICES ASSUME NEW k \in DOMAIN values, <<k + s, values[k]>> # old PROVE first + s < k + s
      BY DEF Pairs
    <3>1. k \in Int /\ k # first
      BY <1>1
    <3>2. <<k + s, values[k]>> \in K
      BY DEF Pairs
    <3>3. first + s <= k + s
      BY <2>2, <3>2
    <3> QED
      BY <2>2, <3>1, <3>3
  <2>8. old[1] < new[1]
    BY <1>5, <2>2
  <2>9. ASSUME NEW g \in more \ Pairs(w, s), NEW h \in Pairs(w, s) PROVE g[1] < h[1]
    <3>1. g \in G \ K \/ g = old
      BY <2>5, <2>9
    <3>2. h \in K \ {old} \/ h = new
      BY <2>5, <2>9
    <3>3. CASE g = old
      BY <3>2, <3>3, <2>7, <2>8
    <3>4. CASE g \in G \ K /\ h \in K
      BY <3>4
    <3>5. CASE g \in G \ K /\ h = new
      <4>1. g[1] < old[1] /\ g[1] \in Int /\ old[1] \in Int /\ new[1] \in Int
        BY <2>2, <3>5
      <4> QED
        BY <2>8, <3>5, <4>1
    <3> QED
      BY <3>1, <3>2, <3>3, <3>4, <3>5
  <2>10. Pairs(w, s) \subseteq more
    BY <2>5
  <2> QED
    BY <1>5, <2>6, <2>9, <2>10 DEF w
<1>6. CASE count > Reservoir /\ ~(first < p)
  <2>1. w = values
    BY <1>6 DEF Placed
  <2>2. /\ Cardinality(DOMAIN values) = Reservoir /\ first \in DOMAIN values /\ first \in Int
        /\ \A h \in K : first + s <= h[1]
    BY <1>4, <1>6
  <2>3. p < first
    BY <1>2, <1>6, <2>2
  <2> HIDE DEF first
  <2>4. ASSUME NEW h \in K PROVE p + s < h[1]
    <3>1. first + s <= h[1] /\ h[1] \in Int
      BY <2>2
    <3> QED
      BY <2>2, <2>3, <3>1
  <2> QED
    BY <1>6, <2>1, <2>2, <2>4
<1> QED
  BY <1>1, <1>3, <1>5, <1>6

(* The step that decides what is kept.                                     *)
LEMMA PlaceStep == IndInv /\ (\E u \in Updaters : Place(u)) => IndInv'
<1> SUFFICES ASSUME IndInv, NEW u \in Updaters, Place(u) PROVE IndInv'
  OBVIOUS
<1> USE SampleAssumption DEF Threads
<1> DEFINE v == frame[u].value
           time == frame[u].time
<1>1. /\ UNCHANGED <<now, start, next, count, updates, clears>>
      /\ pc[u] = "place" /\ Goto(u, "idle") /\ mutex' = NoThread
      /\ frame' = [frame EXCEPT ![u] = [value |-> 0, time |-> 0]]
  BY DEF Place
<1>2. PICK draw \in Draws :
          LET exact == time - start + draw
          IN  /\ values' = Placed(u, Floor(exact))
              /\ given' = given \cup {<<time + draw, v>>}
              /\ worn' = (worn \/ exact < Smallest \/ exact \in {g[1] - start : g \in given})
  BY DEF Place
<1> DEFINE exact == time - start + draw
           p == Floor(exact)
           new == <<time + draw, v>>
<1>3. /\ pc' \in [Threads -> {"idle", "enter", "count", "place", "times"}]
      /\ pc'[u] = "idle" /\ \A w \in Threads : w # u => pc'[w] = pc[w]
  BY <1>1, Moves DEF IndInv
<1>4. mutex = u /\ time < next
  BY <1>1 DEF IndInv, MutexInv
<1>5. /\ \A t \in Threads : t # u => pc[t] \notin {"count", "place", "times"}
      /\ Uncleared /\ IsMap(values) /\ Cardinality(DOMAIN values) \in Nat
      /\ Kept = Pairs(values, start) /\ start \in Int /\ next \in Int /\ count \in Nat
  BY <1>4, Facts
<1>6. /\ v \in Int /\ time \in Int /\ draw \in Nat
      /\ frame' \in [Updaters -> [value : Values \cup {0}, time : 0 .. MaxTime]]
      /\ \A w \in Updaters : w # u => frame'[w] = frame[w]
  <2>1. /\ frame \in [Updaters -> [value : Values \cup {0}, time : 0 .. MaxTime]]
        /\ 0 \in 0 .. MaxTime
    BY DEF IndInv, TypeOK
  <2>2. v \in Values \cup {0} /\ time \in 0 .. MaxTime
    BY <2>1
  <2>3. [value |-> 0, time |-> 0] \in [value : Values \cup {0}, time : 0 .. MaxTime]
    BY <2>1
  <2>4. v \in Int /\ time \in Int /\ draw \in Nat
    <3>1. Values \cup {0} \subseteq Int /\ 0 .. MaxTime \subseteq Int /\ draw \in Nat
      OBVIOUS
    <3> HIDE DEF v, time
    <3> QED
      BY ONLY <2>2, <3>1
  <2> QED
    BY <1>1, <2>1, <2>3, <2>4
<1>7. exact \in Int /\ p \in Int /\ exact + start = time + draw /\ time + draw \in Int
  BY <1>5, <1>6 DEF Floor
<1>8. Settled = count - 1 /\ Settled' = count
  BY <1>1, <1>3, <1>5 DEF Settled
<1>9. /\ count - 1 \in Nat /\ Cardinality(DOMAIN values) <= Reservoir
      /\ Cardinality(DOMAIN values) <= count - 1
      /\ count - 1 = 0 <=> given = {}
  BY <1>5, <1>8 DEF IndInv, CountInv
<1>10. count > Reservoir => DOMAIN values # {}
  <2>1. values = NoValues <=> DOMAIN values = {}
    BY <1>5, EmptyMap
  <2>2. count > Reservoir => given # {}
    BY <1>5, <1>9
  <2> QED
    BY <2>1, <2>2 DEF IndInv, DataInv
<1>11. /\ values' = Placed(u, p) /\ given' = given \cup {new}
       /\ worn' = (worn \/ exact < Smallest \/ exact \in {g[1] - start : g \in given})
  BY <1>2
<1> HIDE DEF p, exact, new, v, time
<1>12. /\ IsMap(values') /\ DOMAIN values' # {}
       /\ Cardinality(DOMAIN values') <= Reservoir /\ Cardinality(DOMAIN values') <= count
       /\ \A k \in DOMAIN values' : \/ k = p /\ values'[k] = v
                                    \/ k \in DOMAIN values /\ values'[k] = values[k]
  BY <1>5, <1>6, <1>7, <1>9, <1>10, <1>11, PlacedMap DEF v
<1>13. TypeOK'
  <2>1. worn' \in BOOLEAN
    BY <1>11
  <2> QED
    BY <1>1, <1>3, <1>6, <1>12, <2>1 DEF IndInv, TypeOK, IsMap
<1>14. MutexInv'
  BY <1>1, <1>3, <1>5, <1>6 DEF IndInv, MutexInv
<1>15. new \in Int \X Int /\ new[1] = time + draw /\ new[2] = v
  BY <1>6, <1>7 DEF new
<1>16. DataInv'
  <2>1. IsFiniteSet(given')
    BY <1>11, FS_AddElement DEF IndInv, DataInv
  <2>2. given' \subseteq Int \X Int
    BY <1>11, <1>15 DEF IndInv, DataInv
  <2>3. ASSUME NEW k \in DOMAIN values' PROVE \E g \in given' : values'[k] = g[2]
    BY <1>11, <1>12, <1>15 DEF IndInv, DataInv
  <2>4. values' # NoValues /\ given' # {}
    BY <1>11, <1>12, NoValuesIsMap
  <2> QED
    BY <1>12, <2>1, <2>2, <2>3, <2>4 DEF DataInv, IsMap
<1>17. /\ Uncleared' /\ \A c \in Clearers : pc'[c] = "idle"
  <2>1. \A c \in Clearers : pc[c] = "idle" /\ c # u
    BY <1>5 DEF IndInv, MutexInv
  <2> QED
    BY <1>3, <2>1 DEF Uncleared
<1>18. CountInv'
  <2>1. Settled' # 0 /\ given' # {}
    BY <1>5, <1>8, <1>9, <1>11
  <2> QED
    BY <1>5, <1>8, <1>12, <1>17, <2>1 DEF CountInv
<1>19. BestInv'
  <2> SUFFICES ASSUME ~worn'
               PROVE  /\ Kept' \subseteq given'
                      /\ \A g, h \in given' : g[1] = h[1] => g = h
                      /\ \A g \in given' \ Kept', h \in Kept' : g[1] < h[1]
                      /\ given' # Kept' => Cardinality(DOMAIN values') = Reservoir
                      /\ count < Reservoir => Cardinality(DOMAIN values') = count
                      /\ count >= Reservoir => Cardinality(DOMAIN values') = Reservoir
    BY <1>8 DEF BestInv
  <2>1. ~worn /\ ~(exact < Smallest) /\ exact \notin {g[1] - start : g \in given}
    BY <1>11, Zenon
  <2>2. p = exact
    BY <2>1, <1>7 DEF p, Floor
  <2>3. new = <<p + start, v>>
    BY <2>2, <1>7 DEF new
  <2>4. ASSUME NEW g \in given PROVE g[1] # p + start
    <3>1. g[1] \in Int /\ g[1] - start # exact
      BY <2>1 DEF IndInv, DataInv
    <3> QED
      BY <3>1, <2>2, <1>5, <1>7
  <2>5. /\ Kept \subseteq given
        /\ \A g, h \in given : g[1] = h[1] => g = h
        /\ \A g \in given \ Kept, h \in Kept : g[1] < h[1]
        /\ given # Kept => Cardinality(DOMAIN values) = Reservoir
        /\ count - 1 < Reservoir => Cardinality(DOMAIN values) = count - 1
        /\ count - 1 >= Reservoir => Cardinality(DOMAIN values) = Reservoir
    BY <2>1, <1>5, <1>8 DEF IndInv, BestInv
  <2>6. given \in SUBSET (Int \X Int)
    BY DEF IndInv, DataInv
  <2>7. /\ Pairs(values', start) \subseteq given'
        /\ \A g \in given' \ Pairs(values', start), h \in Pairs(values', start) : g[1] < h[1]
        /\ given' # Pairs(values', start) => Cardinality(DOMAIN values') = Reservoir
        /\ count < Reservoir => Cardinality(DOMAIN values') = count
        /\ count >= Reservoir => Cardinality(DOMAIN values') = Reservoir
    <3>1. frame[u].value = v /\ v \in Int /\ Kept = Pairs(values, start) /\ IsMap(values)
          /\ p \in Int /\ start \in Int /\ count \in Nat /\ count - 1 \in Nat
      BY <1>5, <1>6, <1>7, <1>9 DEF v
    <3> DEFINE w == Placed(u, p)
               more == given \cup {<<p + start, v>>}
    <3>2. /\ Pairs(w, start) \subseteq more
          /\ \A g \in more \ Pairs(w, start), h \in Pairs(w, start) : g[1] < h[1]
          /\ more # Pairs(w, start) => Cardinality(DOMAIN w) = Reservoir
          /\ count < Reservoir => Cardinality(DOMAIN w) = count
          /\ count >= Reservoir => Cardinality(DOMAIN w) = Reservoir
      BY <2>4, <2>5, <2>6, <3>1, PlacedBest
    <3>3. values' = w /\ given' = more
      BY <1>11, <2>3
    <3> HIDE DEF w, more
    <3> QED
      BY <3>2, <3>3
  <2>8. Kept' = Pairs(values', start)
    BY <1>1 DEF Kept, Pairs
  <2>9. ASSUME NEW g \in given', NEW h \in given', g[1] = h[1] PROVE g = h
    <3>1. new[1] = p + start
      BY <2>2, <1>7, <1>15
    <3> QED
      BY <1>11, <2>4, <2>5, <2>9, <3>1
  <2> QED
    BY <2>7, <2>8, <2>9
<1>20. PrioritiesBounded'
  <2> SUFFICES ASSUME NEW k \in DOMAIN values' PROVE \E d \in Draws : k < Threshold + d
    BY DEF PrioritiesBounded
  <2>1. CASE k = p
    <3>1. exact < Threshold + draw
      BY <1>4, <1>5, <1>6 DEF exact, IndInv, TypeOK
    <3>2. p < Threshold + draw
      BY <3>1, <1>6, <1>7 DEF p, Floor
    <3> QED
      BY <2>1, <3>2
  <2>2. CASE k \in DOMAIN values
    BY <2>2 DEF IndInv, PrioritiesBounded
  <2> QED
    BY <1>12, <2>1, <2>2
<1> QED
  BY <1>13, <1>14, <1>16, <1>18, <1>19, <1>20 DEF IndInv

----------------------------------------------------------------------------
(* The theorems.                                                           *)

(* The invariant at the beginning and under every step.                    *)
LEMMA IndInit == Init => IndInv
<1> SUFFICES ASSUME Init PROVE IndInv
  OBVIOUS
<1> USE SampleAssumption DEF Init, Threads
<1>1. IsMap(values) /\ DOMAIN values = {} /\ Cardinality(DOMAIN values) = 0
  BY NoValuesIsMap
<1>2. TypeOK
  <2>1. /\ {now, start} \subseteq 0 .. MaxTime /\ next = start + Threshold /\ count \in Nat
        /\ updates \in 0 .. MaxUpdates /\ clears \in 0 .. MaxClears
    OBVIOUS
  <2>2. frame \in [Updaters -> [value : Values \cup {0}, time : 0 .. MaxTime]]
    OBVIOUS
  <2> QED
    BY <1>1, <2>1, <2>2 DEF TypeOK
<1>3. MutexInv
  BY DEF MutexInv
<1>4. DataInv
  BY <1>1, FS_EmptySet DEF DataInv, IsMap
<1>5. Settled = 0 /\ Kept = {}
  BY <1>1 DEF Settled, Kept
<1>6. CountInv /\ BestInv
  BY <1>1, <1>5 DEF CountInv, BestInv
<1>7. PrioritiesBounded
  BY <1>1 DEF PrioritiesBounded
<1> QED
  BY <1>2, <1>3, <1>4, <1>6, <1>7 DEF IndInv

LEMMA IndStep == IndInv /\ [Next]_vars => IndInv'
<1> SUFFICES ASSUME IndInv, [Next]_vars PROVE IndInv'
  OBVIOUS
<1>1. CASE UNCHANGED vars
  BY <1>1 DEF vars, past, IndInv, TypeOK, MutexInv, DataInv, CountInv, Settled, Uncleared,
              BestInv, Kept, PrioritiesBounded
<1>2. CASE Next
  BY <1>2, MoveClockStep, CallStep, EnterStep, AddCountStep, PlaceStep,
     ClearValuesStep, ClearCountStep, ClearTimesStep DEF Next
<1> QED
  BY <1>1, <1>2

(* The inductive invariant holds in every state (exp_decay_sample.cc, all  *)
(* of update(), rescale() and clear()).                                    *)
THEOREM IndInvHolds == Spec => []IndInv
<1>1. Init => IndInv
  BY IndInit
<1>2. IndInv /\ [Next]_vars => IndInv'
  BY IndStep
<1> QED
  BY <1>1, <1>2, PTL DEF Spec

(* The sample never holds more than its size or than size() says, even to  *)
(* a caller in the middle of update(), rescale() or clear(); it is empty   *)
(* exactly when nothing was recorded since the last clear(), and what it   *)
(* holds was recorded since.                                               *)
THEOREM SampleInvHolds == Spec => []SampleInv
<1>1. IndInv => SampleInv
  <2> SUFFICES ASSUME IndInv PROVE SampleInv
    OBVIOUS
  <2>1. /\ Cardinality(DOMAIN values) \in Nat /\ count \in Nat
        /\ mutex = NoThread => Settled = count /\ Uncleared
    BY Facts
  <2>2. Settled <= count
    BY <2>1 DEF Settled
  <2>3. Cardinality(DOMAIN values) <= Reported
    BY <2>1, <2>2, SampleAssumption DEF Reported, IndInv, CountInv
  <2>4. Free => (values = NoValues <=> given = {}) /\ (count = 0 <=> given = {})
    BY <2>1 DEF Free, IndInv, CountInv, DataInv
  <2>5. TypeOK /\ \A k \in DOMAIN values : \E g \in given : values[k] = g[2]
    BY DEF IndInv, DataInv
  <2> QED
    BY <2>3, <2>4, <2>5 DEF SampleInv
<1> QED
  BY <1>1, IndInvHolds, PTL

(* No priority grows beyond one threshold and one draw, so the exponential *)
(* never overflows: what rescale() is for.                                 *)
THEOREM PrioritiesBoundedHolds == Spec => []PrioritiesBounded
<1>1. IndInv => PrioritiesBounded
  BY DEF IndInv
<1> QED
  BY <1>1, IndInvHolds, PTL

(* The sample holds those values recorded since the last clear() that got  *)
(* the highest priorities, after any number of rescalings and in whatever  *)
(* order the time stamps came to the mutex; provided no two priorities     *)
(* were alike and none underflowed.                                        *)
THEOREM KeepsTheBestHolds == Spec => []KeepsTheBest
<1>1. IndInv => KeepsTheBest
  <2> SUFFICES ASSUME IndInv, ~worn PROVE Kept = Best
    BY DEF KeepsTheBest
  <2> DEFINE Above(g) == {h \in given : h[1] > g[1]}
  <2>1. /\ IsMap(values) /\ Kept = Pairs(values, start) /\ start \in Int
        /\ Reservoir \in Nat \ {0}
    BY Facts, SampleAssumption
  <2>2. /\ IsFiniteSet(Kept) /\ Cardinality(Kept) = Cardinality(DOMAIN values)
        /\ Cardinality(DOMAIN values) \in Nat /\ Cardinality(DOMAIN values) <= Reservoir
    BY <2>1, PairsCounted, EmptyMap DEF IndInv, CountInv
  <2>3. /\ Kept \subseteq given /\ IsFiniteSet(given) /\ given \subseteq Int \X Int
        /\ \A g \in given \ Kept, h \in Kept : g[1] < h[1]
        /\ given # Kept => Cardinality(DOMAIN values) = Reservoir
    BY DEF IndInv, BestInv, DataInv
  <2>4. ASSUME NEW g \in Kept PROVE Cardinality(Above(g)) < Reservoir
    <3>1. Above(g) \subseteq Kept \ {g}
      <4> SUFFICES ASSUME NEW h \in given, h[1] > g[1] PROVE h \in Kept /\ h # g
        OBVIOUS
      <4>1. h[1] \in Int /\ g[1] \in Int
        BY <2>3
      <4> QED
        BY <2>3, <4>1
    <3>2. IsFiniteSet(Kept \ {g}) /\ Cardinality(Kept \ {g}) = Cardinality(Kept) - 1
      BY <2>2, OneLess
    <3> HIDE DEF Above
    <3>3. Cardinality(Above(g)) \in Nat /\ Cardinality(Above(g)) <= Cardinality(Kept \ {g})
      BY <3>1, <3>2, Smaller
    <3> QED
      BY <2>1, <2>2, <3>2, <3>3
  <2>5. ASSUME NEW g \in given \ Kept PROVE ~(Cardinality(Above(g)) < Reservoir)
    <3>1. Kept \subseteq Above(g)
      <4> SUFFICES ASSUME NEW h \in Kept PROVE h \in given /\ h[1] > g[1]
        OBVIOUS
      <4>1. h[1] \in Int /\ g[1] \in Int /\ g[1] < h[1]
        BY <2>3
      <4> QED
        BY <2>3, <4>1
    <3>2. IsFiniteSet(Above(g))
      BY <2>3, FS_Subset
    <3> HIDE DEF Above
    <3>3. Cardinality(Above(g)) \in Nat /\ Cardinality(Kept) <= Cardinality(Above(g))
      BY <3>1, <3>2, Smaller
    <3> QED
      BY <2>1, <2>2, <2>3, <3>3
  <2>6. Best = {g \in given : Cardinality(Above(g)) < Reservoir}
    BY DEF Best
  <2> HIDE DEF Above
  <2> QED
    BY <2>3, <2>4, <2>5, <2>6
<1> QED
  BY <1>1, IndInvHolds, PTL

----------------------------------------------------------------------------
(* Snapshot: quantiles of any function from a finite set to the integers.  *)

IsSample(s) == IsFiniteSet(DOMAIN s) /\ s \in [DOMAIN s -> Int]

(* How the numbers of values below and up to a bound compare.              *)
LEMMA Counts ==
    ASSUME NEW s, IsSample(s), NEW x \in Int, NEW y \in Int
    PROVE  /\ Size(s) \in Nat /\ Below(s, x) \in Nat /\ UpTo(s, x) \in Nat
           /\ Below(s, x) <= Size(s) /\ UpTo(s, x) <= Size(s)
           /\ x < y => UpTo(s, x) <= Below(s, y)
           /\ Cardinality({i \in DOMAIN s : s[i] > x}) = Size(s) - UpTo(s, x)
<1> DEFINE D == DOMAIN s
           L == {i \in D : s[i] < x}
           U == {i \in D : s[i] <= x}
           V == {i \in D : s[i] < y}
           A == {i \in D : s[i] > x}
<1>1. IsFiniteSet(D) /\ \A i \in D : s[i] \in Int
  BY DEF IsSample
<1>2. L \subseteq D /\ U \subseteq D /\ V \subseteq D /\ A = D \ U /\ D \cap U = U
  BY <1>1
<1>3. x < y => U \subseteq V
  BY <1>1
<1>4. Size(s) = Cardinality(D) /\ Below(s, x) = Cardinality(L) /\ UpTo(s, x) = Cardinality(U)
      /\ Below(s, y) = Cardinality(V)
  BY DEF Size, Below, UpTo
<1> HIDE DEF D, L, U, V, A
<1>5. /\ Cardinality(L) \in Nat /\ Cardinality(U) \in Nat /\ Cardinality(D) \in Nat
      /\ Cardinality(L) <= Cardinality(D) /\ Cardinality(U) <= Cardinality(D)
      /\ IsFiniteSet(V)
  BY <1>1, <1>2, Smaller
<1>6. x < y => Cardinality(U) <= Cardinality(V)
  BY <1>3, <1>5, Smaller
<1>7. Cardinality(A) = Cardinality(D) - Cardinality(U)
  <2>1. Cardinality(D \ U) = Cardinality(D) - Cardinality(D \cap U)
    BY <1>1, FS_Difference
  <2> QED
    BY <1>2, <2>1
<1> QED
  BY <1>4, <1>5, <1>6, <1>7 DEF A, D

(* The i-th of the sorted values exists: fewer than i values are below it  *)
(* and at least i are not above it.                                        *)
LEMMA SortedExists ==
    ASSUME NEW s, IsSample(s), NEW i \in 1 .. Size(s)
    PROVE  \E x \in {s[j] : j \in DOMAIN s} : Below(s, x) < i /\ i <= UpTo(s, x)
<1> DEFINE D == DOMAIN s
           R == {s[j] : j \in D}
           U == {x \in R : i <= UpTo(s, x)}
<1>1. IsFiniteSet(D) /\ R \subseteq Int /\ s \in [D -> R] /\ \A j \in D : s[j] \in Int
  BY DEF IsSample
<1>2. IsFiniteSet(R)
  <2>1. s \in [D -> {s[j] : j \in D}]
    BY <1>1
  <2> QED
    BY <1>1, <2>1, FiniteImage
<1>3. Size(s) = Cardinality(D) /\ i \in Nat /\ i >= 1 /\ i <= Cardinality(D)
  <2>1. Cardinality(D) \in Nat
    BY <1>1, FS_CardinalityType
  <2> QED
    BY <2>1 DEF Size
<1>4. D # {}
  BY <1>3, FS_EmptySet
<1>5. U # {}
  <2>1. R # {}
    BY <1>4
  <2>2. PICK b \in R : \A l \in R : l <= b
    <3> HIDE DEF R
    <3> QED
      BY <1>1, <1>2, <2>1, LeastAndGreatest
  <2>3. {j \in D : s[j] <= b} = D
    BY <2>2
  <2>4. UpTo(s, b) = Cardinality(D)
    BY <2>3 DEF UpTo
  <2> QED
    BY <1>3, <2>2, <2>4
<1>6. PICK x \in U : \A y \in U : x <= y
  <2>1. U \subseteq R
    OBVIOUS
  <2> HIDE DEF U
  <2>2. IsFiniteSet(U) /\ U \subseteq Int
    BY <1>1, <1>2, <2>1, FS_Subset
  <2> QED
    BY <1>5, <2>2, LeastAndGreatest
<1>7. x \in Int /\ Below(s, x) \in Nat
  BY <1>1, Counts
<1>8. ASSUME Below(s, x) >= i PROVE FALSE
  <2> DEFINE B == {j \in D : s[j] < x}
             L == {y \in R : y < x}
  <2>1. Below(s, x) = Cardinality(B)
    BY DEF Below
  <2>2. B # {}
    <3> HIDE DEF B
    <3> QED
      BY <1>3, <1>7, <1>8, <2>1, FS_EmptySet
  <2>3. L # {} /\ L \subseteq R
    BY <2>2
  <2>4. IsFiniteSet(L) /\ L \subseteq Int
    <3> HIDE DEF L
    <3> QED
      BY <1>1, <1>2, <2>3, FS_Subset
  <2>5. PICK y \in L : \A l \in L : l <= y
    <3> HIDE DEF L
    <3> QED
      BY <2>3, <2>4, LeastAndGreatest
  <2>6. y \in R /\ y < x /\ y \in Int
    BY <1>1, <2>5
  <2>7. {j \in D : s[j] <= y} = B
    <3>1. ASSUME NEW j \in D, s[j] <= y PROVE s[j] < x
      BY <1>1, <1>7, <2>6, <3>1
    <3>2. ASSUME NEW j \in D, s[j] < x PROVE s[j] <= y
      BY <2>5, <3>2
    <3> QED
      BY <3>1, <3>2
  <2>8. UpTo(s, y) = Below(s, x)
    BY <2>1, <2>7 DEF UpTo
  <2>9. y \in U
    BY <1>8, <2>6, <2>8, <1>7
  <2>10. x <= y
    BY <1>6, <2>9
  <2> QED
    BY <1>7, <2>6, <2>10
<1> QED
  BY <1>3, <1>7, <1>8

(* The i-th value has fewer than i below it and i up to it.                *)
LEMMA SortedIs ==
    ASSUME NEW s, IsSample(s), NEW i \in 1 .. Size(s)
    PROVE  /\ Sorted(s, i) \in Int
           /\ Below(s, Sorted(s, i)) < i /\ i <= UpTo(s, Sorted(s, i))
<1> DEFINE R == {s[j] : j \in DOMAIN s}
           P(x) == Below(s, x) < i /\ i <= UpTo(s, x)
<1>1. \E x \in R : P(x)
  BY SortedExists
<1>2. Sorted(s, i) = CHOOSE x \in R : P(x)
  BY DEF Sorted
<1>3. R \subseteq Int
  BY DEF IsSample
<1> HIDE DEF R, P
<1>4. Sorted(s, i) \in R /\ P(Sorted(s, i))
  BY <1>1, <1>2
<1> QED
  BY <1>3, <1>4 DEF P

(* They are sorted.                                                        *)
LEMMA SortedRises ==
    ASSUME NEW s, IsSample(s), NEW i \in 1 .. Size(s), NEW j \in 1 .. Size(s), i <= j
    PROVE  Sorted(s, i) <= Sorted(s, j)
<1> DEFINE x == Sorted(s, i)
           y == Sorted(s, j)
<1>1. x \in Int /\ Below(s, x) < i
  BY SortedIs
<1>2. y \in Int /\ j <= UpTo(s, y)
  BY SortedIs
<1> HIDE DEF x, y
<1>3. Size(s) \in Nat /\ Below(s, x) \in Nat /\ UpTo(s, y) \in Nat
      /\ (y < x => UpTo(s, y) <= Below(s, x))
  BY <1>1, <1>2, Counts
<1>4. x <= y
  BY <1>1, <1>2, <1>3
<1> QED
  BY <1>4 DEF x, y

(* Arithmetic of positions and of interpolation.                           *)

(* The position of a quantile is a rank and a rest.                        *)
LEMMA WholeAndRest ==
    ASSUME NEW pos \in Nat, NEW m, m = pos \div Whole, NEW r, r = pos % Whole
    PROVE  m \in Nat /\ r \in 0 .. Whole - 1 /\ pos = Whole * m + r
<1>1. m \in Nat /\ r \in 0 .. 999
  BY DEF Whole
<1>2. m \in Int /\ r \in Int /\ m = pos \div 1000 /\ r = pos % 1000
  BY <1>1 DEF Whole
<1>3. pos = 1000 * m + r
  BY <1>2
<1> QED
  BY <1>1, <1>3 DEF Whole

(* The arithmetic of the interpolation.                                    *)
LEMMA Steeper ==
    ASSUME NEW r \in Nat, NEW q \in Nat, NEW d \in Nat, r <= q
    PROVE  r * d <= q * d /\ 0 <= r * d
<1>1. (q - r) * d >= 0
  <2>1. \A m, n \in Nat : m * n >= 0
    OBVIOUS
  <2>2. q - r \in Nat
    OBVIOUS
  <2> QED
    BY <2>1, <2>2
<1>2. (q - r) * d = q * d - r * d
  OBVIOUS
<1>3. r * d >= 0 /\ r * d \in Int /\ q * d \in Int
  OBVIOUS
<1> QED
  BY <1>1, <1>2, <1>3

LEMMA Interpolated ==
    ASSUME NEW a \in Int, NEW b \in Int, a <= b,
           NEW r \in 0 .. Whole, NEW q \in 0 .. Whole, r <= q
    PROVE  /\ Whole * a <= Whole * a + r * (b - a)
           /\ Whole * a + r * (b - a) <= Whole * a + q * (b - a)
           /\ Whole * a + r * (b - a) <= Whole * b
           /\ Whole * a + r * (b - a) \in Int
<1> DEFINE d == b - a
<1>1. d \in Nat /\ r \in Nat /\ q \in Nat /\ Whole \in Nat /\ r <= Whole
  BY DEF Whole
<1> HIDE DEF d
<1>2. 0 <= r * d /\ r * d <= q * d /\ r * d <= Whole * d /\ r * d \in Int /\ q * d \in Int
  BY <1>1, Steeper
<1>3. Whole * d = Whole * b - Whole * a
  BY DEF d, Whole
<1>4. Whole * a \in Int /\ Whole * b \in Int
  BY DEF Whole
<1>5. /\ Whole * a <= Whole * a + r * d
      /\ Whole * a + r * d <= Whole * a + q * d
      /\ Whole * a + r * d <= Whole * b
      /\ Whole * a + r * d \in Int
  BY <1>2, <1>3, <1>4
<1> QED
  BY <1>5 DEF d

(* A quantile lies between two neighbours in the sorted order, and the     *)
(* position says which.                                                    *)
LEMMA QuantileBetween ==
    ASSUME NEW s, IsSample(s), Size(s) # 0, NEW fraction \in 0 .. Whole
    PROVE  LET n == Size(s)
               pos == Position(s, fraction)
               m == pos \div Whole
               r == pos % Whole
           IN  /\ n \in Nat /\ n >= 1 /\ pos \in Nat
               /\ m \in Nat /\ r \in 0 .. Whole - 1 /\ pos = Whole * m + r
               /\ pos <= Whole * (n + 1)
               /\ pos < Whole => Quantile(s, fraction) = Whole * Sorted(s, 1)
               /\ pos >= Whole /\ pos >= Whole * n =>
                     Quantile(s, fraction) = Whole * Sorted(s, n)
               /\ pos >= Whole /\ pos < Whole * n =>
                     /\ m \in 1 .. n /\ m + 1 \in 1 .. n
                     /\ Quantile(s, fraction)
                            = Whole * Sorted(s, m) + r * (Sorted(s, m + 1) - Sorted(s, m))
<1> DEFINE n == Size(s)
           pos == Position(s, fraction)
           m == pos \div Whole
           r == pos % Whole
<1>1. n \in Nat /\ n >= 1
  <2>1. n \in Nat
    BY FS_CardinalityType DEF Size, IsSample
  <2> QED
    BY <2>1
<1>2. pos \in Nat /\ pos <= Whole * (n + 1)
  <2>1. fraction \in Nat /\ Whole \in Nat /\ n + 1 \in Nat /\ fraction <= Whole
    BY <1>1 DEF Whole
  <2>2. pos = fraction * (n + 1)
    BY DEF Position
  <2>3. \A k \in Nat : fraction * k \in Nat
    BY <2>1
  <2> HIDE DEF pos, n
  <2>4. fraction * (n + 1) <= Whole * (n + 1)
    BY <2>1, Steeper
  <2> QED
    BY <2>1, <2>2, <2>3, <2>4
<1>3. Quantile(s, fraction) = IF pos < Whole THEN Whole * Sorted(s, 1)
                              ELSE IF pos >= Whole * n THEN Whole * Sorted(s, n)
                              ELSE Whole * Sorted(s, m) + r * (Sorted(s, m + 1) - Sorted(s, m))
  BY DEF Quantile, Between
<1> HIDE DEF n, pos
<1>4. m \in Nat /\ r \in 0 .. Whole - 1 /\ pos = Whole * m + r
  <2>1. m = pos \div Whole /\ r = pos % Whole
    OBVIOUS
  <2> HIDE DEF m, r
  <2> QED
    BY <1>2, <2>1, WholeAndRest
<1> HIDE DEF m, r
<1>5. pos >= Whole /\ pos < Whole * n => m \in 1 .. n /\ m + 1 \in 1 .. n
  BY <1>1, <1>2, <1>4 DEF Whole
<1>6. Whole * n \in Nat
  BY <1>1 DEF Whole
<1> QED
  <2>1. /\ pos < Whole => Quantile(s, fraction) = Whole * Sorted(s, 1)
        /\ pos >= Whole /\ pos >= Whole * n => Quantile(s, fraction) = Whole * Sorted(s, n)
        /\ pos >= Whole /\ pos < Whole * n =>
              Quantile(s, fraction)
                  = Whole * Sorted(s, m) + r * (Sorted(s, m + 1) - Sorted(s, m))
    <3>1. pos >= Whole => ~(pos < Whole)
      BY <1>2 DEF Whole
    <3>2. pos < Whole * n => ~(pos >= Whole * n)
      BY <1>2, <1>6
    <3> QED
      BY <1>3, <3>1, <3>2, Zenon
  <2> QED
    BY <1>1, <1>2, <1>4, <1>5, <2>1, Zenon DEF n, pos, m, r

(* With one value imagined beside them, no more than the fraction of the   *)
(* values is below a quantile and no more than the rest above it, for      *)
(* every sample and every fraction (snapshot.cc, getValue()).              *)
THEOREM QuantileSplits ==
    ASSUME NEW s, IsSample(s), Size(s) # 0, NEW fraction \in 0 .. Whole
    PROVE  Splits(s, fraction)
<1> DEFINE D == DOMAIN s
           n == Size(s)
           pos == Position(s, fraction)
           m == pos \div Whole
           r == pos % Whole
           q == Quantile(s, fraction)
           Low == {i \in D : Whole * s[i] < q}
           High == {i \in D : Whole * s[i] > q}
<1>1. /\ n \in Nat /\ n >= 1 /\ pos \in Nat
      /\ m \in Nat /\ r \in 0 .. Whole - 1 /\ pos = Whole * m + r
      /\ pos <= Whole * (n + 1)
      /\ pos < Whole => q = Whole * Sorted(s, 1)
      /\ pos >= Whole /\ pos >= Whole * n => q = Whole * Sorted(s, n)
      /\ pos >= Whole /\ pos < Whole * n =>
            /\ m \in 1 .. n /\ m + 1 \in 1 .. n
            /\ q = Whole * Sorted(s, m) + r * (Sorted(s, m + 1) - Sorted(s, m))
  BY QuantileBetween, Zenon
<1>2. IsFiniteSet(D) /\ \A i \in D : s[i] \in Int
  BY DEF IsSample
<1>3. pos = fraction * (n + 1)
  BY DEF Position
<1>4. (Whole - fraction) * (n + 1) = Whole * (n + 1) - pos
  <2>1. \A f \in Int, k \in Int : (1000 - f) * k = 1000 * k - f * k
    OBVIOUS
  <2>2. fraction \in Int /\ n + 1 \in Int
    BY <1>1 DEF Whole
  <2> HIDE DEF n, pos
  <2> QED
    BY <1>3, <2>1, <2>2 DEF Whole
<1> HIDE DEF n, pos, m, r, q
<1>5. ASSUME NEW k \in 1 .. n, NEW l \in 1 .. n,
             Whole * Sorted(s, k) <= q, q <= Whole * Sorted(s, l), q \in Int
      PROVE  Cardinality(Low) \in Nat /\ Cardinality(High) \in Nat
             /\ Cardinality(Low) <= l - 1 /\ Cardinality(High) <= n - k
  <2> DEFINE a == Sorted(s, k)
             b == Sorted(s, l)
  <2>1. a \in Int /\ k <= UpTo(s, a)
    BY SortedIs DEF n
  <2>2. b \in Int /\ Below(s, b) < l
    BY SortedIs DEF n
  <2>3. Whole * a <= q /\ q <= Whole * b
    BY <1>5
  <2> HIDE DEF a, b
  <2>4. Low \subseteq {i \in D : s[i] < b}
    BY <1>2, <1>5, <2>2, <2>3 DEF Whole
  <2>5. High \subseteq {i \in D : s[i] > a}
    BY <1>2, <1>5, <2>1, <2>3 DEF Whole
  <2>6. IsFiniteSet({i \in D : s[i] < b}) /\ IsFiniteSet({i \in D : s[i] > a})
    BY <1>2, FS_Subset
  <2>7. /\ Cardinality(Low) \in Nat /\ Cardinality(Low) <= Cardinality({i \in D : s[i] < b})
        /\ Cardinality(High) \in Nat /\ Cardinality(High) <= Cardinality({i \in D : s[i] > a})
    <3> DEFINE B == {i \in D : s[i] < b}
               A == {i \in D : s[i] > a}
    <3>1. Low \subseteq B /\ High \subseteq A /\ IsFiniteSet(A) /\ IsFiniteSet(B)
      BY <2>4, <2>5, <2>6
    <3> HIDE DEF A, B, Low, High
    <3>2. /\ Cardinality(Low) \in Nat /\ Cardinality(Low) <= Cardinality(B)
          /\ Cardinality(High) \in Nat /\ Cardinality(High) <= Cardinality(A)
      BY <3>1, Smaller
    <3> QED
      BY <3>2 DEF A, B
  <2>8. /\ Cardinality({i \in D : s[i] < b}) = Below(s, b) /\ Below(s, b) \in Nat
        /\ Cardinality({i \in D : s[i] > a}) = n - UpTo(s, a) /\ UpTo(s, a) \in Nat
    BY <2>1, <2>2, Counts DEF Below, n
  <2> HIDE DEF Low, High
  <2> QED
    BY <1>1, <2>1, <2>2, <2>7, <2>8
<1> HIDE DEF Low, High
<1>6. /\ Whole * Cardinality(Low) <= pos
      /\ Whole * Cardinality(High) <= Whole * (n + 1) - pos
  <2>1. CASE pos < Whole
    <3>1. q = Whole * Sorted(s, 1) /\ 1 \in 1 .. n /\ Sorted(s, 1) \in Int
      BY <1>1, <2>1, SortedIs DEF n
    <3>2. Whole * Sorted(s, 1) <= q /\ q <= Whole * Sorted(s, 1) /\ q \in Int
      BY <3>1 DEF Whole
    <3>3. /\ Cardinality(Low) \in Nat /\ Cardinality(High) \in Nat
          /\ Cardinality(Low) <= 1 - 1 /\ Cardinality(High) <= n - 1
      BY <1>5, <3>1, <3>2
    <3> QED
      BY <1>1, <2>1, <3>3 DEF Whole
  <2>2. CASE pos >= Whole /\ pos >= Whole * n
    <3>1. q = Whole * Sorted(s, n) /\ n \in 1 .. n /\ Sorted(s, n) \in Int
      BY <1>1, <2>2, SortedIs DEF n
    <3>2. Whole * Sorted(s, n) <= q /\ q <= Whole * Sorted(s, n) /\ q \in Int
      BY <3>1 DEF Whole
    <3>3. /\ Cardinality(Low) \in Nat /\ Cardinality(High) \in Nat
          /\ Cardinality(Low) <= n - 1 /\ Cardinality(High) <= n - n
      BY <1>5, <3>1, <3>2
    <3> QED
      BY <1>1, <2>2, <3>3 DEF Whole
  <2>3. CASE pos >= Whole /\ pos < Whole * n
    <3> DEFINE a == Sorted(s, m)
               b == Sorted(s, m + 1)
    <3>1. /\ m \in 1 .. n /\ m + 1 \in 1 .. n
          /\ q = Whole * a + r * (b - a)
      BY <1>1, <2>3
    <3>2. a \in Int /\ b \in Int /\ a <= b
      BY <1>1, <3>1, SortedIs, SortedRises DEF n
    <3>3. r \in 0 .. Whole /\ r <= r
      BY <1>1 DEF Whole
    <3> HIDE DEF a, b
    <3>4. Whole * a <= q /\ q <= Whole * b /\ q \in Int
      BY <3>1, <3>2, <3>3, Interpolated
    <3>5. /\ Cardinality(Low) \in Nat /\ Cardinality(High) \in Nat
          /\ Cardinality(Low) <= (m + 1) - 1 /\ Cardinality(High) <= n - m
      BY <1>5, <3>1, <3>4 DEF a, b
    <3> QED
      BY <1>1, <3>5 DEF Whole
  <2>4. Whole * n \in Nat
    BY <1>1 DEF Whole
  <2> QED
    BY <1>1, <2>1, <2>2, <2>3, <2>4 DEF Whole
<1> QED
  BY <1>3, <1>4, <1>6 DEF Splits, Low, High, q, n

(* Larger fractions have no smaller quantiles (snapshot.cc, getValue()).   *)
THEOREM QuantileRises ==
    ASSUME NEW s, IsSample(s), Size(s) # 0,
           NEW f \in 0 .. Whole, NEW g \in 0 .. Whole, f <= g
    PROVE  Quantile(s, f) <= Quantile(s, g)
<1> DEFINE n == Size(s)
           posF == Position(s, f)
           mF == posF \div Whole
           rF == posF % Whole
           qF == Quantile(s, f)
           posG == Position(s, g)
           mG == posG \div Whole
           rG == posG % Whole
           qG == Quantile(s, g)
<1>1. /\ n \in Nat /\ n >= 1 /\ posF \in Nat
      /\ mF \in Nat /\ rF \in 0 .. Whole - 1 /\ posF = Whole * mF + rF
      /\ posF <= Whole * (n + 1)
      /\ posF < Whole => qF = Whole * Sorted(s, 1)
      /\ posF >= Whole /\ posF >= Whole * n => qF = Whole * Sorted(s, n)
      /\ posF >= Whole /\ posF < Whole * n =>
            /\ mF \in 1 .. n /\ mF + 1 \in 1 .. n
            /\ qF = Whole * Sorted(s, mF) + rF * (Sorted(s, mF + 1) - Sorted(s, mF))
  BY QuantileBetween, Zenon
<1>2. /\ posG \in Nat
      /\ mG \in Nat /\ rG \in 0 .. Whole - 1 /\ posG = Whole * mG + rG
      /\ posG < Whole => qG = Whole * Sorted(s, 1)
      /\ posG >= Whole /\ posG >= Whole * n => qG = Whole * Sorted(s, n)
      /\ posG >= Whole /\ posG < Whole * n =>
            /\ mG \in 1 .. n /\ mG + 1 \in 1 .. n
            /\ qG = Whole * Sorted(s, mG) + rG * (Sorted(s, mG + 1) - Sorted(s, mG))
  BY QuantileBetween, Zenon
<1>3. posF <= posG
  <2>1. f \in Nat /\ g \in Nat /\ n + 1 \in Nat
    BY <1>1 DEF Whole
  <2>2. posF = f * (n + 1) /\ posG = g * (n + 1)
    BY DEF Position
  <2> HIDE DEF n, posF, posG
  <2> QED
    BY <2>1, <2>2, Steeper
<1> HIDE DEF n, posF, mF, rF, qF, posG, mG, rG, qG
<1>4. \A i \in 1 .. n : Sorted(s, i) \in Int
  BY SortedIs DEF n
<1>5. \A i, j \in 1 .. n : i <= j => Whole * Sorted(s, i) <= Whole * Sorted(s, j)
  <2> SUFFICES ASSUME NEW i \in 1 .. n, NEW j \in 1 .. n, i <= j
               PROVE  Whole * Sorted(s, i) <= Whole * Sorted(s, j)
    OBVIOUS
  <2>1. Sorted(s, i) <= Sorted(s, j) /\ Sorted(s, i) \in Int /\ Sorted(s, j) \in Int
    BY <1>4, SortedRises DEF n
  <2> QED
    BY <2>1 DEF Whole
<1>6. 1 \in 1 .. n /\ n \in 1 .. n /\ \A i \in 1 .. n : 1 <= i /\ i <= n
  BY <1>1
<1>7. ASSUME posG >= Whole, posG < Whole * n
      PROVE  /\ mG \in 1 .. n /\ mG + 1 \in 1 .. n /\ qG \in Int
             /\ Whole * Sorted(s, mG) <= qG
  <2>1. /\ mG \in 1 .. n /\ mG + 1 \in 1 .. n /\ mG <= mG + 1
        /\ qG = Whole * Sorted(s, mG) + rG * (Sorted(s, mG + 1) - Sorted(s, mG))
    BY <1>2, <1>7
  <2>2. Sorted(s, mG) \in Int /\ Sorted(s, mG + 1) \in Int /\ Sorted(s, mG) <= Sorted(s, mG + 1)
    BY <1>4, <2>1, SortedRises DEF n
  <2>3. rG \in 0 .. Whole /\ rG <= rG
    BY <1>2 DEF Whole
  <2> QED
    BY <2>1, <2>2, <2>3, Interpolated
<1>8. ASSUME posF >= Whole, posF < Whole * n
      PROVE  /\ mF \in 1 .. n /\ mF + 1 \in 1 .. n /\ qF \in Int
             /\ qF <= Whole * Sorted(s, mF + 1)
  <2>1. /\ mF \in 1 .. n /\ mF + 1 \in 1 .. n /\ mF <= mF + 1
        /\ qF = Whole * Sorted(s, mF) + rF * (Sorted(s, mF + 1) - Sorted(s, mF))
    BY <1>1, <1>8
  <2>2. Sorted(s, mF) \in Int /\ Sorted(s, mF + 1) \in Int /\ Sorted(s, mF) <= Sorted(s, mF + 1)
    BY <1>4, <2>1, SortedRises DEF n
  <2>3. rF \in 0 .. Whole /\ rF <= rF
    BY <1>1 DEF Whole
  <2> QED
    BY <2>1, <2>2, <2>3, Interpolated
<1>9. Whole \in Nat /\ Whole * n \in Nat /\ \A i \in 1 .. n : Whole * Sorted(s, i) \in Int
  BY <1>1, <1>4 DEF Whole
<1>10. CASE posF < Whole
  <2>1. qF = Whole * Sorted(s, 1)
    BY <1>1, <1>10
  <2>2. CASE posG < Whole
    BY <1>2, <1>6, <1>9, <2>1, <2>2 DEF qF, qG
  <2>3. CASE posG >= Whole /\ posG >= Whole * n
    BY <1>2, <1>5, <1>6, <2>1, <2>3 DEF qF, qG
  <2>4. CASE posG >= Whole /\ posG < Whole * n
    <3>1. Whole * Sorted(s, 1) <= Whole * Sorted(s, mG)
      BY <1>5, <1>6, <1>7, <2>4
    <3> QED
      BY <1>6, <1>7, <1>9, <2>1, <2>4, <3>1 DEF qF, qG
  <2> QED
    BY <1>2, <1>9, <2>2, <2>3, <2>4 DEF qF, qG
<1>11. CASE posF >= Whole /\ posF >= Whole * n
  <2>1. posG >= Whole /\ posG >= Whole * n
    BY <1>1, <1>2, <1>3, <1>9, <1>11
  <2>2. qF = Whole * Sorted(s, n) /\ qG = Whole * Sorted(s, n)
    BY <1>1, <1>2, <1>11, <2>1
  <2> QED
    BY <1>6, <1>9, <2>2 DEF qF, qG
<1>12. CASE posF >= Whole /\ posF < Whole * n
  <2>1. /\ mF \in 1 .. n /\ mF + 1 \in 1 .. n /\ qF \in Int
        /\ qF <= Whole * Sorted(s, mF + 1)
    BY <1>8, <1>12
  <2>2. posG >= Whole
    BY <1>1, <1>2, <1>3, <1>9, <1>12
  <2>3. CASE posG >= Whole * n
    <3>1. qG = Whole * Sorted(s, n)
      BY <1>2, <2>2, <2>3
    <3>2. Whole * Sorted(s, mF + 1) <= Whole * Sorted(s, n)
      BY <1>5, <1>6, <2>1
    <3> QED
      BY <1>6, <1>9, <2>1, <3>1, <3>2 DEF qF, qG
  <2>4. CASE posG < Whole * n
    <3>1. mG \in 1 .. n /\ qG \in Int /\ Whole * Sorted(s, mG) <= qG
      BY <1>7, <2>2, <2>4
    <3>2. CASE mF = mG
      <4> DEFINE a == Sorted(s, mF)
                 b == Sorted(s, mF + 1)
      <4>1. qF = Whole * a + rF * (b - a)
        BY <1>1, <1>12
      <4>2. qG = Whole * a + rG * (b - a)
        BY <1>2, <2>2, <2>4, <3>2
      <4>3. rF <= rG /\ rF \in 0 .. Whole /\ rG \in 0 .. Whole
        BY <1>1, <1>2, <1>3, <3>2 DEF Whole
      <4>4. a \in Int /\ b \in Int /\ a <= b
        BY <1>1, <1>4, <2>1, SortedRises DEF n
      <4> HIDE DEF a, b
      <4> QED
        BY <4>1, <4>2, <4>3, <4>4, Interpolated DEF qF, qG
    <3>3. CASE mF < mG
      <4>1. Whole * Sorted(s, mF + 1) <= Whole * Sorted(s, mG)
        BY <1>5, <2>1, <3>1, <3>3
      <4> QED
        BY <1>9, <2>1, <3>1, <4>1 DEF qF, qG
    <3>4. ~(mG < mF)
      <4>1. /\ mF \in Nat /\ rF \in Nat /\ posF = 1000 * mF + rF
            /\ mG \in Nat /\ rG \in 0 .. 999 /\ posG = 1000 * mG + rG
        BY <1>1, <1>2 DEF Whole
      <4> QED
        BY <1>3, <4>1
    <3> QED
      BY <2>1, <3>1, <3>2, <3>3, <3>4
  <2> QED
    BY <1>2, <1>9, <2>3, <2>4
<1> QED
  BY <1>1, <1>9, <1>10, <1>11, <1>12

(* The quantiles of what snapshot() shows of the sample divide its values  *)
(* as they say and rise with the fraction, in every state.                 *)
THEOREM QuantilesSplitHolds == Spec => []QuantilesSplit
<1>1. IndInv => QuantilesSplit
  <2> SUFFICES ASSUME IndInv
               PROVE  Rises(values) /\ \A f \in NamedFractions \cup {0, Whole} :
                                           values # NoValues => Splits(values, f)
    BY DEF QuantilesSplit, Shown
  <2>1. IsMap(values)
    BY Facts
  <2>2. IsSample(values) /\ (Size(values) = 0 <=> values = NoValues)
    BY <2>1, EmptyMap DEF IsMap, IsSample, Size
  <2>3. NamedFractions \cup {0, Whole} \subseteq 0 .. Whole
    BY DEF NamedFractions, Whole
  <2>4. ASSUME NEW f \in NamedFractions, NEW g \in NamedFractions, f <= g
        PROVE  Quantile(values, f) <= Quantile(values, g)
    <3>1. CASE Size(values) = 0
      BY <3>1 DEF Quantile
    <3>2. CASE Size(values) # 0
      BY <2>2, <2>3, <2>4, <3>2, QuantileRises
    <3> QED
      BY <3>1, <3>2
  <2>5. ASSUME NEW f \in NamedFractions \cup {0, Whole}, values # NoValues
        PROVE  Splits(values, f)
    BY <2>2, <2>3, <2>5, QuantileSplits
  <2> QED
    BY <2>4, <2>5 DEF Rises
<1> QED
  BY <1>1, IndInvHolds, PTL

=============================================================================
