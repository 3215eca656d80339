--------------------------- MODULE ProcessProofs ---------------------------
(***************************************************************************)
(* Proofs about what a Gateway starts and must end: ProcessSessions, for   *)
(* every number of calls, pids and processes and all limits, as long as    *)
(* the pid of a process is not given again before its close event; then    *)
(* Gateway, for every number of clients, peers, connections and failures,  *)
(* on Windows and on Unix.                                                 *)
(***************************************************************************)
EXTENDS ProcessSessions, FiniteSetTheorems, SequenceTheorems, WellFoundedInduction, TLAPS

CONSTANTS Calls, Peers, Unix, MaxConnections, MaxFaults, None

VARIABLES
    thread, server, given, closed, startupLock, peer, http, left, available, client,
    starting, stage, child, call, faults

G == INSTANCE Gateway WITH pc <- thread

-----------------------------------------------------------------------------
(* Numbers and lists.                                                      *)

(* A set of numbers has a least one.                                       *)
LEMMA LeastNatural ==
    ASSUME NEW S \in SUBSET Nat, S # {}
    PROVE  \E n \in S : \A m \in S : n <= m
<1> DEFINE R == OpToRel(<, Nat)
<1>1. IsWellFoundedOn(R, Nat)
  BY NatLessThanWellFounded
<1>2. \A m, n \in Nat : m < n => <<m, n>> \in R
  BY DEF OpToRel
<1> HIDE DEF R
<1>3. PICK n \in S : \A m \in S : <<m, n>> \notin R
  BY <1>1, WFMin
<1>4. \A m \in S : ~(m < n)
  BY <1>2, <1>3
<1>5. n \in Nat /\ \A m \in S : m \in Nat
  OBVIOUS
<1>6. QED
  BY <1>4, <1>5

(* Induction by a set of numbers.                                          *)
LEMMA AllNumbers ==
    ASSUME NEW N \in SUBSET Nat, 0 \in N, \A n \in N : n + 1 \in N
    PROVE  N = Nat
<1> SUFFICES ASSUME Nat \ N # {} PROVE FALSE
  OBVIOUS
<1>1. PICK n \in Nat \ N : \A m \in Nat \ N : n <= m
  BY LeastNatural
<1>2. n - 1 \in Nat /\ n - 1 \notin Nat \ N
  BY <1>1
<1>3. QED
  BY <1>1, <1>2

(* The greatest of some numbers.                                           *)
LEMMA GreatestNumber ==
    ASSUME NEW n \in Nat, NEW S \in SUBSET (1 .. n), S # {}
    PROVE  Max(S) \in S /\ \A m \in S : m <= Max(S)
<1> DEFINE Bounds == {b \in Nat : \A m \in S : m <= b}
<1>1. n \in Bounds /\ Bounds \in SUBSET Nat
  OBVIOUS
<1>2. PICK b \in Bounds : \A d \in Bounds : b <= d
  BY <1>1, LeastNatural
<1>3. PICK k \in S : TRUE
  OBVIOUS
<1>4. b \in S
  <2> SUFFICES ASSUME b \notin S PROVE FALSE
    OBVIOUS
  <2>1. b \in Nat /\ k <= b /\ k \in 1 .. n
    BY <1>3
  <2>2. \A m \in S : m <= b - 1
    <3> TAKE m \in S
    <3>1. m \in Nat /\ m <= b /\ m # b
      OBVIOUS
    <3>2. QED
      BY <2>1, <3>1
  <2>3. b - 1 \in Bounds
    BY <2>1, <2>2
  <2>4. QED
    BY <1>2, <2>1, <2>3
<1>5. \A m \in S : b >= m
  <2> TAKE m \in S
  <2>1. m \in Nat /\ b \in Nat /\ m <= b
    OBVIOUS
  <2>2. QED
    BY <2>1
<1>6. Max(S) = CHOOSE x \in S : \A m \in S : x >= m
  BY DEF Max
<1>7. Max(S) \in S /\ \A m \in S : Max(S) >= m
  BY <1>4, <1>5, <1>6
<1>8. \A m \in S : m \in Nat
  OBVIOUS
<1>9. QED
  BY <1>7, <1>8

(* The greatest of the first numbers.                                      *)
LEMMA GreatestUpto == \A n \in Nat : Max(1 .. n + 1) = n + 1
<1> TAKE n \in Nat
<1> DEFINE I == 1 .. n + 1
<1>1. I # {} /\ I \subseteq 1 .. n + 1 /\ n + 1 \in I /\ n + 1 \in Nat
  OBVIOUS
<1> HIDE DEF I
<1>2. Max(I) \in I /\ \A m \in I : m <= Max(I)
  BY <1>1, GreatestNumber
<1>3. QED
  BY <1>1, <1>2 DEF I

-----------------------------------------------------------------------------
(* What Keep keeps.                                                        *)

(* The equation of the fold's function on the sets of indices, for g.      *)
Selects(g, ss, K, s) ==
    IF s = {} THEN <<>>
    ELSE LET n == Max(s)
         IN  IF ss[n] \in K THEN Append(g[s \ {n}], ss[n]) ELSE g[s \ {n}]

SelectsUpto(n, g, ss, K) ==
    /\ g = [s \in SUBSET DOMAIN ss |-> g[s]]
    /\ \A s \in SUBSET DOMAIN ss : Cardinality(s) <= n => g[s] = Selects(g, ss, K, s)

IsSelection(g, ss, K) == g = [s \in SUBSET DOMAIN ss |-> Selects(g, ss, K, s)]

(* Such a function exists.                                                 *)
LEMMA SelectionExists ==
    ASSUME NEW S, NEW ss \in Seq(S), NEW K
    PROVE  \E g : IsSelection(g, ss, K)
<1> DEFINE D == DOMAIN ss
           N == {n \in Nat : \E g : SelectsUpto(n, g, ss, K)}
<1>0. D = 1 .. Len(ss) /\ Len(ss) \in Nat
  BY LenProperties
<1>f. IsFiniteSet(D)
  BY <1>0, FS_Interval
<1>1. \A s \in SUBSET D : IsFiniteSet(s) /\ Cardinality(s) \in Nat
                          /\ Cardinality(s) <= Cardinality(D)
  BY <1>f, FS_Subset, FS_CardinalityType
<1>2. \A s \in SUBSET D : \A x \in s : s \ {x} \in SUBSET D
                                   /\ Cardinality(s \ {x}) = Cardinality(s) - 1
  BY <1>1, FS_RemoveElement
<1>m. \A s \in SUBSET D : s # {} => Max(s) \in s
  BY <1>0, GreatestNumber
<1> HIDE DEF D
<1>3. 0 \in N
  <2> DEFINE none == [s \in SUBSET D |-> <<>>]
  <2>1. \A s \in SUBSET D : Cardinality(s) <= 0 => s = {}
    BY <1>1, FS_EmptySet
  <2>2. SelectsUpto(0, none, ss, K)
    BY <2>1 DEF Selects, SelectsUpto, D
  <2>3. QED
    BY <2>2
<1>4. ASSUME NEW n \in N PROVE n + 1 \in N
  <2>1. PICK g : SelectsUpto(n, g, ss, K)
    OBVIOUS
  <2> DEFINE h == [t \in SUBSET D |-> IF Cardinality(t) <= n THEN g[t] ELSE Selects(g, ss, K, t)]
  <2>2. ASSUME NEW s \in SUBSET D, Cardinality(s) <= n + 1
        PROVE  Selects(h, ss, K, s) = Selects(g, ss, K, s)
    <3>1. CASE s = {}
      BY <3>1 DEF Selects
    <3>2. CASE s # {}
      <4> DEFINE x == Max(s)
      <4>1. x \in s
        BY <1>m, <3>2
      <4> HIDE DEF x
      <4>2. s \ {x} \in SUBSET D /\ Cardinality(s \ {x}) <= n
        BY <1>1, <1>2, <2>2, <4>1
      <4>3. h[s \ {x}] = g[s \ {x}]
        BY <4>2
      <4> HIDE DEF h
      <4>4. QED
        BY <3>2, <4>3 DEF Selects, x
    <3>3. QED
      BY <3>1, <3>2
  <2>3. ASSUME NEW s \in SUBSET D, Cardinality(s) <= n + 1 PROVE h[s] = Selects(h, ss, K, s)
    <3>1. h[s] = Selects(g, ss, K, s)
      BY <2>1 DEF SelectsUpto, D
    <3> HIDE DEF h
    <3>2. QED
      BY <3>1, <2>2, <2>3
  <2>4. h = [s \in SUBSET D |-> h[s]]
    OBVIOUS
  <2> HIDE DEF h
  <2>5. SelectsUpto(n + 1, h, ss, K)
    BY <2>3, <2>4 DEF SelectsUpto, D
  <2>6. QED
    BY <2>5
<1> HIDE DEF N
<1>5. Cardinality(D) \in N
  <2>1. N \in SUBSET Nat
    BY DEF N
  <2>2. QED
    BY <1>f, <1>1, <1>3, <1>4, <2>1, AllNumbers, FS_CardinalityType
<1>6. PICK g : SelectsUpto(Cardinality(D), g, ss, K)
  BY <1>5 DEF N
<1>7. \A s \in SUBSET D : g[s] = Selects(g, ss, K, s)
  BY <1>1, <1>6 DEF SelectsUpto, D
<1>8. IsSelection(g, ss, K)
  BY <1>6, <1>7 DEF SelectsUpto, IsSelection, D
<1>9. QED
  BY <1>8

(* Each element is listed once.                                            *)
Distinct(ss) == \A m, n \in DOMAIN ss : ss[m] = ss[n] => m = n

(* What has been kept of the first n elements.                             *)
KeptOf(h, n, S, ss, K) ==
    /\ h \in Seq(S)
    /\ ToSet(h) = {ss[m] : m \in 1 .. n} \cap K
    /\ Distinct(ss) => Distinct(h)

(* What an element that is appended adds to a list.                        *)
LEMMA AppendSet ==
    ASSUME NEW S, NEW h \in Seq(S), NEW x \in S
    PROVE  /\ Append(h, x) \in Seq(S) /\ ToSet(Append(h, x)) = ToSet(h) \cup {x}
           /\ Distinct(h) /\ x \notin ToSet(h) => Distinct(Append(h, x))
<1>1. /\ Append(h, x) \in Seq(S) /\ DOMAIN Append(h, x) = 1 .. Len(h) + 1
      /\ \A i \in 1 .. Len(h) : Append(h, x)[i] = h[i] /\ Append(h, x)[Len(h) + 1] = x
      /\ Append(h, x)[Len(h) + 1] = x
      /\ DOMAIN h = 1 .. Len(h) /\ Len(h) \in Nat
  BY AppendProperties, LenProperties
<1>2. ToSet(Append(h, x)) = ToSet(h) \cup {x}
  BY <1>1 DEF ToSet
<1>3. ASSUME Distinct(h), x \notin ToSet(h) PROVE Distinct(Append(h, x))
  <2>1. \A i \in 1 .. Len(h) : Append(h, x)[i] # x
    BY <1>1, <1>3 DEF ToSet
  <2>2. QED
    BY <1>1, <1>3, <2>1 DEF Distinct
<1>4. QED
  BY <1>1, <1>2, <1>3

(* Keep lists what its argument lists and K has, each once if it did.      *)
LEMMA KeepProperties ==
    ASSUME NEW S, NEW ss \in Seq(S), NEW K
    PROVE  /\ Keep(ss, K) \in Seq(S)
           /\ ToSet(Keep(ss, K)) = ToSet(ss) \cap K
           /\ Distinct(ss) => Distinct(Keep(ss, K))
<1> DEFINE D == DOMAIN ss
           g == CHOOSE f : IsSelection(f, ss, K)
<1>0. D = 1 .. Len(ss) /\ Len(ss) \in Nat /\ \A n \in D : ss[n] \in S
  BY LenProperties, ElementOfSeq
<1>1. Keep(ss, K) = g[D]
  BY DEF Keep, FoldLeft, MapThenFoldSet, Selects, IsSelection
<1>2. IsSelection(g, ss, K)
  BY SelectionExists
<1> HIDE DEF g
<1>3. \A s \in SUBSET D : g[s] = Selects(g, ss, K, s)
  BY <1>2 DEF IsSelection
<1> DEFINE N == {n \in Nat : n <= Len(ss) => KeptOf(g[1 .. n], n, S, ss, K)}
<1>4. 0 \in N
  <2>1. g[1 .. 0] = <<>>
    <3>1. 1 .. 0 = {} /\ {} \in SUBSET D
      OBVIOUS
    <3>2. QED
      BY <1>3, <3>1 DEF Selects
  <2>2. KeptOf(<<>>, 0, S, ss, K)
    BY DEF KeptOf, Distinct, ToSet
  <2>3. QED
    BY <2>1, <2>2
<1>5. ASSUME NEW n \in N PROVE n + 1 \in N
  <2> SUFFICES ASSUME n + 1 <= Len(ss) PROVE KeptOf(g[1 .. n + 1], n + 1, S, ss, K)
    OBVIOUS
  <2> DEFINE h == g[1 .. n]
             x == ss[n + 1]
  <2>1. KeptOf(h, n, S, ss, K) /\ n \in Nat /\ n + 1 \in D /\ 1 .. n + 1 \in SUBSET D /\ x \in S
    BY <1>0
  <2>2. Max(1 .. n + 1) = n + 1
    BY <2>1, GreatestUpto
  <2>3. (1 .. n + 1) \ {n + 1} = 1 .. n /\ 1 .. n + 1 # {}
    BY <2>1
  <2>4. g[1 .. n + 1] = IF x \in K THEN Append(h, x) ELSE h
    BY <1>3, <2>1, <2>2, <2>3 DEF Selects
  <2>5. {ss[m] : m \in 1 .. n + 1} = {ss[m] : m \in 1 .. n} \cup {x}
    <3>1. 1 .. n + 1 = (1 .. n) \cup {n + 1}
      BY <2>1
    <3>2. QED
      BY <3>1
  <2>6. Distinct(ss) => x \notin {ss[m] : m \in 1 .. n}
    BY <1>0, <2>1 DEF Distinct
  <2> HIDE DEF h, x
  <2>7. CASE x \in K
    <3>1. /\ Append(h, x) \in Seq(S) /\ ToSet(Append(h, x)) = ToSet(h) \cup {x}
          /\ Distinct(h) /\ x \notin ToSet(h) => Distinct(Append(h, x))
      BY <2>1, AppendSet DEF KeptOf
    <3>2. QED
      BY <2>1, <2>4, <2>5, <2>6, <2>7, <3>1 DEF KeptOf
  <2>8. CASE x \notin K
    BY <2>1, <2>4, <2>5, <2>8 DEF KeptOf
  <2>9. QED
    BY <2>7, <2>8
<1>6. N = Nat
  BY <1>4, <1>5, AllNumbers
<1>7. KeptOf(g[D], Len(ss), S, ss, K)
  BY <1>0, <1>6
<1>8. {ss[m] : m \in 1 .. Len(ss)} = ToSet(ss)
  BY <1>0 DEF ToSet
<1>9. QED
  BY <1>1, <1>7, <1>8 DEF KeptOf

(* A list without repetitions is as long as its set.                       *)
LEMMA ListLength ==
    ASSUME NEW S, NEW ss \in Seq(S), Distinct(ss)
    PROVE  /\ ToSet(ss) \in SUBSET S /\ IsFiniteSet(ToSet(ss))
           /\ Cardinality(ToSet(ss)) = Len(ss) /\ Len(ss) \in Nat
<1>1. ss \in [1 .. Len(ss) -> S] /\ Len(ss) \in Nat
  BY LenProperties
<1>2. ss \in Surjection(1 .. Len(ss), ToSet(ss)) /\ ss \in Injection(1 .. Len(ss), ToSet(ss))
  <2>1. \A i \in 1 .. Len(ss) : ss[i] \in ToSet(ss)
    BY <1>1 DEF ToSet
  <2>2. ss \in [1 .. Len(ss) -> ToSet(ss)]
    BY <1>1, <2>1
  <2>3. \A t \in ToSet(ss) : \E i \in 1 .. Len(ss) : ss[i] = t
    BY <1>1 DEF ToSet
  <2>4. \A i, j \in 1 .. Len(ss) : ss[i] = ss[j] => i = j
    BY <1>1 DEF Distinct
  <2>5. QED
    BY <2>2, <2>3, <2>4 DEF Surjection, Injection, IsInjective
<1>3. IsFiniteSet(1 .. Len(ss)) /\ Cardinality(1 .. Len(ss)) = Len(ss)
  <2>1. 1 \in Int /\ Len(ss) \in Int
    BY <1>1
  <2>2. /\ IsFiniteSet(1 .. Len(ss))
        /\ Cardinality(1 .. Len(ss)) = IF 1 > Len(ss) THEN 0 ELSE Len(ss) - 1 + 1
    BY <2>1, FS_Interval
  <2>3. QED
    BY <1>1, <2>2
<1>4. IsFiniteSet(ToSet(ss)) /\ Cardinality(ToSet(ss)) = Len(ss)
  BY <1>2, <1>3, FS_Surjection
<1>5. QED
  BY <1>1, <1>4 DEF ToSet

(* The first k elements of a list without repetitions are k.               *)
LEMMA FirstElements ==
    ASSUME NEW S, NEW ss \in Seq(S), Distinct(ss), NEW k \in Nat, k <= Len(ss)
    PROVE  LET first == {ss[n] : n \in {m \in DOMAIN ss : m <= k}}
           IN  IsFiniteSet(first) /\ Cardinality(first) = k
<1> DEFINE first == {ss[n] : n \in {m \in DOMAIN ss : m <= k}}
           f == [n \in 1 .. k |-> ss[n]]
<1>1. DOMAIN ss = 1 .. Len(ss) /\ Len(ss) \in Nat
  BY LenProperties
<1>2. {m \in DOMAIN ss : m <= k} = 1 .. k /\ 1 .. k \subseteq DOMAIN ss
  BY <1>1
<1>3. first = {ss[n] : n \in 1 .. k}
  BY <1>2
<1>4. f \in Surjection(1 .. k, first) /\ f \in Injection(1 .. k, first)
  <2>1. f \in [1 .. k -> first] /\ \A t \in first : \E n \in 1 .. k : f[n] = t
    BY <1>3
  <2>2. \A m, n \in 1 .. k : f[m] = f[n] => m = n
    BY <1>2 DEF Distinct
  <2>3. QED
    BY <2>1, <2>2 DEF Surjection, Injection, IsInjective
<1> HIDE DEF first, f
<1>5. IsFiniteSet(1 .. k) /\ Cardinality(1 .. k) = k
  <2>1. 1 \in Int /\ k \in Int
    OBVIOUS
  <2>2. IsFiniteSet(1 .. k) /\ Cardinality(1 .. k) = IF 1 > k THEN 0 ELSE k - 1 + 1
    BY <2>1, FS_Interval
  <2>3. QED
    BY <2>2
<1>6. IsFiniteSet(first) /\ Cardinality(first) = k
  BY <1>4, <1>5, FS_Surjection
<1>7. QED
  BY <1>6 DEF first

(* The pruned history lists every active session, and no more than         *)
(* MaxTracked unless they are all active.                                  *)
LEMMA PruneProperties ==
    ASSUME MaxTracked \in Nat, NEW S, NEW ss \in Seq(S), Distinct(ss), NEW act
    PROVE  /\ PruneHistory(ss, act) \in Seq(S) /\ Distinct(PruneHistory(ss, act))
           /\ ToSet(PruneHistory(ss, act)) \subseteq ToSet(ss)
           /\ \A s \in ToSet(ss) : act[s] => s \in ToSet(PruneHistory(ss, act))
           /\ \/ Len(PruneHistory(ss, act)) <= MaxTracked
              \/ \A s \in ToSet(PruneHistory(ss, act)) : act[s]
<1> DEFINE pruned == PruneHistory(ss, act)
           live == {s \in ToSet(ss) : act[s]}
           idle == {s \in ToSet(ss) : ~act[s]}
           old == Keep(ss, idle)
           extra == Len(ss) - MaxTracked
           gone == {old[n] : n \in {m \in DOMAIN old : m <= extra}}
<1>1. pruned = Keep(ss, ToSet(ss) \ gone)
  BY DEF PruneHistory
<1>2. old \in Seq(S) /\ ToSet(old) = idle /\ Distinct(old)
  <2>1. ToSet(ss) \cap idle = idle
    OBVIOUS
  <2> HIDE DEF idle
  <2>2. QED
    BY <2>1, KeepProperties
<1>3. live \cap idle = {} /\ ToSet(ss) = live \cup idle
  OBVIOUS
<1> HIDE DEF old, live, idle
<1>4. gone \subseteq idle
  BY <1>2 DEF ToSet
<1>5. pruned \in Seq(S) /\ Distinct(pruned) /\ ToSet(pruned) = ToSet(ss) \ gone
  <2> HIDE DEF gone, pruned
  <2>1. ToSet(ss) \cap (ToSet(ss) \ gone) = ToSet(ss) \ gone
    OBVIOUS
  <2>2. QED
    BY <1>1, <2>1, KeepProperties
<1>6. /\ IsFiniteSet(ToSet(ss)) /\ Cardinality(ToSet(ss)) = Len(ss) /\ Len(ss) \in Nat
      /\ Cardinality(ToSet(pruned)) = Len(pruned) /\ Len(pruned) \in Nat
      /\ Len(old) \in Nat /\ DOMAIN old = 1 .. Len(old)
  <2> HIDE DEF pruned
  <2>1. QED
    BY <1>2, <1>5, ListLength, LenProperties
<1> HIDE DEF pruned
<1>7. CASE extra <= 0
  <2>1. Cardinality(ToSet(ss) \ gone) <= Cardinality(ToSet(ss))
    <3> HIDE DEF gone
    <3>1. ToSet(ss) \ gone \in SUBSET ToSet(ss)
      OBVIOUS
    <3>2. QED
      BY <1>6, <3>1, FS_Subset
  <2>2. Len(pruned) <= MaxTracked
    BY <1>5, <1>6, <1>7, <2>1
  <2>3. QED
    BY <1>3, <1>4, <1>5, <2>2 DEF pruned, live
<1>8. CASE extra > Len(old)
  <2>1. {m \in DOMAIN old : m <= extra} = DOMAIN old
    BY <1>6, <1>8
  <2>2. gone = idle
    BY <1>2, <2>1 DEF ToSet
  <2>3. ToSet(pruned) = live
    BY <1>3, <1>5, <2>2
  <2>4. QED
    BY <1>3, <1>5, <2>3 DEF pruned, live
<1>9. CASE 0 < extra /\ extra <= Len(old)
  <2>1. extra \in Nat
    BY <1>6, <1>9
  <2>2. IsFiniteSet(gone) /\ Cardinality(gone) = extra
    <3> HIDE DEF extra
    <3>1. QED
      BY <1>2, <1>9, <2>1, FirstElements
  <2>3. Cardinality(ToSet(ss) \ gone) = Len(ss) - extra
    <3>1. ToSet(ss) \cap gone = gone
      BY <1>3, <1>4
    <3> HIDE DEF gone, extra
    <3>2. Cardinality(ToSet(ss) \ gone)
            = Cardinality(ToSet(ss)) - Cardinality(ToSet(ss) \cap gone)
      BY <1>6, FS_Difference
    <3>3. QED
      BY <1>6, <2>2, <3>1, <3>2
  <2>4. Len(pruned) <= MaxTracked
    BY <1>5, <1>6, <2>3
  <2>5. QED
    BY <1>3, <1>4, <1>5, <2>4 DEF pruned, live
<1>10. QED
  BY <1>6, <1>7, <1>8, <1>9

(* A process keeps its pid until its close event has run.                  *)
PidsKept == Parameters /\ Reuse # "afterExit"

(* The parts of TypeOK; the length of the registry follows later.          *)
CallsTyped ==
    /\ pc \in [Req -> CallPc]
    /\ cur \in [Req -> Process \cup {0}] /\ entry \in [Req -> Process \cup {0}]

ShutdownTyped ==
    /\ phase \in {"up", "cleanup", "closing", "down"}
    /\ owned \in Seq([id : Process, live : BOOLEAN])
    /\ closing \subseteq Process /\ known \subseteq Process

Typed ==
    /\ os \in [Process -> {"none", "running", "exited", "closed"}]
    /\ pidOf \in [Process -> Pid \cup {0}]
    /\ backend \in [Pid -> Process \cup {0}]
    /\ sessions \in Seq(Process) /\ Distinct(sessions)
    /\ active \in [Process -> BOOLEAN]
    /\ pending \subseteq Req /\ IsFiniteSet(pending)
    /\ CallsTyped /\ ShutdownTyped

(* No later process has the pid of i.                                      *)
Latest(i) == \A j \in Spawned : pidOf[j] = pidOf[i] => j <= i

(* Processes are spawned in the order of their numbers, each with a pid.   *)
SpawnedFirst ==
    \A i \in Spawned : pidOf[i] \in Pid /\ \A j \in Process : j < i => j \in Spawned

(* The backend's entry of a pid is the latest process of it.               *)
BackendLatest ==
    \A p \in Pid : backend[p] # 0 =>
        backend[p] \in Spawned /\ pidOf[backend[p]] = p /\ Latest(backend[p])

(* Every session has been spawned, and has its pid alone.                  *)
OneSessionPerPid ==
    /\ Tracked \subseteq Spawned
    /\ \A s, t \in Tracked : pidOf[s] = pidOf[t] => s = t

(* A start holds its reservation until its process, which is no session    *)
(* yet and no other start's, is registered.                                *)
StartsPending ==
    \A r \in Req :
        /\ pc[r] \in {"spawn", "starting"} => r \in pending
        /\ pc[r] = "starting" =>
              /\ cur[r] \in Spawned /\ Latest(cur[r]) /\ cur[r] \notin Tracked
              /\ \A q \in Req : pc[q] = "starting" /\ cur[q] = cur[r] => q = r

(* A pid goes to a new process when the last one of it has closed; if pids *)
(* are never used again, no two processes share one.                       *)
OlderClosed == \A i, j \in Spawned : i < j /\ pidOf[i] = pidOf[j] => os[i] = "closed"
PidsNew == Reuse = "never" => \A i, j \in Spawned : pidOf[i] = pidOf[j] => i = j

(* Until it is closed the backend has the entry of each process that       *)
(* lives.                                                                  *)
BackendKnows ==
    phase # "down" =>
        \A i \in Process : os[i] \in {"running", "exited"} => backend[pidOf[i]] = i

(* A call that has taken the entry of its session's pid took the session's *)
(* own process or a later one of the pid.                                  *)
About(i, j) == i \in Spawned /\ j \in Spawned /\ pidOf[i] = pidOf[j] /\ i <= j

CallAbout(r) ==
    /\ pc[r] \notin {"idle", "refused", "spawn"} => cur[r] \in Spawned
    /\ pc[r] \in {"killWait", "termWait"} => About(cur[r], entry[r]) /\ Latest(entry[r])
    /\ pc[r] = "reading" => About(cur[r], entry[r])
    /\ pc[r] = "termDone" => os[cur[r]] = "closed"

CallsAbout == \A r \in Req : CallAbout(r)

(* The shutdown ends only what was spawned.                                *)
OwnedSpawned == \A n \in DOMAIN owned : owned[n].id \in Spawned

(* What the close of the backend waits for is what it knew to be alive.    *)
Closes ==
    /\ phase = "closing" =>
          \A i \in known : os[i] \in {"none", "running", "exited"} => i \in closing
    /\ phase \in {"closing", "down"} => \A i \in known : os[i] # "none"
    /\ phase = "down" /\ ~MayHang => \A i \in known : os[i] # "running"
    /\ phase \in {"closing", "down"} /\ ~MayLeave => Spawned \subseteq known

(* The shutdown begins when no call is under way.                          *)
Quiet == ~MayLeave /\ phase # "up" => \A r \in Req : pc[r] = "idle"

(* Whose process a session id, an entry and a start lead to.               *)
Reaching == SpawnedFirst /\ BackendLatest /\ OneSessionPerPid /\ StartsPending
            /\ ReachesOwnUnlessStarting

(* What holds of the processes, their pids and the calls.                  *)
Holding == OlderClosed /\ PidsNew /\ BackendKnows /\ CallsAbout /\ OwnedSpawned /\ Closes /\ Quiet

(* What the shutdown takes for ended has ended.                            *)
OwnedDead == \A n \in DOMAIN owned : ~owned[n].live => os[owned[n].id] # "running"

(* Every running process is counted.                                       *)
Counting == ~MayHang /\ ~MaySpoof /\ ~MayLeave => LiveIsCounted /\ OwnedDead

(* A session whose process the backend still lists is active.              *)
KnownActive ==
    \A s \in Tracked : backend[pidOf[s]] = s /\ os[s] # "closed" => active[s]

(* Sessions that are active for themselves, and not because a process that *)
(* is being started has their pid.                                         *)
Starting(i) == \E r \in pending : pc[r] = "starting" /\ cur[r] = i
Settled == {s \in Active : ~\E i \in Spawned : pidOf[i] = pidOf[s] /\ Starting(i)}

(* The ceiling, for the sessions that are active for themselves.           *)
Bounded ==
    ~MaySpoof =>
        /\ KnownActive
        /\ Cardinality(Settled) + Cardinality(pending) <= MaxSessions
        /\ Len(sessions) <= MaxTracked

(* The inductive invariant: the types, whose process each name leads to,   *)
(* what is known of the processes under way, and the two counts.           *)
IInv == Typed /\ Reaching /\ Holding /\ Counting /\ Bounded

-----------------------------------------------------------------------------
(* The operators.                                                          *)

(* Processes are numbered from one.                                        *)
LEMMA ProcessNumbers ==
    /\ 0 \notin Process /\ \A i \in Process : i \in Nat /\ i - 1 \in Nat
    /\ \A i, j \in Process : i < j => j \in Process /\ i \in 1 .. (j - 1)
  BY DEF Process

(* The other calls stay where they are.                                    *)
OnlyCall(r) ==
    /\ CallsTyped'
    /\ \A q \in Req \ {r} : pc'[q] = pc[q] /\ cur'[q] = cur[q] /\ entry'[q] = entry[q]

(* What a call that goes on changes.                                       *)
LEMMA GotoForm ==
    ASSUME Typed, NEW r \in Req, NEW l \in CallPc, NEW c \in Process \cup {0}, Goto(r, l, c)
    PROVE  OnlyCall(r) /\ pc'[r] = l /\ cur'[r] = c /\ entry'[r] = 0
  BY DEF Typed, CallsTyped, Goto, OnlyCall

(* The same, for a call that stays with its session.                       *)
LEMMA GoForm ==
    ASSUME Typed, NEW r \in Req, NEW l \in CallPc, Go(r, l)
    PROVE  /\ OnlyCall(r) /\ pc'[r] = l /\ entry'[r] = 0
           /\ cur'[r] = IF l = "idle" THEN 0 ELSE cur[r]
<1>1. cur[r] \in Process \cup {0}
  BY DEF Typed, CallsTyped
<1>2. QED
  BY <1>1, GotoForm DEF Go

(* The backend only drops entries of processes that have closed.           *)
Cleared(b) ==
    /\ b \in [Pid -> Process \cup {0}]
    /\ \A p \in Pid : \/ b[p] = backend[p]
                      \/ b[p] = 0 /\ backend[p] # 0 /\ os[backend[p]] = "closed"

(* What pruneCompleted drops.                                              *)
LEMMA PrunedForm ==
    ASSUME Typed, NEW b \in Pruned(backend) PROVE Cleared(b)
<1>1. PICK gone \in SUBSET Completed(backend) : b = [p \in Pid |-> IF p \in gone THEN 0 ELSE backend[p]]
  BY DEF Pruned
<1>2. \A p \in gone : p \in Pid /\ backend[p] # 0 /\ os[backend[p]] = "closed"
  BY DEF Completed
<1>3. QED
  BY <1>1, <1>2 DEF Typed, Cleared

(* The registry changes, but for a registration.                           *)
RegistryShrinks ==
    /\ sessions' \in Seq(Process) /\ Distinct(sessions')
    /\ ToSet(sessions') \subseteq Tracked
    /\ active' \in [Process -> BOOLEAN]

(* Sessions are numbers of processes.                                      *)
LEMMA TrackedProcesses == Typed => Tracked \subseteq Process
  BY LenProperties, ElementOfSeq DEF Typed, Tracked, ToSet

(* After a list of the backend a session is active if its pid is listed.   *)
LEMMA ReconciledFlags ==
    ASSUME Typed, NEW b, active' = Reconciled(b)
    PROVE  /\ active' \in [Process -> BOOLEAN]
           /\ \A s \in Tracked : active'[s] = (pidOf[s] \in Listed(b))
<1>1. \A s \in Process :
         (IF s \in Tracked THEN pidOf[s] \in Listed(b) ELSE active[s]) \in BOOLEAN
  <2> TAKE s \in Process
  <2>1. active[s] \in BOOLEAN
    BY DEF Typed
  <2>2. (pidOf[s] \in Listed(b)) \in BOOLEAN
    OBVIOUS
  <2>3. QED
    BY <2>1, <2>2, Zenon
<1>2. active' \in [Process -> BOOLEAN]
  BY <1>1 DEF Reconciled
<1>3. QED
  BY <1>2, TrackedProcesses DEF Reconciled

(* reconcileActivePids, with the pruning that follows, only drops          *)
(* sessions, and none that is active.                                      *)
LEMMA ReconcileForm ==
    ASSUME Parameters, Typed, NEW b, Reconcile(b)
    PROVE  /\ RegistryShrinks /\ active' = Reconciled(b)
           /\ \A s \in Tracked : /\ active'[s] = (pidOf[s] \in Listed(b))
                                 /\ active'[s] => s \in ToSet(sessions')
<1>1. active' = Reconciled(b) /\ sessions' = PruneHistory(sessions, active')
  BY DEF Reconcile
<1>2. /\ active' \in [Process -> BOOLEAN]
      /\ \A s \in Tracked : active'[s] = (pidOf[s] \in Listed(b))
  BY <1>1, ReconciledFlags
<1>3. /\ sessions' \in Seq(Process) /\ Distinct(sessions') /\ ToSet(sessions') \subseteq Tracked
      /\ \A s \in Tracked : active'[s] => s \in ToSet(sessions')
  BY <1>1, PruneProperties DEF Parameters, Typed, Tracked
<1>4. QED
  BY <1>1, <1>2, <1>3 DEF RegistryShrinks

(* So does markInactive.                                                   *)
LEMMA MarkInactiveForm ==
    ASSUME Parameters, Typed, NEW s \in Process, MarkInactive(s)
    PROVE  /\ RegistryShrinks /\ active' = [active EXCEPT ![s] = FALSE]
           /\ \A t \in Tracked \ {s} : active[t] => t \in ToSet(sessions')
<1>1. active' = [active EXCEPT ![s] = FALSE] /\ sessions' = PruneHistory(sessions, active')
  BY DEF MarkInactive
<1>2. active' \in [Process -> BOOLEAN]
  BY <1>1 DEF Typed
<1>3. \A t \in Tracked \ {s} : active'[t] = active[t]
  BY <1>1, TrackedProcesses DEF Typed
<1>4. /\ sessions' \in Seq(Process) /\ Distinct(sessions') /\ ToSet(sessions') \subseteq Tracked
      /\ \A t \in Tracked : active'[t] => t \in ToSet(sessions')
  BY <1>1, PruneProperties DEF Parameters, Typed, Tracked
<1>5. QED
  BY <1>1, <1>2, <1>3, <1>4 DEF RegistryShrinks, Tracked

(* forget drops the session and no other.                                  *)
LEMMA ForgetForm ==
    ASSUME Typed, NEW s, Forget(s), active' = active
    PROVE  RegistryShrinks /\ ToSet(sessions') = Tracked \ {s}
<1>1. Tracked \cap (Tracked \ {s}) = Tracked \ {s}
  OBVIOUS
<1>2. /\ sessions' \in Seq(Process) /\ Distinct(sessions')
      /\ ToSet(sessions') = ToSet(sessions) \cap (Tracked \ {s})
  BY KeepProperties DEF Typed, Forget
<1>3. QED
  BY <1>1, <1>2 DEF Typed, RegistryShrinks, Tracked

(* A step that leaves the registry alone.                                  *)
LEMMA SameRegistry ==
    ASSUME Typed, UNCHANGED <<sessions, active>>
    PROVE  RegistryShrinks /\ ToSet(sessions') = Tracked
  BY DEF Typed, RegistryShrinks, Tracked

(* A registry that only shrinks stays as short as it was.                  *)
LEMMA ShorterList ==
    ASSUME Typed, RegistryShrinks
    PROVE  Len(sessions') <= Len(sessions) /\ Len(sessions') \in Nat /\ Len(sessions) \in Nat
<1>1. /\ IsFiniteSet(Tracked) /\ Cardinality(Tracked) = Len(sessions) /\ Len(sessions) \in Nat
      /\ Cardinality(ToSet(sessions')) = Len(sessions') /\ Len(sessions') \in Nat
  BY ListLength DEF Typed, RegistryShrinks, Tracked
<1>2. ToSet(sessions') \in SUBSET Tracked
  BY DEF RegistryShrinks
<1>3. QED
  BY <1>1, <1>2, FS_Subset

(* registerReserved: the new session is listed, the older ones of its pid  *)
(* are not; if the list is too long still, all of it is active.            *)
LEMMA RegisterForm ==
    ASSUME Parameters, Typed, NEW i \in Process, Register(i), i \notin Tracked
    PROVE  /\ sessions' \in Seq(Process) /\ Distinct(sessions')
           /\ active' = [active EXCEPT ![i] = TRUE] /\ active' \in [Process -> BOOLEAN]
           /\ ToSet(sessions') \subseteq {s \in Tracked : pidOf[s] # pidOf[i]} \cup {i}
           /\ i \in ToSet(sessions')
           /\ \A s \in Tracked : active[s] /\ pidOf[s] # pidOf[i] => s \in ToSet(sessions')
           /\ \/ Len(sessions') <= MaxTracked
              \/ ToSet(sessions') \subseteq
                     {s \in Tracked : active[s] /\ pidOf[s] # pidOf[i]} \cup {i}
<1> DEFINE kept == {s \in Tracked : pidOf[s] # pidOf[i]}
           others == Keep(sessions, kept)
           all == Append(others, i)
<1>1. active' = [active EXCEPT ![i] = TRUE] /\ sessions' = PruneHistory(all, active')
  BY DEF Register
<1>2. others \in Seq(Process) /\ Distinct(others) /\ ToSet(others) = kept
  <2>1. ToSet(sessions) \cap kept = kept
    BY DEF Tracked
  <2> HIDE DEF kept
  <2>2. QED
    BY <2>1, KeepProperties DEF Typed
<1>3. all \in Seq(Process) /\ Distinct(all) /\ ToSet(all) = kept \cup {i}
  <2>1. i \notin kept
    OBVIOUS
  <2> HIDE DEF kept, others
  <2>2. QED
    BY <1>2, <2>1, AppendSet
<1> HIDE DEF all, others
<1>4. active' \in [Process -> BOOLEAN] /\ active'[i] /\ \A s \in Process \ {i} : active'[s] = active[s]
  BY <1>1 DEF Typed
<1>5. /\ sessions' \in Seq(Process) /\ Distinct(sessions')
      /\ ToSet(sessions') \subseteq ToSet(all)
      /\ \A s \in ToSet(all) : active'[s] => s \in ToSet(sessions')
      /\ Len(sessions') <= MaxTracked \/ \A s \in ToSet(sessions') : active'[s]
  BY <1>1, <1>3, PruneProperties DEF Parameters
<1>6. \A s \in kept : s \in Process \ {i}
  BY TrackedProcesses
<1>7. QED
  BY <1>1, <1>3, <1>4, <1>5, <1>6

-----------------------------------------------------------------------------
(* What a step that starts no process keeps.                               *)

(* Processes go from running over exited to closed.                        *)
OsAdvances ==
    /\ os' \in [Process -> {"none", "running", "exited", "closed"}]
    /\ \A i \in Process : \/ os'[i] = os[i]
                          \/ os[i] = "running" /\ os'[i] = "exited"
                          \/ os[i] = "exited" /\ os'[i] = "closed"

(* Nothing happens to a process,                                           *)
LEMMA OsSame == ASSUME Typed, os' = os PROVE OsAdvances
  BY DEF Typed, OsAdvances

(* and none is new.                                                        *)
LEMMA SpawnedSame == ASSUME OsAdvances PROVE Spawned' = Spawned
  BY DEF OsAdvances, Spawned

(* The starts under way go on as they were.                                *)
StartsKept ==
    \A q \in Req :
        /\ pc'[q] = "starting" <=> pc[q] = "starting"
        /\ pc[q] = "starting" => cur'[q] = cur[q] /\ q \in pending'
        /\ pc'[q] = "spawn" => q \in pending'

(* No step that only drops entries and sessions lets an id reach the wrong *)
(* process.                                                                *)
LEMMA ReachingKept ==
    ASSUME Typed, Reaching, RegistryShrinks, \A p \in Pid : backend'[p] \in {backend[p], 0},
           OsAdvances, pidOf' = pidOf, StartsKept
    PROVE  Reaching'
<1>1. Spawned' = Spawned /\ ToSet(sessions') \subseteq Tracked /\ Tracked' = ToSet(sessions')
  BY SpawnedSame DEF RegistryShrinks, Tracked
<1>2. \A i : Latest(i)' <=> Latest(i)
  BY <1>1 DEF Latest
<1>3. SpawnedFirst'
  BY <1>1 DEF Reaching, SpawnedFirst
<1>4. BackendLatest'
  BY <1>1, <1>2 DEF Reaching, BackendLatest
<1>5. OneSessionPerPid'
  BY <1>1 DEF Reaching, OneSessionPerPid
<1>6. StartsPending'
  <2> SUFFICES ASSUME NEW r \in Req
               PROVE  /\ pc'[r] \in {"spawn", "starting"} => r \in pending'
                      /\ pc'[r] = "starting" =>
                            /\ cur'[r] \in Spawned' /\ Latest(cur[r])'
                            /\ cur'[r] \notin Tracked'
                            /\ \A q \in Req : pc'[q] = "starting" /\ cur'[q] = cur'[r] => q = r
    BY DEF StartsPending
  <2>1. pc'[r] = "starting" =>
           /\ pc[r] = "starting" /\ cur'[r] = cur[r] /\ r \in pending'
           /\ cur[r] \in Spawned /\ Latest(cur[r]) /\ cur[r] \notin Tracked
    BY DEF Reaching, StartsPending, StartsKept
  <2>2. pc'[r] = "starting" =>
           \A q \in Req : pc'[q] = "starting" /\ cur'[q] = cur'[r] => q = r
    BY <2>1 DEF Reaching, StartsPending, StartsKept
  <2>3. pc'[r] = "spawn" => r \in pending'
    BY DEF StartsKept
  <2>4. QED
    BY <1>1, <2>1, <2>2, <2>3 DEF Latest
<1>7. ReachesOwnUnlessStarting'
  <2> SUFFICES ASSUME NEW s \in ToSet(sessions'), backend'[pidOf[s]] \notin {0, s}
               PROVE  \E r \in pending' : pc'[r] = "starting" /\ cur'[r] = backend'[pidOf[s]]
    BY <1>1 DEF ReachesOwnUnlessStarting, Reached
  <2>1. s \in Tracked /\ s \in Spawned /\ pidOf[s] \in Pid
    BY <1>1 DEF Reaching, OneSessionPerPid, SpawnedFirst
  <2>2. backend'[pidOf[s]] = backend[pidOf[s]] /\ Reached(s) \notin {0, s}
    BY <2>1 DEF Reached
  <2>3. PICK r \in pending : pc[r] = "starting" /\ cur[r] = Reached(s)
    BY <2>1, <2>2 DEF Reaching, ReachesOwnUnlessStarting
  <2>4. QED
    BY <2>2, <2>3 DEF StartsKept, Typed, Reached
<1>8. QED
  BY <1>3, <1>4, <1>5, <1>6, <1>7 DEF Reaching

(* The pids of processes that are not new.                                 *)
LEMMA ProcessesKept ==
    ASSUME Typed, Holding, OsAdvances, pidOf' = pidOf
    PROVE  OlderClosed' /\ PidsNew'
<1>1. Spawned' = Spawned /\ Spawned \subseteq Process
  BY SpawnedSame DEF Spawned
<1>2. \A i \in Process : os[i] = "closed" => os'[i] = "closed"
  BY DEF OsAdvances
<1>3. QED
  BY <1>1, <1>2 DEF Holding, OlderClosed, PidsNew

(* The backend knows of the processes that have not closed.                *)
LEMMA KnowsKept ==
    ASSUME Typed, Reaching, BackendKnows, OsAdvances, pidOf' = pidOf, Cleared(backend'),
           phase' # "down" => phase # "down"
    PROVE  BackendKnows'
<1> SUFFICES ASSUME phase' # "down", NEW i \in Process, os'[i] \in {"running", "exited"}
             PROVE  backend'[pidOf[i]] = i
  BY DEF BackendKnows
<1>1. os[i] \in {"running", "exited"} /\ i \in Spawned
  BY DEF OsAdvances, Spawned
<1>2. pidOf[i] \in Pid /\ backend[pidOf[i]] = i
  BY <1>1 DEF BackendKnows, Reaching, SpawnedFirst
<1>3. QED
  BY <1>1, <1>2 DEF Cleared

(* A call that waits is about what it was about.                           *)
LEMMA CallAboutKept ==
    ASSUME Typed, NEW q \in Req, CallAbout(q), OsAdvances, pidOf' = pidOf,
           pc'[q] = pc[q], cur'[q] = cur[q], entry'[q] = entry[q]
    PROVE  CallAbout(q)'
<1>1. Spawned' = Spawned /\ Spawned \subseteq Process
  BY SpawnedSame DEF Spawned
<1>2. \A i \in Process : os[i] = "closed" => os'[i] = "closed"
  BY DEF OsAdvances
<1>3. QED
  BY <1>1, <1>2 DEF CallAbout, About, Latest

(* A step of one call that neither spawns nor registers a process.         *)
CallMoves(r) ==
    /\ OnlyCall(r) /\ RegistryShrinks /\ Cleared(backend')
    /\ UNCHANGED <<os, pidOf, phase, shutdown>>
    /\ pending' \subseteq Req /\ IsFiniteSet(pending') /\ pending \ {r} \subseteq pending'
    /\ pc[r] # "starting" /\ pc'[r] # "starting"
    /\ pc'[r] = "spawn" => r \in pending'
    /\ CallAbout(r)'
    /\ Open \/ pc[r] # "idle"

(* Such a step keeps all but the counts.                                   *)
LEMMA CallMovesKeeps ==
    ASSUME Typed, Reaching, Holding, NEW r \in Req, CallMoves(r)
    PROVE  Typed' /\ Reaching' /\ Holding' /\ StartsKept
<1> USE DEF CallMoves
<1>1. Typed'
  BY DEF Typed, ShutdownTyped, shutdown, OnlyCall, RegistryShrinks, Cleared
<1>2. OsAdvances /\ pidOf' = pidOf /\ Spawned' = Spawned
  BY OsSame, SpawnedSame
<1>3. StartsKept
  <2> SUFFICES ASSUME NEW q \in Req
               PROVE  /\ pc'[q] = "starting" <=> pc[q] = "starting"
                      /\ pc[q] = "starting" => cur'[q] = cur[q] /\ q \in pending'
                      /\ pc'[q] = "spawn" => q \in pending'
    BY DEF StartsKept
  <2>1. CASE q = r
    BY <2>1
  <2>2. CASE q # r
    BY <2>2 DEF OnlyCall, Reaching, StartsPending
  <2>3. QED
    BY <2>1, <2>2
<1>4. Reaching'
  <2>1. \A p \in Pid : backend'[p] \in {backend[p], 0}
    BY DEF Cleared
  <2>2. QED
    BY <1>2, <1>3, <2>1, ReachingKept
<1>5. OlderClosed' /\ PidsNew' /\ BackendKnows'
  BY <1>2, ProcessesKept, KnowsKept DEF Holding
<1>6. CallsAbout'
  <2> SUFFICES ASSUME NEW q \in Req PROVE CallAbout(q)'
    BY DEF CallsAbout
  <2>1. CASE q # r
    BY <1>2, <2>1, CallAboutKept DEF Holding, CallsAbout, OnlyCall
  <2>2. QED
    BY <2>1
<1>7. OwnedSpawned' /\ Closes' /\ Quiet'
  <2>1. OwnedSpawned' /\ Closes'
    BY <1>2 DEF shutdown, Holding, OwnedSpawned, Closes
  <2>2. Quiet'
    BY DEF Holding, Quiet, Open, OnlyCall
  <2>3. QED
    BY <2>1, <2>2
<1>8. QED
  BY <1>1, <1>3, <1>4, <1>5, <1>6, <1>7 DEF Holding

-----------------------------------------------------------------------------
(* Running processes stay counted.                                         *)

(* The call r counts the process i.                                        *)
Holds(r, i) == cur[r] = i /\ pc[r] \in {"starting", "kill", "killWait"}

(* How a process is counted.                                               *)
LEMMA CountedByCall ==
    LiveIsCounted <=> \A i \in Process : os[i] = "running" => i \in Active \/ \E r \in Req : Holds(r, i)
  BY DEF LiveIsCounted, Holds

(* A step of one call keeps every running process counted, if it keeps     *)
(* those of its own.                                                       *)
LEMMA CountingKept ==
    ASSUME Typed, Counting, NEW r \in Req, OnlyCall(r), UNCHANGED <<os, owned>>,
           ASSUME ~MayHang, ~MaySpoof, ~MayLeave, NEW i \in Process, os[i] = "running"
           PROVE  /\ i \in Active => i \in Active' \/ Holds(r, i)'
                  /\ Holds(r, i) => i \in Active' \/ Holds(r, i)'
    PROVE  Counting'
<1> SUFFICES ASSUME ~MayHang, ~MaySpoof, ~MayLeave PROVE LiveIsCounted' /\ OwnedDead'
  BY DEF Counting
<1>1. OwnedDead'
  BY DEF Counting, OwnedDead
<1>2. ASSUME NEW i \in Process, os[i] = "running"
      PROVE  i \in Active' \/ \E q \in Req : Holds(q, i)'
  <2>1. i \in Active \/ \E q \in Req : Holds(q, i)
    BY <1>2, CountedByCall DEF Counting
  <2>2. CASE i \in Active
    BY <1>2, <2>2
  <2>3. ASSUME NEW q \in Req, Holds(q, i) PROVE i \in Active' \/ \E x \in Req : Holds(x, i)'
    <3>1. CASE q = r
      BY <1>2, <2>3, <3>1
    <3>2. CASE q # r
      <4>1. Holds(q, i)'
        BY <2>3, <3>2 DEF Holds, OnlyCall
      <4>2. QED
        BY <4>1
    <3>3. QED
      BY <3>1, <3>2
  <2>4. QED
    BY <2>1, <2>2, <2>3
<1>3. LiveIsCounted'
  BY <1>2 DEF LiveIsCounted, Holds
<1>4. QED
  BY <1>1, <1>3

-----------------------------------------------------------------------------
(* The ceiling.                                                            *)

LEMMA FiniteSettled ==
    ASSUME Typed
    PROVE  /\ IsFiniteSet(Tracked) /\ IsFiniteSet(Settled) /\ Cardinality(Settled) \in Nat
           /\ IsFiniteSet(pending) /\ Cardinality(pending) \in Nat
<1>1. IsFiniteSet(Tracked) /\ IsFiniteSet(pending)
  BY ListLength DEF Typed, Tracked
<1>2. Settled \in SUBSET Tracked
  BY DEF Settled, Active
<1>3. QED
  BY <1>1, <1>2, FS_Subset, FS_CardinalityType

(* A step leaves no more reservations and no session active for itself     *)
(* that was not.                                                           *)
LEMMA BoundedKept ==
    ASSUME Parameters, Typed, Typed', Bounded, OsAdvances, pidOf' = pidOf, StartsKept,
           RegistryShrinks, pending' \subseteq pending,
           ~MaySpoof => KnownActive',
           ~MaySpoof => \A s \in ToSet(sessions') : active'[s] =>
               active[s] \/ \E i \in Spawned : pidOf[i] = pidOf[s] /\ Starting(i)
    PROVE  Bounded'
<1> SUFFICES ASSUME ~MaySpoof
             PROVE  /\ Cardinality(Settled') + Cardinality(pending') <= MaxSessions
                    /\ Len(sessions') <= MaxTracked
  BY DEF Bounded
<1>1. \A i : Starting(i) => Starting(i)'
  BY DEF Starting, StartsKept, Typed
<1>2. Settled' \in SUBSET Settled
  <2> SUFFICES ASSUME NEW s \in Settled' PROVE s \in Settled
    OBVIOUS
  <2>1. /\ s \in ToSet(sessions') /\ active'[s]
        /\ ~\E i \in Spawned : pidOf[i] = pidOf[s] /\ Starting(i)'
    BY SpawnedSame DEF Settled, Active, Tracked
  <2>2. s \in Tracked /\ ~\E i \in Spawned : pidOf[i] = pidOf[s] /\ Starting(i)
    BY <1>1, <2>1 DEF RegistryShrinks
  <2>3. QED
    BY <2>1, <2>2 DEF Settled, Active
<1>3. /\ IsFiniteSet(Settled) /\ Cardinality(Settled) \in Nat
      /\ IsFiniteSet(pending) /\ Cardinality(pending) \in Nat
  BY FiniteSettled
<1>4. Cardinality(Settled') <= Cardinality(Settled) /\ Cardinality(Settled') \in Nat
  BY <1>2, <1>3, FS_Subset, FS_CardinalityType
<1>5. Cardinality(pending') <= Cardinality(pending) /\ Cardinality(pending') \in Nat
  BY <1>3, FS_Subset, FS_CardinalityType
<1>6. Cardinality(Settled') + Cardinality(pending') <= MaxSessions
  BY <1>3, <1>4, <1>5 DEF Bounded, Parameters
<1>7. Len(sessions') <= MaxTracked
  BY ShorterList DEF Bounded, Parameters
<1>8. QED
  BY <1>6, <1>7

(* The flags stay.                                                         *)
LEMMA KnownSame ==
    ASSUME Typed, Reaching, KnownActive, OsAdvances, pidOf' = pidOf, RegistryShrinks,
           active' = active, \A p \in Pid : backend'[p] \in {backend[p], 0}
    PROVE  KnownActive'
<1>1. Tracked' \subseteq Tracked
  BY DEF RegistryShrinks, Tracked
<1> SUFFICES ASSUME NEW s \in Tracked', backend'[pidOf[s]] = s, os'[s] # "closed"
             PROVE  active[s]
  BY DEF KnownActive
<1>2. s \in Tracked /\ s \in Process /\ s # 0 /\ pidOf[s] \in Pid
  BY <1>1, TrackedProcesses, ProcessNumbers DEF Reaching, OneSessionPerPid, SpawnedFirst
<1>3. backend[pidOf[s]] = s /\ os[s] # "closed"
  BY <1>2 DEF OsAdvances
<1>4. QED
  BY <1>2, <1>3 DEF KnownActive

(* The registry stays or only forgets: nothing becomes active.             *)
LEMMA BoundedSame ==
    ASSUME Parameters, Typed, Typed', Reaching, Bounded, OsAdvances, pidOf' = pidOf, StartsKept,
           RegistryShrinks, active' = active, pending' \subseteq pending,
           \A p \in Pid : backend'[p] \in {backend[p], 0}
    PROVE  Bounded'
<1>1. \A s \in ToSet(sessions') : active'[s] => active[s]
  OBVIOUS
<1>2. ~MaySpoof => KnownActive'
  BY KnownSame DEF Bounded
<1>3. QED
  BY <1>1, <1>2, BoundedKept

(* What the backend lists and the registry did not know for active is      *)
(* being started.                                                          *)
LEMMA ListedActive ==
    ASSUME Typed, Reaching, KnownActive, NEW b, Cleared(b), NEW s \in Tracked, pidOf[s] \in Listed(b)
    PROVE  active[s] \/ \E i \in Spawned : pidOf[i] = pidOf[s] /\ Starting(i)
<1> DEFINE p == pidOf[s]
           j == backend[p]
<1>1. p \in Pid /\ j # 0 /\ os[j] # "closed"
  BY DEF Listed, Cleared
<1>2. CASE j = s
  BY <1>1, <1>2 DEF KnownActive
<1>3. CASE j # s
  <2>1. PICK r \in pending : pc[r] = "starting" /\ cur[r] = j
    BY <1>1, <1>3 DEF Reaching, ReachesOwnUnlessStarting, Reached
  <2>2. j \in Spawned /\ pidOf[j] = pidOf[s]
    BY <1>1 DEF Reaching, BackendLatest
  <2>3. QED
    BY <2>1, <2>2 DEF Starting
<1>4. QED
  BY <1>2, <1>3

(* A session whose process is alive is listed, unless the backend is gone. *)
LEMMA AliveListed ==
    ASSUME Typed, Reaching, BackendKnows, phase # "down", NEW b, Cleared(b),
           NEW s \in Spawned, os[s] \in {"running", "exited"}
    PROVE  pidOf[s] \in Listed(b) /\ b[pidOf[s]] = s /\ pidOf[s] \in Pid
<1>1. s \in Process /\ s # 0 /\ pidOf[s] \in Pid
  BY ProcessNumbers DEF Spawned, Reaching, SpawnedFirst
<1>2. backend[pidOf[s]] = s
  BY <1>1 DEF BackendKnows
<1>3. QED
  BY <1>1, <1>2 DEF Cleared, Listed

(* After a reconciliation.                                                 *)
LEMMA KnownReconciled ==
    ASSUME Typed, Reaching, os' = os, pidOf' = pidOf, RegistryShrinks,
           \A s \in Tracked : active'[s] = (pidOf[s] \in Listed(backend'))
    PROVE  KnownActive'
<1>1. Tracked' \subseteq Tracked
  BY DEF RegistryShrinks, Tracked
<1> SUFFICES ASSUME NEW s \in Tracked', backend'[pidOf[s]] = s, os[s] # "closed" PROVE active'[s]
  BY DEF KnownActive
<1>2. s \in Tracked /\ s \in Process /\ s # 0 /\ pidOf[s] \in Pid
  BY <1>1, TrackedProcesses, ProcessNumbers DEF Reaching, OneSessionPerPid, SpawnedFirst
<1>3. QED
  BY <1>2 DEF Listed

(* A reconciliation makes no session active for itself that was not.       *)
LEMMA BoundedReconciled ==
    ASSUME Parameters, Typed, Typed', Reaching, Bounded, OsAdvances, os' = os, pidOf' = pidOf,
           StartsKept, Cleared(backend'), pending' \subseteq pending,
           RegistryShrinks, \A s \in Tracked : active'[s] = (pidOf[s] \in Listed(backend'))
    PROVE  Bounded'
<1>1. ~MaySpoof => \A s \in ToSet(sessions') : active'[s] =>
               active[s] \/ \E i \in Spawned : pidOf[i] = pidOf[s] /\ Starting(i)
  <2>1. ToSet(sessions') \subseteq Tracked
    BY DEF RegistryShrinks
  <2>2. QED
    BY <2>1, ListedActive DEF Bounded
<1>2. QED
  BY <1>1, KnownReconciled, BoundedKept

(* A session is marked inactive that has no process of its own any more.   *)
LEMMA BoundedMarked ==
    ASSUME Parameters, Typed, Typed', Reaching, Bounded, OsAdvances, os' = os, pidOf' = pidOf,
           StartsKept, pending' \subseteq pending, NEW s \in Process,
           RegistryShrinks, active' = [active EXCEPT ![s] = FALSE],
           \A p \in Pid : backend'[p] \in {backend[p], 0},
           ~MaySpoof => backend'[pidOf[s]] # s \/ os[s] = "closed"
    PROVE  Bounded'
<1>1. /\ Tracked' \subseteq Tracked /\ Tracked' = ToSet(sessions')
      /\ Tracked \subseteq Process
  BY TrackedProcesses DEF RegistryShrinks, Tracked
<1>2. \A t \in Process : active'[t] => active[t] /\ t # s
  BY DEF Typed
<1>3. \A t \in Process : active[t] /\ t # s => active'[t]
  BY DEF Typed
<1>4. ~MaySpoof => KnownActive'
  <2> SUFFICES ASSUME ~MaySpoof, NEW t \in Tracked', backend'[pidOf[t]] = t, os[t] # "closed"
               PROVE  active'[t]
    BY DEF KnownActive
  <2>1. t \in Tracked /\ t \in Process /\ t # 0 /\ pidOf[t] \in Pid /\ t # s
    BY <1>1, ProcessNumbers DEF Reaching, OneSessionPerPid, SpawnedFirst
  <2>2. active[t]
    BY <2>1 DEF Bounded, KnownActive
  <2>3. QED
    BY <1>3, <2>1, <2>2
<1>5. QED
  BY <1>1, <1>2, <1>4, BoundedKept

(* If no client goes away, calls are under way only before the shutdown.   *)
LEMMA PhaseUp ==
    ASSUME Typed, Holding, NEW r \in Req, ~MayLeave, Open \/ pc[r] # "idle"
    PROVE  phase = "up"
  BY DEF Holding, Quiet, Open

-----------------------------------------------------------------------------
(* The steps of a call.                                                    *)

LEMMA SamePending ==
    ASSUME Typed, NEW r, \/ pending' = pending \/ pending' = pending \ {r}
    PROVE  /\ pending' \subseteq Req /\ IsFiniteSet(pending') /\ pending \ {r} \subseteq pending'
           /\ pending' \subseteq pending
  BY FS_Subset DEF Typed

(* When the entry a call has taken is closed, so is its session.           *)
LEMMA NotSpoofed ==
    ASSUME Typed, Reaching, Holding, NEW i, NEW j, About(i, j), os[j] = "closed"
    PROVE  os[i] = "closed"
  BY DEF Holding, OlderClosed, About, Spawned, Process

(* A start is refused.                                                     *)
LEMMA RefuseKeeps ==
    ASSUME PidsKept, IInv, NEW r \in Req, Refuse(r) PROVE IInv'
<1> USE DEF IInv
<1>1. pc[r] = "refused" /\ OnlyCall(r) /\ pc'[r] = "idle"
  BY GotoForm DEF Refuse, CallPc
<1>2. /\ RegistryShrinks /\ Cleared(backend') /\ active' = active
      /\ ToSet(sessions') = Tracked
  BY SameRegistry DEF Refuse, Typed, Cleared
<1>3. CallMoves(r)
  BY <1>1, <1>2, SamePending DEF Refuse, CallMoves, CallAbout
<1>4. Typed' /\ Reaching' /\ Holding' /\ StartsKept
  BY <1>3, CallMovesKeeps
<1>5. Counting'
  BY <1>1, <1>2, CountingKept DEF Refuse, shutdown, Holds, Active, Tracked
<1>6. Bounded'
  BY <1>2, <1>3, <1>4, OsSame, BoundedSame DEF Refuse, PidsKept, Cleared
<1>7. QED
  BY <1>4, <1>5, <1>6

(* The spawn fails.                                                        *)
SpawnFails(r) ==
    /\ pc[r] = "spawn"
    /\ backend' \in Pruned(backend)
    /\ pending' = pending \ {r}
    /\ Goto(r, "idle", 0)
    /\ UNCHANGED <<os, pidOf, sessions, active, phase, shutdown>>

LEMMA SpawnFailsKeeps ==
    ASSUME PidsKept, IInv, NEW r \in Req, SpawnFails(r) PROVE IInv'
<1> USE DEF IInv
<1>1. pc[r] = "spawn" /\ OnlyCall(r) /\ pc'[r] = "idle"
  BY GotoForm DEF SpawnFails, CallPc
<1>2. /\ RegistryShrinks /\ Cleared(backend') /\ active' = active
      /\ ToSet(sessions') = Tracked
  BY SameRegistry, PrunedForm DEF SpawnFails
<1>3. CallMoves(r)
  BY <1>1, <1>2, SamePending DEF SpawnFails, CallMoves, CallAbout
<1>4. Typed' /\ Reaching' /\ Holding' /\ StartsKept
  BY <1>3, CallMovesKeeps
<1>5. Counting'
  BY <1>1, <1>2, CountingKept DEF SpawnFails, shutdown, Holds, Active, Tracked
<1>6. Bounded'
  BY <1>2, <1>3, <1>4, OsSame, SamePending, BoundedSame DEF SpawnFails, PidsKept, Cleared
<1>7. QED
  BY <1>4, <1>5, <1>6

(* The windows of a new process are placed, or its start fails after all.  *)
LEMMA PlacedKeeps ==
    ASSUME PidsKept, IInv, NEW r \in Req, Placed(r) PROVE IInv'
<1> USE DEF IInv
<1>1. pc[r] = "placing" /\ UNCHANGED <<os, pidOf, backend, active, pending, phase, shutdown>>
  BY DEF Placed
<1>2. cur[r] \in Spawned /\ cur[r] \in Process
  BY <1>1 DEF Holding, CallsAbout, CallAbout, Spawned
<1>3. /\ OnlyCall(r) /\ RegistryShrinks
      /\ \/ pc'[r] = "idle" /\ ToSet(sessions') = Tracked
         \/ pc'[r] = "kill" /\ cur'[r] = cur[r] /\ ToSet(sessions') = Tracked \ {cur[r]}
  <2>1. CASE Goto(r, "idle", 0) /\ sessions' = sessions
    BY <1>1, <2>1, GotoForm, SameRegistry DEF CallPc
  <2>2. CASE Goto(r, "kill", cur[r]) /\ Forget(cur[r])
    BY <1>1, <1>2, <2>2, GotoForm, ForgetForm DEF CallPc
  <2>3. QED
    BY <2>1, <2>2 DEF Placed
<1>4. Cleared(backend') /\ Spawned' = Spawned
  BY <1>1 DEF Typed, Cleared, Spawned
<1>5. CallMoves(r)
  BY <1>1, <1>2, <1>3, <1>4, SamePending DEF CallMoves, CallAbout
<1>6. Typed' /\ Reaching' /\ Holding' /\ StartsKept
  BY <1>5, CallMovesKeeps
<1>7. ASSUME NEW i \in Process
      PROVE  /\ i \in Active => i \in Active' \/ Holds(r, i)'
             /\ ~Holds(r, i)
    BY <1>1, <1>3 DEF Active, Tracked, Holds
<1>8. Counting'
  BY <1>1, <1>3, <1>7, CountingKept DEF shutdown
<1>9. Bounded'
  BY <1>1, <1>3, <1>4, <1>6, OsSame, BoundedSame DEF PidsKept, Cleared
<1>10. QED
  BY <1>6, <1>8, <1>9

(* terminate(pid) of the backend begins.                                   *)
LEMMA KillKeeps ==
    ASSUME PidsKept, IInv, NEW r \in Req, Kill(r) PROVE IInv'
<1> USE DEF IInv
<1> DEFINE p == pidOf[cur[r]]
           i == backend[p]
<1>1. pc[r] \in {"kill", "termKill"}
      /\ UNCHANGED <<os, pidOf, sessions, active, pending, phase, shutdown>>
  BY DEF Kill
<1>2. cur[r] \in Spawned /\ cur[r] \in Process /\ p \in Pid
  BY <1>1 DEF Holding, CallsAbout, CallAbout, Spawned, Reaching, SpawnedFirst
<1>3. i # 0 => About(cur[r], i) /\ Latest(i) /\ i \in Process
  BY <1>2 DEF Reaching, BackendLatest, About, Latest, Spawned
<1>4. PICK b \in Pruned(backend) :
        \/ /\ b[p] # 0 /\ os[b[p]] = "running" /\ backend' = b
           /\ pc' = [pc EXCEPT ![r] = IF pc[r] = "kill" THEN "killWait" ELSE "termWait"]
           /\ entry' = [entry EXCEPT ![r] = b[p]] /\ cur' = cur
        \/ /\ b[p] # 0 /\ os[b[p]] = "closed" /\ backend' = [b EXCEPT ![p] = 0]
           /\ Go(r, IF pc[r] = "kill" THEN "idle" ELSE "termDone")
        \/ /\ b[p] # 0 => os[b[p]] = "exited"
           /\ backend' = b
           /\ Go(r, IF pc[r] = "kill" THEN "idle" ELSE "termFailed")
  BY DEF Kill
<1>5. Cleared(b) /\ (b[p] # 0 => b[p] = i)
  BY <1>2, <1>4, PrunedForm DEF Cleared
<1>6. /\ RegistryShrinks /\ active' = active /\ ToSet(sessions') = Tracked
      /\ Spawned' = Spawned
  BY <1>1, SameRegistry DEF Spawned
<1>7. /\ OnlyCall(r) /\ Cleared(backend') /\ CallAbout(r)'
      /\ pc'[r] \notin {"starting", "spawn"}
      /\ b[p] # 0 /\ os[b[p]] = "running" => cur'[r] = cur[r]
            /\ pc'[r] = IF pc[r] = "kill" THEN "killWait" ELSE "termWait"
  <2>1. CASE /\ b[p] # 0 /\ os[b[p]] = "running" /\ backend' = b
             /\ pc' = [pc EXCEPT ![r] = IF pc[r] = "kill" THEN "killWait" ELSE "termWait"]
             /\ entry' = [entry EXCEPT ![r] = b[p]] /\ cur' = cur
    <3>1. b[p] \in Process
      BY <1>3, <1>5, <2>1
    <3>2. /\ OnlyCall(r) /\ pc'[r] = IF pc[r] = "kill" THEN "killWait" ELSE "termWait"
          /\ entry'[r] = b[p] /\ cur'[r] = cur[r]
      BY <2>1, <3>1 DEF Typed, CallsTyped, OnlyCall, CallPc
    <3>3. About(cur[r], entry[r])' /\ Latest(entry[r])' /\ cur'[r] \in Spawned'
      BY <1>1, <1>2, <1>3, <1>5, <1>6, <2>1, <3>2 DEF About, Latest
    <3>4. QED
      BY <1>5, <2>1, <3>2, <3>3 DEF CallAbout
  <2>2. CASE /\ b[p] # 0 /\ os[b[p]] = "closed" /\ backend' = [b EXCEPT ![p] = 0]
             /\ Go(r, IF pc[r] = "kill" THEN "idle" ELSE "termDone")
    <3> DEFINE l == IF pc[r] = "kill" THEN "idle" ELSE "termDone"
    <3>1. l \in CallPc /\ l \in {"idle", "termDone"}
      BY DEF CallPc
    <3>2. /\ OnlyCall(r) /\ pc'[r] = l
          /\ cur'[r] = IF l = "idle" THEN 0 ELSE cur[r]
      <4> HIDE DEF l
      <4>1. QED
        BY <2>2, <3>1, GoForm DEF l
    <3>3. os[cur[r]] = "closed"
      BY <1>3, <1>5, <2>2, NotSpoofed
    <3>4. Cleared(backend')
      BY <1>2, <1>5, <2>2 DEF Cleared
    <3>5. QED
      BY <1>1, <1>2, <1>6, <2>2, <3>1, <3>2, <3>3, <3>4 DEF CallAbout
  <2>3. CASE /\ b[p] # 0 => os[b[p]] = "exited"
             /\ backend' = b
             /\ Go(r, IF pc[r] = "kill" THEN "idle" ELSE "termFailed")
    <3> DEFINE l == IF pc[r] = "kill" THEN "idle" ELSE "termFailed"
    <3>1. l \in CallPc /\ l \in {"idle", "termFailed"}
      BY DEF CallPc
    <3>2. /\ OnlyCall(r) /\ pc'[r] = l
          /\ cur'[r] = IF l = "idle" THEN 0 ELSE cur[r]
      <4> HIDE DEF l
      <4>1. QED
        BY <2>3, <3>1, GoForm DEF l
    <3>3. QED
      BY <1>1, <1>2, <1>5, <1>6, <2>3, <3>1, <3>2 DEF CallAbout
  <2>4. QED
    BY <1>4, <2>1, <2>2, <2>3
<1>8. CallMoves(r)
  BY <1>1, <1>6, <1>7, SamePending DEF CallMoves
<1>9. Typed' /\ Reaching' /\ Holding' /\ StartsKept
  BY <1>8, CallMovesKeeps
<1>10. ASSUME ~MayLeave, NEW j \in Process, os[j] = "running"
       PROVE  /\ j \in Active => j \in Active'
              /\ Holds(r, j) => Holds(r, j)'
  <2>1. j \in Active => j \in Active'
    BY <1>6 DEF Active, Tracked
  <2>2. ASSUME Holds(r, j) PROVE Holds(r, j)'
    <3>1. j = cur[r] /\ pc[r] = "kill" /\ phase = "up"
      BY <1>1, <1>10, <2>2, PhaseUp DEF Holds
    <3>2. b[p] = j
      BY <1>2, <1>5, <1>10, <3>1, AliveListed DEF Holding
    <3>3. QED
      BY <1>7, <1>10, <3>1, <3>2, ProcessNumbers DEF Holds
  <2>3. QED
    BY <2>1, <2>2
<1>11. Counting'
  BY <1>1, <1>7, <1>10, CountingKept DEF shutdown
<1>12. Bounded'
  BY <1>1, <1>6, <1>7, <1>9, OsSame, BoundedSame DEF PidsKept, Cleared
<1>13. QED
  BY <1>9, <1>11, <1>12

(* It ends: the process has closed, or the deadlines have passed.          *)
LEMMA WaitedKeeps ==
    ASSUME PidsKept, IInv, NEW r \in Req, Waited(r) PROVE IInv'
<1> USE DEF IInv
<1> DEFINE i == entry[r]
           p == pidOf[i]
<1>1. pc[r] \in {"killWait", "termWait"}
      /\ UNCHANGED <<os, pidOf, sessions, active, pending, phase, shutdown>>
  BY DEF Waited
<1>2. About(cur[r], i) /\ Latest(i) /\ cur[r] \in Spawned
  BY <1>1 DEF Holding, CallsAbout, CallAbout
<1>3. i \in Process /\ p \in Pid /\ i \in Spawned
  BY <1>2 DEF About, Spawned, Reaching, SpawnedFirst
<1>4. backend[p] \in {0, i}
  <2> SUFFICES ASSUME backend[p] # 0 PROVE backend[p] = i
    OBVIOUS
  <2>1. /\ backend[p] \in Spawned /\ pidOf[backend[p]] = p /\ Latest(backend[p])
    BY <1>3 DEF Reaching, BackendLatest
  <2>2. backend[p] <= i /\ i <= backend[p] /\ backend[p] \in Process
    BY <1>2, <1>3, <2>1 DEF Latest, Spawned
  <2>3. QED
    BY <1>3, <2>2, ProcessNumbers
<1>5. /\ RegistryShrinks /\ active' = active /\ ToSet(sessions') = Tracked
      /\ Spawned' = Spawned
  BY <1>1, SameRegistry DEF Spawned
<1>6. /\ OnlyCall(r) /\ Cleared(backend') /\ CallAbout(r)'
      /\ pc'[r] \notin {"starting", "spawn"}
      /\ ~MayHang => os[cur[r]] = "closed"
  <2>1. CASE WaitEnds(r)
    <3> DEFINE l == IF pc[r] = "killWait" THEN "idle" ELSE "termDone"
    <3>1. l \in CallPc /\ l \in {"idle", "termDone"}
      BY DEF CallPc
    <3>2. /\ OnlyCall(r) /\ pc'[r] = l
          /\ cur'[r] = IF l = "idle" THEN 0 ELSE cur[r]
      <4> HIDE DEF l
      <4>1. QED
        BY <2>1, <3>1, GoForm DEF l, WaitEnds
    <3>3. os[cur[r]] = "closed"
      BY <1>2, <2>1, NotSpoofed DEF WaitEnds
    <3>4. Cleared(backend')
      BY <1>3, <1>4, <2>1 DEF Cleared, WaitEnds, Typed
    <3>5. QED
      BY <1>1, <1>2, <1>5, <2>1, <3>1, <3>2, <3>3, <3>4 DEF CallAbout
  <2>2. CASE WaitExpires(r)
    <3> DEFINE l == IF pc[r] = "killWait" THEN "idle" ELSE "termFailed"
    <3>1. l \in CallPc /\ l \in {"idle", "termFailed"}
      BY DEF CallPc
    <3>2. /\ OnlyCall(r) /\ pc'[r] = l
          /\ cur'[r] = IF l = "idle" THEN 0 ELSE cur[r]
      <4> HIDE DEF l
      <4>1. QED
        BY <2>2, <3>1, GoForm DEF l, WaitExpires
    <3>3. Cleared(backend') /\ MayHang
      BY <2>2 DEF WaitExpires, Cleared, Typed
    <3>4. QED
      BY <1>1, <1>2, <1>5, <3>1, <3>2, <3>3 DEF CallAbout
  <2>3. QED
    BY <2>1, <2>2 DEF Waited
<1>7. CallMoves(r)
  BY <1>1, <1>5, <1>6, SamePending DEF CallMoves
<1>8. Typed' /\ Reaching' /\ Holding' /\ StartsKept
  BY <1>7, CallMovesKeeps
<1>9. ASSUME ~MayHang, NEW j \in Process, os[j] = "running"
      PROVE  (j \in Active => j \in Active') /\ ~Holds(r, j)
  BY <1>5, <1>6, <1>9 DEF Active, Tracked, Holds
<1>10. Counting'
  BY <1>1, <1>6, <1>9, CountingKept DEF shutdown
<1>11. Bounded'
  BY <1>1, <1>5, <1>6, <1>8, OsSame, BoundedSame DEF PidsKept, Cleared
<1>12. QED
  BY <1>8, <1>10, <1>11

(* A reconciliation keeps the sessions of running processes active.        *)
LEMMA AliveStaysActive ==
    ASSUME PidsKept, IInv, phase # "down", NEW b, Cleared(b), Reconcile(b),
           NEW i \in Process, os[i] = "running", i \in Tracked
    PROVE  i \in Active'
<1> USE DEF IInv
<1>1. i \in Spawned
  BY DEF Reaching, OneSessionPerPid
<1>2. pidOf[i] \in Listed(b)
  BY <1>1, AliveListed DEF Holding
<1>3. QED
  BY <1>2, ReconcileForm DEF PidsKept, Active, Tracked

(* A start is reserved: below the ceiling, after a reconciliation if need  *)
(* be.                                                                     *)
LEMMA ReserveKeeps ==
    ASSUME PidsKept, IInv, NEW r \in Req, Reserve(r) PROVE IInv'
<1> USE DEF IInv
<1> DEFINE now == {s \in Tracked : active'[s]}
<1>1. /\ Open /\ pc[r] = "idle" /\ UNCHANGED <<os, pidOf, phase, shutdown>>
      /\ \/ \E b \in Pruned(backend) : backend' = b /\ Reconcile(b)
         \/ UNCHANGED <<backend, sessions, active>>
      /\ \/ pending' = pending /\ Goto(r, "refused", 0)
         \/ /\ ~(Cardinality(now) + Cardinality(pending) >= MaxSessions)
            /\ pending' = pending \cup {r} /\ Goto(r, "spawn", 0)
  BY DEF Reserve
<1>2. /\ RegistryShrinks /\ Cleared(backend')
      /\ \/ /\ Reconcile(backend')
            /\ \A s \in Tracked : active'[s] = (pidOf[s] \in Listed(backend'))
         \/ UNCHANGED <<backend, sessions, active>>
  <2>1. CASE UNCHANGED <<backend, sessions, active>>
    BY <2>1, SameRegistry DEF Cleared, Typed
  <2>2. ASSUME NEW b \in Pruned(backend), backend' = b, Reconcile(b)
        PROVE  /\ RegistryShrinks /\ Cleared(backend') /\ Reconcile(backend')
               /\ \A s \in Tracked : active'[s] = (pidOf[s] \in Listed(backend'))
    BY <2>2, ReconcileForm, PrunedForm DEF PidsKept
  <2>3. QED
    BY <1>1, <2>1, <2>2
<1>3. /\ OnlyCall(r) /\ pc'[r] \in {"refused", "spawn"}
      /\ pc'[r] = "spawn" => r \in pending'
      /\ pending' \subseteq Req /\ IsFiniteSet(pending') /\ pending \subseteq pending'
  <2>1. pending \cup {r} \subseteq Req /\ IsFiniteSet(pending \cup {r})
    BY FS_AddElement DEF Typed
  <2>2. QED
    BY <1>1, <2>1, GotoForm DEF CallPc, Typed
<1>4. CallMoves(r)
  BY <1>1, <1>2, <1>3 DEF CallMoves, CallAbout
<1>5. Typed' /\ Reaching' /\ Holding' /\ StartsKept
  BY <1>4, CallMovesKeeps
<1>6. ASSUME ~MayLeave, NEW i \in Process, os[i] = "running"
      PROVE  (i \in Active => i \in Active') /\ ~Holds(r, i)
  <2>1. phase # "down"
    BY <1>1, <1>6, PhaseUp
  <2>2. CASE Reconcile(backend')
    BY <1>1, <1>2, <1>6, <2>1, <2>2, AliveStaysActive DEF Active, Holds
  <2>3. CASE UNCHANGED <<backend, sessions, active>>
    BY <1>1, <2>3 DEF Active, Tracked, Holds
  <2>4. QED
    BY <1>2, <2>2, <2>3
<1>7. Counting'
  BY <1>1, <1>3, <1>6, CountingKept DEF shutdown
<1>8. CASE pending' = pending
  <2>1. Bounded'
    BY <1>1, <1>2, <1>5, <1>8, OsSame, BoundedSame, BoundedReconciled DEF PidsKept, Cleared
  <2>2. QED
    BY <1>5, <1>7, <2>1
<1>9. CASE /\ ~(Cardinality(now) + Cardinality(pending) >= MaxSessions)
           /\ pending' = pending \cup {r}
  <2>1. ~MaySpoof => KnownActive'
    BY <1>1, <1>2, OsSame, KnownSame, KnownReconciled DEF Bounded, Cleared
  <2>2. ~MaySpoof => Len(sessions') <= MaxTracked
    BY <1>2, ShorterList DEF Bounded, PidsKept, Parameters
  <2>3. Settled' \in SUBSET now
    BY <1>2 DEF Settled, Active, Tracked, RegistryShrinks
  <2>4. IsFiniteSet(now) /\ Cardinality(now) \in Nat
    <3>1. IsFiniteSet(Tracked) /\ now \in SUBSET Tracked
      BY FiniteSettled
    <3>2. QED
      BY <3>1, FS_Subset, FS_CardinalityType
  <2>5. Cardinality(Settled') <= Cardinality(now) /\ Cardinality(Settled') \in Nat
    BY <2>3, <2>4, FS_Subset, FS_CardinalityType
  <2>6. Cardinality(pending') <= Cardinality(pending) + 1 /\ Cardinality(pending') \in Nat
        /\ Cardinality(pending) \in Nat
    <3>1. IsFiniteSet(pending) /\ Cardinality(pending) \in Nat
      BY FiniteSettled
    <3>2. Cardinality(pending') = IF r \in pending THEN Cardinality(pending)
                                  ELSE Cardinality(pending) + 1
      BY <1>9, <3>1, FS_AddElement
    <3>3. QED
      BY <3>1, <3>2
  <2>7. Cardinality(Settled') + Cardinality(pending') <= MaxSessions
    <3> HIDE DEF now
    <3>1. QED
      BY <1>9, <2>4, <2>5, <2>6 DEF PidsKept, Parameters
  <2>8. QED
    BY <1>5, <1>7, <2>1, <2>2, <2>7 DEF Bounded
<1>10. QED
  BY <1>1, <1>8, <1>9

(* A termination begins.                                                   *)
LEMMA TerminateKeeps ==
    ASSUME PidsKept, IInv, NEW r \in Req, Terminate(r) PROVE IInv'
<1> USE DEF IInv
<1>1. Open /\ pc[r] = "idle" /\ UNCHANGED <<os, pidOf, pending, phase, shutdown>>
  BY DEF Terminate
<1>2. PICK s \in Tracked, b \in Pruned(backend) :
        /\ backend' = b /\ Reconcile(b)
        /\ IF pidOf[s] \in Listed(b) THEN Goto(r, "termKill", s) ELSE Goto(r, "idle", 0)
  BY DEF Terminate
<1>3. /\ RegistryShrinks /\ Cleared(backend')
      /\ \A t \in Tracked : active'[t] = (pidOf[t] \in Listed(backend'))
  BY <1>2, ReconcileForm, PrunedForm DEF PidsKept
<1>4. s \in Process /\ s \in Spawned
  BY TrackedProcesses DEF Reaching, OneSessionPerPid
<1>5. /\ OnlyCall(r)
      /\ \/ pc'[r] = "termKill" /\ cur'[r] = s
         \/ pc'[r] = "idle"
  BY <1>2, <1>4, GotoForm DEF CallPc
<1>6. CallMoves(r)
  <2>1. Spawned' = Spawned
    BY <1>1 DEF Spawned
  <2>2. QED
    BY <1>1, <1>3, <1>4, <1>5, <2>1, SamePending DEF CallMoves, CallAbout
<1>7. Typed' /\ Reaching' /\ Holding' /\ StartsKept
  BY <1>6, CallMovesKeeps
<1>8. ASSUME ~MayLeave, NEW i \in Process, os[i] = "running"
      PROVE  (i \in Active => i \in Active') /\ ~Holds(r, i)
  <2>1. phase # "down"
    BY <1>1, <1>8, PhaseUp
  <2>2. QED
    BY <1>1, <1>2, <1>3, <1>8, <2>1, AliveStaysActive DEF Active, Holds
<1>9. Counting'
  BY <1>1, <1>5, <1>8, CountingKept DEF shutdown
<1>10. Bounded'
  BY <1>1, <1>3, <1>7, OsSame, BoundedReconciled DEF PidsKept
<1>11. QED
  BY <1>7, <1>9, <1>10

(* A read takes an entry of the backend, or finds none.                    *)
LEMMA ReadKeeps ==
    ASSUME PidsKept, IInv, NEW r \in Req, Read(r) PROVE IInv'
<1> USE DEF IInv
<1>1. Open /\ pc[r] = "idle" /\ UNCHANGED <<os, pidOf, pending, phase, shutdown>>
  BY DEF Read
<1>2. PICK s \in Tracked, b \in Pruned(backend) :
        /\ backend' = b
        /\ IF b[pidOf[s]] = 0
           THEN MarkInactive(s) /\ Goto(r, "idle", 0)
           ELSE /\ pc' = [pc EXCEPT ![r] = "reading"] /\ cur' = [cur EXCEPT ![r] = s]
                /\ entry' = [entry EXCEPT ![r] = b[pidOf[s]]]
                /\ UNCHANGED <<sessions, active>>
  BY DEF Read
<1>3. Cleared(backend') /\ \A p \in Pid : backend'[p] \in {backend[p], 0}
  BY <1>2, PrunedForm DEF Cleared
<1>4. s \in Process /\ s \in Spawned /\ pidOf[s] \in Pid /\ s # 0
  BY TrackedProcesses, ProcessNumbers DEF Reaching, OneSessionPerPid, SpawnedFirst
<1>5. Spawned' = Spawned /\ OsAdvances
  BY <1>1, OsSame DEF Spawned
<1>6. CASE b[pidOf[s]] = 0
  <2>1. /\ RegistryShrinks /\ active' = [active EXCEPT ![s] = FALSE]
        /\ \A t \in Tracked \ {s} : active[t] => t \in ToSet(sessions')
    BY <1>2, <1>4, <1>6, MarkInactiveForm DEF PidsKept
  <2>2. OnlyCall(r) /\ pc'[r] = "idle"
    BY <1>2, <1>6, GotoForm DEF CallPc
  <2>3. CallMoves(r)
    BY <1>1, <1>3, <2>1, <2>2, SamePending DEF CallMoves, CallAbout
  <2>4. Typed' /\ Reaching' /\ Holding' /\ StartsKept
    BY <2>3, CallMovesKeeps
  <2>5. ASSUME ~MayLeave, NEW i \in Process, os[i] = "running"
        PROVE  (i \in Active => i \in Active') /\ ~Holds(r, i)
    <3>1. phase # "down"
      BY <1>1, <2>5, PhaseUp
    <3>2. i # s
      BY <1>2, <1>4, <1>6, <2>5, <3>1, AliveListed, PrunedForm DEF Holding
    <3>3. QED
      BY <1>1, <2>1, <2>5, <3>2 DEF Active, Tracked, Holds, Typed
  <2>6. Counting'
    BY <1>1, <2>2, <2>5, CountingKept DEF shutdown
  <2>7. Bounded'
    BY <1>1, <1>2, <1>3, <1>4, <1>5, <1>6, <2>1, <2>4, BoundedMarked DEF PidsKept
  <2>8. QED
    BY <2>4, <2>6, <2>7
<1>7. CASE b[pidOf[s]] # 0
  <2> DEFINE j == b[pidOf[s]]
  <2>1. j = backend[pidOf[s]] /\ j \in Process /\ About(s, j)
    BY <1>2, <1>3, <1>4, <1>7 DEF Cleared, Typed, Reaching, BackendLatest, About, Latest
  <2> HIDE DEF j
  <2>2. OnlyCall(r) /\ pc'[r] = "reading" /\ cur'[r] = s /\ entry'[r] = j
        /\ RegistryShrinks /\ active' = active /\ ToSet(sessions') = Tracked
    <3>1. /\ pc' = [pc EXCEPT ![r] = "reading"] /\ cur' = [cur EXCEPT ![r] = s]
          /\ entry' = [entry EXCEPT ![r] = j] /\ UNCHANGED <<sessions, active>>
      BY <1>2, <1>7 DEF j
    <3>2. QED
      BY <1>4, <2>1, <3>1, SameRegistry DEF Typed, CallsTyped, OnlyCall, CallPc
  <2>3. CallAbout(r)'
    BY <1>1, <1>4, <1>5, <2>1, <2>2 DEF CallAbout, About
  <2>4. CallMoves(r)
    BY <1>1, <1>3, <2>2, <2>3, SamePending DEF CallMoves
  <2>5. Typed' /\ Reaching' /\ Holding' /\ StartsKept
    BY <2>4, CallMovesKeeps
  <2>6. ASSUME NEW i \in Process
        PROVE  (i \in Active => i \in Active') /\ ~Holds(r, i)
    BY <1>1, <2>2 DEF Active, Tracked, Holds
  <2>7. Counting'
    BY <1>1, <2>2, <2>6, CountingKept DEF shutdown
  <2>8. Bounded'
    BY <1>1, <1>3, <1>5, <2>2, <2>5, BoundedSame DEF PidsKept
  <2>9. QED
    BY <2>5, <2>7, <2>8
<1>8. QED
  BY <1>6, <1>7

(* It is answered, and the session marked inactive when its process has    *)
(* closed.                                                                 *)
LEMMA AnsweredKeeps ==
    ASSUME PidsKept, IInv, NEW r \in Req, Answered(r) PROVE IInv'
<1> USE DEF IInv
<1> DEFINE s == cur[r]
<1>1. /\ pc[r] = "reading" /\ Goto(r, "idle", 0)
      /\ UNCHANGED <<os, pidOf, backend, pending, phase, shutdown>>
  BY DEF Answered
<1>2. s \in Spawned /\ s \in Process /\ About(s, entry[r])
  BY <1>1 DEF Holding, CallsAbout, CallAbout, Spawned
<1>3. OnlyCall(r) /\ pc'[r] = "idle"
  BY <1>1, GotoForm DEF CallPc
<1>4. Cleared(backend') /\ (\A p \in Pid : backend'[p] \in {backend[p], 0}) /\ OsAdvances
  BY <1>1, OsSame DEF Cleared, Typed
<1>5. CASE (os[entry[r]] = "closed" \/ MaySpoof) /\ MarkInactive(s)
  <2>1. /\ RegistryShrinks /\ active' = [active EXCEPT ![s] = FALSE]
        /\ \A t \in Tracked \ {s} : active[t] => t \in ToSet(sessions')
    BY <1>2, <1>5, MarkInactiveForm DEF PidsKept
  <2>2. CallMoves(r)
    BY <1>1, <1>3, <1>4, <2>1, SamePending DEF CallMoves, CallAbout
  <2>3. Typed' /\ Reaching' /\ Holding' /\ StartsKept
    BY <2>2, CallMovesKeeps
  <2>4. MaySpoof \/ os[s] = "closed"
    BY <1>2, <1>5, NotSpoofed
  <2>5. ASSUME ~MaySpoof, NEW i \in Process, os[i] = "running"
        PROVE  (i \in Active => i \in Active') /\ ~Holds(r, i)
    BY <1>1, <2>1, <2>4, <2>5 DEF Active, Tracked, Holds, Typed
  <2>6. Counting'
    BY <1>1, <1>3, <2>5, CountingKept DEF shutdown
  <2>7. Bounded'
    BY <1>1, <1>2, <1>4, <2>1, <2>3, <2>4, BoundedMarked DEF PidsKept
  <2>8. QED
    BY <2>3, <2>6, <2>7
<1>6. CASE UNCHANGED <<sessions, active>>
  <2>1. RegistryShrinks /\ active' = active /\ ToSet(sessions') = Tracked
    BY <1>6, SameRegistry
  <2>2. CallMoves(r)
    BY <1>1, <1>3, <1>4, <2>1, SamePending DEF CallMoves, CallAbout
  <2>3. Typed' /\ Reaching' /\ Holding' /\ StartsKept
    BY <2>2, CallMovesKeeps
  <2>4. ASSUME NEW i \in Process
        PROVE  (i \in Active => i \in Active') /\ ~Holds(r, i)
    BY <1>1, <2>1 DEF Active, Tracked, Holds
  <2>5. Counting'
    BY <1>1, <1>3, <2>4, CountingKept DEF shutdown
  <2>6. Bounded'
    BY <1>1, <1>4, <2>1, <2>3, BoundedSame DEF PidsKept
  <2>7. QED
    BY <2>3, <2>5, <2>6
<1>7. QED
  BY <1>5, <1>6 DEF Answered

(* A termination that succeeded forgets its session; one that failed does  *)
(* it if the process is not listed any more.                               *)
LEMMA TerminatedForm ==
    ASSUME PidsKept, IInv, NEW r \in Req, pc[r] = "termFailed", NEW b, Cleared(b),
           active' = Reconciled(b),
           sessions' = LET kept == PruneHistory(sessions, active')
                       IN  IF pidOf[cur[r]] \in Listed(b) THEN kept
                           ELSE Keep(kept, ToSet(kept) \ {cur[r]})
    PROVE  /\ RegistryShrinks
           /\ \A s \in Tracked : /\ active'[s] = (pidOf[s] \in Listed(b))
                                 /\ active'[s] => s \in ToSet(sessions')
<1> USE DEF IInv
<1> DEFINE kept == PruneHistory(sessions, active')
<1>1. active' \in [Process -> BOOLEAN]
  BY ReconciledFlags
<1>2. \A s \in Tracked : active'[s] = (pidOf[s] \in Listed(b))
  BY ReconciledFlags
<1>3. /\ kept \in Seq(Process) /\ Distinct(kept) /\ ToSet(kept) \subseteq Tracked
      /\ \A s \in Tracked : active'[s] => s \in ToSet(kept)
  BY PruneProperties DEF PidsKept, Parameters, Typed, Tracked
<1> HIDE DEF kept
<1>4. CASE pidOf[cur[r]] \in Listed(b)
  <2>1. sessions' = kept
    BY <1>4 DEF kept
  <2>2. QED
    BY <1>1, <1>2, <1>3, <2>1 DEF RegistryShrinks
<1>5. CASE pidOf[cur[r]] \notin Listed(b)
  <2> DEFINE rest == ToSet(kept) \ {cur[r]}
  <2>1. sessions' = Keep(kept, rest) /\ kept \in Seq(Process) /\ Distinct(kept)
    BY <1>3, <1>5 DEF kept
  <2> HIDE DEF rest
  <2>a. /\ Keep(kept, rest) \in Seq(Process) /\ Distinct(Keep(kept, rest))
        /\ ToSet(Keep(kept, rest)) = ToSet(kept) \cap rest
    BY <2>1, KeepProperties
  <2>2. /\ sessions' \in Seq(Process) /\ Distinct(sessions')
        /\ ToSet(sessions') = ToSet(kept) \cap (ToSet(kept) \ {cur[r]})
    BY <2>1, <2>a DEF rest
  <2>3. \A s \in Tracked : active'[s] => s # cur[r]
    BY <1>2, <1>5
  <2>4. QED
    BY <1>1, <1>2, <1>3, <2>2, <2>3 DEF RegistryShrinks
<1>6. QED
  BY <1>4, <1>5

(* A termination ends.                                                     *)
LEMMA TerminatedKeeps ==
    ASSUME PidsKept, IInv, NEW r \in Req, Terminated(r) PROVE IInv'
<1> USE DEF IInv
<1>1. /\ pc[r] \in {"termDone", "termFailed"} /\ Goto(r, "idle", 0)
      /\ UNCHANGED <<os, pidOf, pending, phase, shutdown>>
  BY DEF Terminated
<1>2. cur[r] \in Spawned /\ cur[r] \in Process /\ (pc[r] = "termDone" => os[cur[r]] = "closed")
  BY <1>1 DEF Holding, CallsAbout, CallAbout, Spawned
<1>3. OnlyCall(r) /\ pc'[r] = "idle" /\ OsAdvances
  BY <1>1, GotoForm, OsSame DEF CallPc
<1>4. CASE pc[r] = "termDone" /\ Forget(cur[r]) /\ UNCHANGED <<backend, active>>
  <2>1. RegistryShrinks /\ ToSet(sessions') = Tracked \ {cur[r]} /\ active' = active
    BY <1>4, ForgetForm
  <2>2. Cleared(backend') /\ \A p \in Pid : backend'[p] \in {backend[p], 0}
    BY <1>4 DEF Cleared, Typed
  <2>3. CallMoves(r)
    BY <1>1, <1>3, <2>1, <2>2, SamePending DEF CallMoves, CallAbout
  <2>4. Typed' /\ Reaching' /\ Holding' /\ StartsKept
    BY <2>3, CallMovesKeeps
  <2>5. ASSUME NEW i \in Process, os[i] = "running"
        PROVE  (i \in Active => i \in Active') /\ ~Holds(r, i)
    BY <1>1, <1>2, <1>4, <2>1, <2>5 DEF Active, Tracked, Holds
  <2>6. Counting'
    BY <1>1, <1>3, <2>5, CountingKept DEF shutdown
  <2>7. Bounded'
    BY <1>1, <1>3, <2>1, <2>2, <2>4, BoundedSame DEF PidsKept
  <2>8. QED
    BY <2>4, <2>6, <2>7
<1>5. ASSUME pc[r] = "termFailed", NEW b \in Pruned(backend), backend' = b,
             active' = Reconciled(b),
             sessions' = LET kept == PruneHistory(sessions, active')
                         IN  IF pidOf[cur[r]] \in Listed(b) THEN kept
                             ELSE Keep(kept, ToSet(kept) \ {cur[r]})
      PROVE  IInv'
  <2>1. Cleared(b) /\ Cleared(backend')
    BY <1>5, PrunedForm
  <2>2. /\ RegistryShrinks
        /\ \A s \in Tracked : /\ active'[s] = (pidOf[s] \in Listed(b))
                              /\ active'[s] => s \in ToSet(sessions')
    BY <1>5, <2>1, TerminatedForm
  <2>3. CallMoves(r)
    BY <1>1, <1>3, <2>1, <2>2, SamePending DEF CallMoves, CallAbout
  <2>4. Typed' /\ Reaching' /\ Holding' /\ StartsKept
    BY <2>3, CallMovesKeeps
  <2>5. ASSUME ~MayLeave, NEW i \in Process, os[i] = "running"
        PROVE  (i \in Active => i \in Active') /\ ~Holds(r, i)
    <3>1. phase # "down"
      BY <1>1, <2>5, PhaseUp
    <3>2. i \in Active => pidOf[i] \in Listed(b)
      BY <2>1, <2>5, <3>1, AliveListed DEF Holding, Active, Reaching, OneSessionPerPid
    <3>3. QED
      BY <1>5, <2>2, <3>2 DEF Active, Tracked, Holds
  <2>6. Counting'
    BY <1>1, <1>3, <2>5, CountingKept DEF shutdown
  <2>7. Bounded'
    BY <1>1, <1>3, <1>5, <2>1, <2>2, <2>4, BoundedReconciled DEF PidsKept
  <2>8. QED
    BY <2>4, <2>6, <2>7
<1>6. QED
  BY <1>4, <1>5 DEF Terminated

-----------------------------------------------------------------------------
(* A process is spawned, and registered.                                   *)

(* The process i gets the pid p.                                           *)
SpawnAs(r, p, i, b) ==
    /\ pc[r] = "spawn" /\ p \in Pid /\ i \in Process /\ Cleared(b)
    /\ PidFree(p) /\ os[i] = "none" /\ \A j \in 1 .. (i - 1) : os[j] # "none"
    /\ os' = [os EXCEPT ![i] = "running"]
    /\ pidOf' = [pidOf EXCEPT ![i] = p]
    /\ backend' = [b EXCEPT ![p] = i]
    /\ Goto(r, "starting", i)
    /\ UNCHANGED <<pending, sessions, active, phase, shutdown>>

(* What the spawn changes.                                                 *)
LEMMA SpawnForm ==
    ASSUME PidsKept, IInv, NEW r \in Req, NEW p, NEW i, NEW b, SpawnAs(r, p, i, b)
    PROVE  /\ i \notin Spawned /\ Spawned' = Spawned \cup {i} /\ Spawned \subseteq Process
           /\ \A j \in Spawned : pidOf'[j] = pidOf[j] /\ os'[j] = os[j] /\ j < i /\ j # i
           /\ pidOf'[i] = p /\ os'[i] = "running" /\ i # 0
           /\ \A j \in Spawned : pidOf[j] = p => os[j] = "closed" /\ Reuse # "never"
           /\ backend'[p] = i /\ \A q \in Pid \ {p} : backend'[q] = b[q]
           /\ \A q \in Pid : b[q] \in {backend[q], 0}
           /\ OnlyCall(r) /\ pc'[r] = "starting" /\ cur'[r] = i
           /\ Typed'
<1> USE DEF IInv, SpawnAs
<1>1. i \notin Spawned /\ Spawned \subseteq Process /\ i \in Process /\ i # 0
  BY ProcessNumbers DEF Spawned
<1>2. \A j \in Spawned : j < i /\ j # i
  BY <1>1, ProcessNumbers DEF Reaching, SpawnedFirst
<1>3. /\ os' \in [Process -> {"none", "running", "exited", "closed"}] /\ os'[i] = "running"
      /\ \A j \in Process \ {i} : os'[j] = os[j]
      /\ pidOf' \in [Process -> Pid \cup {0}] /\ pidOf'[i] = p
      /\ \A j \in Process \ {i} : pidOf'[j] = pidOf[j]
  BY DEF Typed
<1>4. Spawned' = Spawned \cup {i}
  BY <1>1, <1>3 DEF Spawned
<1>5. \A j \in Spawned : pidOf[j] = p => os[j] = "closed" /\ Reuse # "never"
  BY DEF PidFree, PidsKept, Parameters
<1>6. /\ backend' \in [Pid -> Process \cup {0}]
      /\ backend'[p] = i /\ \A q \in Pid \ {p} : backend'[q] = b[q]
      /\ \A q \in Pid : b[q] \in {backend[q], 0}
  BY DEF Cleared
<1>7. OnlyCall(r) /\ pc'[r] = "starting" /\ cur'[r] = i
  BY GotoForm DEF CallPc
<1>8. Typed'
  BY <1>3, <1>6, <1>7 DEF Typed, OnlyCall, ShutdownTyped, shutdown
<1>9. QED
  BY <1>1, <1>2, <1>3, <1>4, <1>5, <1>6, <1>7, <1>8

(* An old session of the pid reaches the new process, but its start has    *)
(* not returned.                                                           *)
LEMMA SpawnReaching ==
    ASSUME PidsKept, IInv, NEW r \in Req, NEW p, NEW i, NEW b, SpawnAs(r, p, i, b),
           \A q \in Req : ~Resuming(q)
    PROVE  Reaching'
<1> USE DEF IInv
<1>1. p \in Pid /\ pc[r] = "spawn" /\ UNCHANGED <<pending, sessions, active>> /\ Tracked' = Tracked
  BY DEF SpawnAs, Tracked
<1>2. /\ i \notin Spawned /\ Spawned' = Spawned \cup {i} /\ Spawned \subseteq Process
      /\ \A j \in Spawned : pidOf'[j] = pidOf[j] /\ os'[j] = os[j] /\ j < i /\ j # i
      /\ pidOf'[i] = p /\ os'[i] = "running" /\ i # 0
      /\ \A j \in Spawned : pidOf[j] = p => os[j] = "closed" /\ Reuse # "never"
      /\ backend'[p] = i /\ \A q \in Pid \ {p} : backend'[q] = b[q]
      /\ \A q \in Pid : b[q] \in {backend[q], 0}
      /\ OnlyCall(r) /\ pc'[r] = "starting" /\ cur'[r] = i
  BY SpawnForm
<1>3. i \in Process /\ \A j \in Process : j < i => j \in Spawned
  <2>1. i \in Process /\ \A j \in 1 .. (i - 1) : os[j] # "none"
    BY DEF SpawnAs
  <2>2. QED
    BY <2>1, ProcessNumbers DEF Spawned
<1>4. \A j \in Spawned : Latest(j) /\ pidOf[j] # p => Latest(j)'
  BY <1>2 DEF Latest
<1>5. Latest(cur[r])'
  BY <1>2, <1>3, ProcessNumbers DEF Latest
<1>6. \A q \in Req : pc[q] = "starting" => pidOf[cur[q]] # p /\ cur[q] \in Spawned /\ q # r
  <2> SUFFICES ASSUME NEW q \in Req, pc[q] = "starting"
               PROVE  pidOf[cur[q]] # p /\ cur[q] \in Spawned /\ q # r
    OBVIOUS
  <2>1. os[cur[q]] # "closed" /\ cur[q] \in Spawned
    BY DEF Resuming, Reaching, StartsPending
  <2>2. QED
    BY <1>1, <1>2, <2>1
<1>7. SpawnedFirst'
  <2> SUFFICES ASSUME NEW j \in Spawned'
               PROVE  pidOf'[j] \in Pid /\ \A k \in Process : k < j => k \in Spawned'
    BY DEF SpawnedFirst
  <2>1. CASE j = i
    BY <1>1, <1>2, <1>3, <2>1
  <2>2. CASE j \in Spawned
    BY <1>2, <2>2 DEF Reaching, SpawnedFirst
  <2>3. QED
    BY <1>2, <2>1, <2>2
<1>8. BackendLatest'
  <2> SUFFICES ASSUME NEW q \in Pid, backend'[q] # 0
               PROVE  /\ backend'[q] \in Spawned' /\ pidOf'[backend'[q]] = q
                      /\ Latest(backend[q])'
    BY DEF BackendLatest
  <2>1. CASE q = p
    BY <1>1, <1>2, <1>3, <2>1, ProcessNumbers DEF Latest
  <2>2. CASE q # p
    <3>1. backend'[q] = backend[q] /\ backend[q] # 0
      BY <1>2, <2>2
    <3>2. backend[q] \in Spawned /\ pidOf[backend[q]] = q /\ Latest(backend[q])
      BY <3>1 DEF Reaching, BackendLatest
    <3>3. QED
      BY <1>2, <2>2, <3>1, <3>2 DEF Latest
  <2>3. QED
    BY <2>1, <2>2
<1>9. OneSessionPerPid'
  BY <1>1, <1>2 DEF Reaching, OneSessionPerPid
<1>10. StartsPending'
  <2> SUFFICES ASSUME NEW q \in Req
               PROVE  /\ pc'[q] \in {"spawn", "starting"} => q \in pending'
                      /\ pc'[q] = "starting" =>
                            /\ cur'[q] \in Spawned' /\ Latest(cur[q])'
                            /\ cur'[q] \notin Tracked'
                            /\ \A x \in Req : pc'[x] = "starting" /\ cur'[x] = cur'[q] => x = q
    BY DEF StartsPending
  <2>1. i \notin Tracked
    BY <1>2 DEF Reaching, OneSessionPerPid
  <2>2. \A x \in Req \ {r} : pc'[x] = "starting" => pc[x] = "starting" /\ cur'[x] = cur[x]
                                                    /\ cur[x] \in Spawned /\ cur[x] # i
    BY <1>2, <1>6 DEF OnlyCall
  <2>3. CASE q = r
    BY <1>1, <1>2, <1>5, <2>1, <2>2, <2>3 DEF Reaching, StartsPending
  <2>4. CASE q # r
    <3>1. pc'[q] = pc[q] /\ cur'[q] = cur[q]
      BY <1>2, <2>4 DEF OnlyCall
    <3>2. pc[q] \in {"spawn", "starting"} => q \in pending'
      BY <1>1 DEF Reaching, StartsPending
    <3>3. ASSUME pc[q] = "starting"
          PROVE  /\ cur[q] \in Spawned' /\ cur[q] \notin Tracked' /\ Latest(cur[q])'
                 /\ \A x \in Req : pc'[x] = "starting" /\ cur'[x] = cur'[q] => x = q
      <4>1. cur[q] \in Spawned /\ cur[q] \notin Tracked /\ Latest(cur[q]) /\ pidOf[cur[q]] # p
            /\ \A x \in Req : pc[x] = "starting" /\ cur[x] = cur[q] => x = q
        BY <1>6, <3>3 DEF Reaching, StartsPending
      <4>2. Latest(cur[q])'
        BY <1>2, <3>1, <4>1 DEF Latest
      <4>3. QED
        BY <1>1, <1>2, <2>2, <3>1, <4>1, <4>2
    <3>4. QED
      BY <3>1, <3>2, <3>3
  <2>5. QED
    BY <2>3, <2>4
<1>11. ReachesOwnUnlessStarting'
  <2> SUFFICES ASSUME NEW s \in Tracked, backend'[pidOf'[s]] \notin {0, s}
               PROVE  \E x \in pending : pc'[x] = "starting" /\ cur'[x] = backend'[pidOf'[s]]
    BY <1>1 DEF ReachesOwnUnlessStarting, Reached
  <2>1. s \in Spawned /\ pidOf[s] \in Pid /\ pidOf'[s] = pidOf[s]
    BY <1>2 DEF Reaching, OneSessionPerPid, SpawnedFirst
  <2>2. r \in pending
    BY <1>1 DEF Reaching, StartsPending
  <2>3. CASE pidOf[s] = p
    BY <1>2, <2>1, <2>2, <2>3
  <2>4. CASE pidOf[s] # p
    <3>1. backend'[pidOf[s]] = backend[pidOf[s]] /\ Reached(s) \notin {0, s}
      BY <1>2, <2>1, <2>4 DEF Reached
    <3>2. PICK x \in pending : pc[x] = "starting" /\ cur[x] = Reached(s)
      BY <3>1 DEF Reaching, ReachesOwnUnlessStarting
    <3>3. x \in Req \ {r}
      BY <1>1, <3>2 DEF Typed
    <3>4. QED
      BY <1>2, <2>1, <3>1, <3>2, <3>3 DEF OnlyCall, Reached
  <2>5. QED
    BY <2>3, <2>4
<1>12. QED
  BY <1>7, <1>8, <1>9, <1>10, <1>11 DEF Reaching

(* The pid was free, so its older processes have closed.                   *)
LEMMA SpawnHolding ==
    ASSUME PidsKept, IInv, NEW r \in Req, NEW p, NEW i, NEW b, SpawnAs(r, p, i, b),
           \A q \in Req : ~Resuming(q)
    PROVE  Holding'
<1> USE DEF IInv
<1>1. p \in Pid /\ pc[r] = "spawn" /\ UNCHANGED <<phase, shutdown>> /\ Cleared(b) /\ i \in Process
  BY DEF SpawnAs
<1>2. /\ i \notin Spawned /\ Spawned' = Spawned \cup {i} /\ Spawned \subseteq Process
      /\ \A j \in Spawned : pidOf'[j] = pidOf[j] /\ os'[j] = os[j] /\ j < i /\ j # i
      /\ pidOf'[i] = p /\ os'[i] = "running" /\ i # 0
      /\ \A j \in Spawned : pidOf[j] = p => os[j] = "closed" /\ Reuse # "never"
      /\ backend'[p] = i /\ \A q \in Pid \ {p} : backend'[q] = b[q]
      /\ \A q \in Pid : b[q] \in {backend[q], 0}
      /\ OnlyCall(r) /\ pc'[r] = "starting" /\ cur'[r] = i
  BY SpawnForm
<1>3. OlderClosed'
  <2> SUFFICES ASSUME NEW j \in Spawned', NEW k \in Spawned', j < k, pidOf'[j] = pidOf'[k]
               PROVE  os'[j] = "closed"
    BY DEF OlderClosed
  <2>1. j \in Spawned
    BY <1>1, <1>2, ProcessNumbers
  <2>2. QED
    BY <1>2, <2>1 DEF Holding, OlderClosed
<1>4. PidsNew'
  BY <1>2 DEF Holding, PidsNew
<1>5. BackendKnows'
  <2> SUFFICES ASSUME phase # "down", NEW j \in Process, os'[j] \in {"running", "exited"}, j # i
               PROVE  backend'[pidOf'[j]] = j
    BY <1>1, <1>2 DEF BackendKnows
  <2>1. os[j] = os'[j] /\ j \in Spawned
    BY <1>2 DEF SpawnAs, Typed, Spawned
  <2>2. pidOf[j] # p /\ pidOf'[j] = pidOf[j]
    BY <1>2, <2>1
  <2>3. b[pidOf[j]] = j /\ pidOf[j] \in Pid
    BY <1>1, <2>1, AliveListed DEF Holding
  <2>4. QED
    BY <1>2, <2>2, <2>3
<1>6. CallsAbout'
  <2> SUFFICES ASSUME NEW q \in Req PROVE CallAbout(q)'
    BY DEF CallsAbout
  <2>1. CASE q = r
    BY <1>2, <2>1 DEF CallAbout
  <2>2. CASE q # r
    <3>1. pc'[q] = pc[q] /\ cur'[q] = cur[q] /\ entry'[q] = entry[q] /\ CallAbout(q)
      BY <1>2, <2>2 DEF OnlyCall, Holding, CallsAbout
    <3>2. pc[q] \in {"killWait", "termWait"} => pidOf[entry[q]] # p /\ entry[q] \in Spawned
      <4> SUFFICES ASSUME pc[q] \in {"killWait", "termWait"}
                   PROVE  pidOf[entry[q]] # p /\ entry[q] \in Spawned
        OBVIOUS
      <4>1. entry[q] \in Spawned /\ os[entry[q]] # "closed"
        BY <3>1 DEF CallAbout, About, Resuming
      <4>2. QED
        BY <1>2, <4>1
    <3>3. pc[q] \in {"killWait", "termWait"} => Latest(entry[q])'
      BY <1>2, <3>1, <3>2 DEF CallAbout, Latest
    <3>4. \A j, k : About(j, k) => About(j, k)'
      BY <1>2 DEF About
    <3>5. /\ pc[q] \notin {"idle", "refused", "spawn"} => cur[q] \in Spawned'
          /\ pc[q] \in {"killWait", "termWait", "reading"} => About(cur[q], entry[q])'
          /\ pc[q] = "termDone" => os'[cur[q]] = "closed"
      BY <1>2, <3>1 DEF CallAbout, About
    <3>6. QED
      BY <3>1, <3>3, <3>5 DEF CallAbout
  <2>3. QED
    BY <2>1, <2>2
<1>7. OwnedSpawned'
  BY <1>1, <1>2 DEF Holding, OwnedSpawned, shutdown
<1>8. ~MayLeave => phase = "up"
  BY <1>1, PhaseUp
<1>9. Closes'
  <2>1. phase \in {"closing", "down"} => known \subseteq Spawned
    BY DEF Holding, Closes, Typed, ShutdownTyped, Spawned
  <2>2. QED
    BY <1>1, <1>2, <1>8, <2>1 DEF Holding, Closes, shutdown
<1>10. Quiet'
  BY <1>1, <1>8 DEF Quiet
<1>11. QED
  BY <1>3, <1>4, <1>5, <1>6, <1>7, <1>9, <1>10 DEF Holding

(* The process is counted by its start.                                    *)
LEMMA SpawnKeeps ==
    ASSUME PidsKept, IInv, NEW r \in Req, NEW p, NEW i, NEW b, SpawnAs(r, p, i, b),
           \A q \in Req : ~Resuming(q)
    PROVE  IInv'
<1> USE DEF IInv
<1>1. p \in Pid /\ pc[r] = "spawn" /\ UNCHANGED <<pending, sessions, active, phase, shutdown>>
      /\ Tracked' = Tracked /\ Active' = Active
  BY DEF SpawnAs, Tracked, Active
<1>2. /\ i \notin Spawned /\ Spawned' = Spawned \cup {i} /\ Spawned \subseteq Process
      /\ \A j \in Spawned : pidOf'[j] = pidOf[j] /\ os'[j] = os[j] /\ j < i /\ j # i
      /\ pidOf'[i] = p /\ os'[i] = "running" /\ i # 0
      /\ backend'[p] = i /\ \A q \in Pid \ {p} : backend'[q] = b[q]
      /\ \A q \in Pid : b[q] \in {backend[q], 0}
      /\ OnlyCall(r) /\ pc'[r] = "starting" /\ cur'[r] = i
      /\ Typed'
  BY SpawnForm
<1>3. Reaching' /\ Holding'
  BY SpawnReaching, SpawnHolding
<1>4. Counting'
  <2> SUFFICES ASSUME ~MayHang, ~MaySpoof, ~MayLeave PROVE LiveIsCounted' /\ OwnedDead'
    BY DEF Counting
  <2>1. OwnedDead'
    BY <1>1, <1>2 DEF Counting, OwnedDead, Holding, OwnedSpawned, shutdown
  <2>2. ASSUME NEW j \in Process, os'[j] = "running"
        PROVE  j \in Active' \/ \E q \in Req : Holds(q, j)'
    <3>1. CASE j = i
      BY <1>2, <3>1 DEF Holds
    <3>2. CASE j # i
      <4>1. os[j] = "running"
        BY <2>2, <3>2 DEF SpawnAs, Typed
      <4>2. j \in Active \/ \E q \in Req : Holds(q, j)
        BY <4>1, CountedByCall DEF Counting
      <4>3. ASSUME NEW q \in Req, Holds(q, j) PROVE Holds(q, j)'
        BY <1>1, <1>2, <4>3 DEF Holds, OnlyCall
      <4>4. QED
        BY <1>1, <4>2, <4>3
    <3>3. QED
      BY <3>1, <3>2
  <2>3. LiveIsCounted'
    BY <2>2 DEF LiveIsCounted, Holds
  <2>4. QED
    BY <2>1, <2>3
<1>5. Bounded'
  <2> SUFFICES ASSUME ~MaySpoof
               PROVE  /\ KnownActive'
                      /\ Cardinality(Settled') + Cardinality(pending') <= MaxSessions
                      /\ Len(sessions') <= MaxTracked
    BY DEF Bounded
  <2>1. KnownActive'
    <3> SUFFICES ASSUME NEW s \in Tracked, backend'[pidOf'[s]] = s, os'[s] # "closed"
                 PROVE  active[s]
      BY <1>1 DEF KnownActive
    <3>1. s \in Spawned /\ pidOf[s] \in Pid /\ pidOf'[s] = pidOf[s] /\ os'[s] = os[s] /\ s # 0
      BY <1>2, ProcessNumbers DEF Reaching, OneSessionPerPid, SpawnedFirst
    <3>2. backend[pidOf[s]] = s
      BY <1>2, <3>1
    <3>3. QED
      BY <3>1, <3>2 DEF Bounded, KnownActive
  <2>2. \A j : Starting(j) => Starting(j)'
    BY <1>1, <1>2 DEF Starting, OnlyCall, Typed
  <2>3. Settled' \in SUBSET Settled
    <3> SUFFICES ASSUME NEW s \in Settled' PROVE s \in Settled
      OBVIOUS
    <3>1. s \in Active /\ ~\E j \in Spawned' : pidOf'[j] = pidOf'[s] /\ Starting(j)'
      BY <1>1 DEF Settled
    <3>2. s \in Spawned
      BY <3>1 DEF Active, Reaching, OneSessionPerPid
    <3>3. QED
      BY <1>2, <2>2, <3>1, <3>2 DEF Settled
  <2>4. Cardinality(Settled') <= Cardinality(Settled) /\ Cardinality(Settled') \in Nat
    BY <2>3, FiniteSettled, FS_Subset, FS_CardinalityType
  <2>5. QED
    BY <1>1, <2>1, <2>4, FiniteSettled DEF Bounded, PidsKept, Parameters
<1>6. QED
  BY <1>2, <1>3, <1>4, <1>5

(* Sessions that are active only because of a start are no more than the   *)
(* starts.                                                                 *)
LEMMA UnsettledBounded ==
    ASSUME Typed, Reaching, NEW r \in pending, pc[r] = "starting",
           NEW S \in SUBSET Active, S \cap Settled = {}, \A s \in S : pidOf[s] # pidOf[cur[r]]
    PROVE  IsFiniteSet(S) /\ Cardinality(S) <= Cardinality(pending \ {r})
<1> DEFINE f == [s \in S |-> CHOOSE q \in pending \ {r} : pidOf[cur[q]] = pidOf[s]]
<1>1. \A s \in S : \E q \in pending \ {r} : pidOf[cur[q]] = pidOf[s]
  BY DEF Settled, Starting
<1>2. f \in [S -> pending \ {r}] /\ \A s \in S : pidOf[cur[f[s]]] = pidOf[s]
  BY <1>1
<1>3. \A s, t \in S : pidOf[s] = pidOf[t] => s = t
  BY DEF Active, Reaching, OneSessionPerPid
<1> HIDE DEF f
<1>4. f \in Injection(S, pending \ {r})
  BY <1>2, <1>3 DEF Injection, IsInjective
<1>5. IsFiniteSet(pending \ {r})
  BY FS_Subset DEF Typed
<1>6. QED
  BY <1>4, <1>5, FS_Injection

(* The start r registers its process i.                                    *)
StartedAs(r, i) ==
    /\ pc[r] = "starting" /\ cur[r] = i /\ Register(i)
    /\ pending' = pending \ {r}
    /\ OnlyCall(r) /\ (pc'[r] = "idle" \/ (pc'[r] = "placing" /\ cur'[r] = i))
    /\ UNCHANGED <<os, pidOf, backend, phase, shutdown>>

(* The two ends of a start.                                                *)
LEMMA StartedForm ==
    ASSUME PidsKept, IInv, NEW r \in Req, Started(r)
    PROVE  StartedAs(r, cur[r])
<1> USE DEF IInv
<1>1. /\ pc[r] = "starting" /\ Register(cur[r]) /\ pending' = pending \ {r}
      /\ Goto(r, "idle", 0) \/ Goto(r, "placing", cur[r])
      /\ UNCHANGED <<os, pidOf, backend, phase, shutdown>>
  BY DEF Started
<1>2. cur[r] \in Process
  BY <1>1 DEF Reaching, StartsPending, Spawned
<1>3. OnlyCall(r) /\ (pc'[r] = "idle" \/ (pc'[r] = "placing" /\ cur'[r] = cur[r]))
  <2>1. "idle" \in CallPc /\ "placing" \in CallPc
    BY DEF CallPc
  <2>2. Goto(r, "idle", 0) => OnlyCall(r) /\ pc'[r] = "idle"
    BY <2>1, GotoForm
  <2>3. Goto(r, "placing", cur[r]) => OnlyCall(r) /\ pc'[r] = "placing" /\ cur'[r] = cur[r]
    BY <1>2, <2>1, GotoForm
  <2>4. QED
    BY <1>1, <2>2, <2>3
<1>4. QED
  BY <1>1, <1>3 DEF StartedAs

(* What a registration leaves.                                             *)
Registers(i) ==
    /\ i \in Spawned /\ i \in Process /\ Latest(i) /\ i \notin Tracked /\ pidOf[i] \in Pid
    /\ sessions' \in Seq(Process) /\ Distinct(sessions')
    /\ active' \in [Process -> BOOLEAN]
    /\ active'[i] /\ \A s \in Process \ {i} : active'[s] = active[s]
    /\ Tracked' = ToSet(sessions') /\ i \in Tracked'
    /\ \A s \in Tracked' \ {i} : s \in Tracked /\ pidOf[s] # pidOf[i]
    /\ \A s \in Tracked : active[s] /\ pidOf[s] # pidOf[i] => s \in Tracked'
    /\ Spawned' = Spawned /\ (\A j : Latest(j)' <=> Latest(j))

(* The registration, for a process that is no session yet.                 *)
LEMMA StartedRegisters ==
    ASSUME PidsKept, IInv, NEW r \in Req, NEW i, StartedAs(r, i)
    PROVE  /\ Registers(i)
           /\ \/ Len(sessions') <= MaxTracked
              \/ Tracked' \subseteq {s \in Tracked : active[s] /\ pidOf[s] # pidOf[i]} \cup {i}
<1> USE DEF IInv
<1>1. i \in Spawned /\ i \in Process /\ Latest(i) /\ i \notin Tracked /\ pidOf[i] \in Pid
  BY DEF StartedAs, Reaching, StartsPending, SpawnedFirst, Spawned
<1>2. Register(i) /\ Spawned' = Spawned /\ pidOf' = pidOf
  BY DEF StartedAs, Spawned
<1>3. \A j : Latest(j)' <=> Latest(j)
  BY <1>2 DEF Latest
<1>4. /\ sessions' \in Seq(Process) /\ Distinct(sessions')
      /\ active' = [active EXCEPT ![i] = TRUE] /\ active' \in [Process -> BOOLEAN]
      /\ ToSet(sessions') \subseteq {s \in Tracked : pidOf[s] # pidOf[i]} \cup {i}
      /\ i \in ToSet(sessions')
      /\ \A s \in Tracked : active[s] /\ pidOf[s] # pidOf[i] => s \in ToSet(sessions')
      /\ \/ Len(sessions') <= MaxTracked
         \/ ToSet(sessions') \subseteq
                {s \in Tracked : active[s] /\ pidOf[s] # pidOf[i]} \cup {i}
  BY <1>1, <1>2, RegisterForm DEF PidsKept
<1>5. active'[i] /\ \A s \in Process \ {i} : active'[s] = active[s]
  BY <1>1, <1>4 DEF Typed
<1>6. Tracked' = ToSet(sessions')
  BY DEF Tracked
<1>7. QED
  BY <1>1, <1>2, <1>3, <1>4, <1>5, <1>6 DEF Registers

(* Now the id reaches its own process, and no other does.                  *)
LEMMA StartedReaching ==
    ASSUME PidsKept, IInv, NEW r \in Req, NEW i, StartedAs(r, i)
    PROVE  Typed' /\ Reaching'
<1> USE DEF IInv
<1>1. Registers(i)
  BY StartedRegisters
<1>2. /\ pc[r] = "starting" /\ cur[r] = i /\ OnlyCall(r) /\ pc'[r] \in {"idle", "placing"}
      /\ pending' = pending \ {r} /\ UNCHANGED <<os, pidOf, backend, phase, shutdown>>
  BY DEF StartedAs
<1>3. pending' \subseteq Req /\ IsFiniteSet(pending')
  BY <1>2, FS_Subset DEF Typed
<1>4. Typed'
  BY <1>1, <1>2, <1>3 DEF Typed, OnlyCall, ShutdownTyped, shutdown, Registers
<1>5. SpawnedFirst' /\ BackendLatest'
  BY <1>1, <1>2 DEF Reaching, SpawnedFirst, BackendLatest, Registers
<1>6. OneSessionPerPid'
  <2>1. Tracked' \subseteq Spawned'
    BY <1>1 DEF Registers, Reaching, OneSessionPerPid
  <2>2. ASSUME NEW s \in Tracked', NEW t \in Tracked', pidOf[s] = pidOf[t] PROVE s = t
    BY <1>1, <2>2 DEF Registers, Reaching, OneSessionPerPid
  <2>3. QED
    BY <1>2, <2>1, <2>2 DEF OneSessionPerPid
<1>7. StartsPending'
  <2> SUFFICES ASSUME NEW q \in Req
               PROVE  /\ pc'[q] \in {"spawn", "starting"} => q \in pending'
                      /\ pc'[q] = "starting" =>
                            /\ cur'[q] \in Spawned' /\ Latest(cur[q])'
                            /\ cur'[q] \notin Tracked'
                            /\ \A x \in Req : pc'[x] = "starting" /\ cur'[x] = cur'[q] => x = q
    BY DEF StartsPending
  <2>1. CASE q = r
    BY <1>2, <2>1
  <2>2. CASE q # r
    <3>1. pc'[q] = pc[q] /\ cur'[q] = cur[q]
      BY <1>2, <2>2 DEF OnlyCall
    <3>2. pc[q] \in {"spawn", "starting"} => q \in pending'
      BY <1>2, <2>2 DEF Reaching, StartsPending
    <3>3. ASSUME pc[q] = "starting"
          PROVE  /\ cur[q] \in Spawned' /\ cur[q] \notin Tracked' /\ Latest(cur[q])'
                 /\ \A x \in Req : pc'[x] = "starting" /\ cur'[x] = cur'[q] => x = q
      <4>1. /\ cur[q] \in Spawned /\ cur[q] \notin Tracked /\ Latest(cur[q])
            /\ \A x \in Req : pc[x] = "starting" /\ cur[x] = cur[q] => x = q
        BY <3>3 DEF Reaching, StartsPending
      <4>2. cur[q] # i
        BY <1>2, <2>2, <4>1
      <4>3. Latest(cur[q])'
        BY <1>1, <1>2, <3>1, <4>1 DEF Latest, Registers
      <4>4. cur[q] \in Spawned' /\ cur[q] \notin Tracked'
        BY <1>1, <4>1, <4>2 DEF Registers
      <4>5. \A x \in Req : pc'[x] = "starting" /\ cur'[x] = cur'[q] => x = q
        BY <1>2, <3>1, <4>1 DEF OnlyCall
      <4>6. QED
        BY <4>3, <4>4, <4>5
    <3>4. QED
      BY <1>2, <3>1, <3>2, <3>3 DEF Latest
  <2>3. QED
    BY <2>1, <2>2
<1>8. ReachesOwnUnlessStarting'
  <2> SUFFICES ASSUME NEW s \in Tracked', backend[pidOf[s]] \notin {0, s}
               PROVE  \E x \in pending' : pc'[x] = "starting" /\ cur'[x] = backend[pidOf[s]]
    BY <1>2 DEF ReachesOwnUnlessStarting, Reached
  <2> DEFINE j == backend[pidOf[s]]
  <2>1. CASE s = i
    <3>1. j \in Spawned /\ pidOf[j] = pidOf[i] /\ Latest(j)
      BY <1>1, <2>1 DEF Registers, Reaching, BackendLatest
    <3>2. j = i
      BY <1>1, <3>1, ProcessNumbers DEF Registers, Latest, Spawned
    <3>3. QED
      BY <2>1, <3>2
  <2>2. CASE s # i
    <3>1. s \in Tracked /\ pidOf[s] # pidOf[i] /\ s \in Spawned /\ pidOf[s] \in Pid
      BY <1>1, <2>2 DEF Registers, Reaching, OneSessionPerPid, SpawnedFirst
    <3>2. PICK x \in pending : pc[x] = "starting" /\ cur[x] = j
      BY <3>1 DEF Reaching, ReachesOwnUnlessStarting, Reached
    <3>3. pidOf[j] = pidOf[s]
      BY <3>1 DEF Reaching, BackendLatest
    <3>4. x \in Req /\ x # r
      BY <1>2, <3>1, <3>2, <3>3 DEF Typed
    <3>5. QED
      BY <1>2, <3>2, <3>4 DEF OnlyCall
  <2>3. QED
    BY <2>1, <2>2
<1>9. QED
  BY <1>4, <1>5, <1>6, <1>7, <1>8 DEF Reaching

(* The rest is left alone.                                                 *)
LEMMA StartedHolding ==
    ASSUME PidsKept, IInv, NEW r \in Req, NEW i, StartedAs(r, i)
    PROVE  Holding'
<1> USE DEF IInv
<1>1. Registers(i)
  BY StartedRegisters
<1>2. /\ pc[r] = "starting" /\ cur[r] = i /\ OnlyCall(r)
      /\ (pc'[r] = "idle" \/ (pc'[r] = "placing" /\ cur'[r] = i))
      /\ pending' = pending \ {r} /\ UNCHANGED <<os, pidOf, backend, phase, shutdown>>
  BY DEF StartedAs
<1>3. OsAdvances
  BY <1>2, OsSame
<1>4. OlderClosed' /\ PidsNew'
  BY <1>2, <1>3, ProcessesKept
<1>5. BackendKnows'
  BY <1>2 DEF Holding, BackendKnows
<1>6. CallsAbout'
  <2> SUFFICES ASSUME NEW q \in Req PROVE CallAbout(q)'
    BY DEF CallsAbout
  <2>1. CASE q = r
    BY <1>1, <1>2, <2>1 DEF CallAbout, Registers
  <2>2. CASE q # r
    BY <1>2, <1>3, <2>2, CallAboutKept DEF Holding, CallsAbout, OnlyCall
  <2>3. QED
    BY <2>1, <2>2
<1>7. OwnedSpawned' /\ Closes'
  BY <1>1, <1>2 DEF shutdown, Holding, OwnedSpawned, Closes, Registers
<1>8. ~MayLeave => phase = "up"
  BY <1>2, PhaseUp
<1>9. Quiet'
  BY <1>2, <1>8 DEF Quiet
<1>10. QED
  BY <1>4, <1>5, <1>6, <1>7, <1>9 DEF Holding

(* From its start the process passes to its session; the sessions that go  *)
(* had closed.                                                             *)
LEMMA StartedCounting ==
    ASSUME PidsKept, IInv, NEW r \in Req, NEW i, StartedAs(r, i)
    PROVE  Counting'
<1> USE DEF IInv
<1>1. Registers(i)
  BY StartedRegisters
<1>2. pc[r] = "starting" /\ cur[r] = i /\ OnlyCall(r) /\ UNCHANGED <<os, owned>>
  BY DEF StartedAs, shutdown
<1>3. i \in Active'
  BY <1>1 DEF Registers, Active
<1>4. ASSUME NEW j \in Process, os[j] = "running", j \in Active PROVE j \in Active'
  <2>1. j \in Tracked /\ active[j] /\ j # i /\ j \in Spawned
    BY <1>1, <1>4 DEF Active, Registers, Spawned
  <2>2. pidOf[j] # pidOf[i]
    <3> SUFFICES ASSUME pidOf[j] = pidOf[i] PROVE FALSE
      OBVIOUS
    <3>1. j <= i
      BY <1>1, <2>1 DEF Registers, Latest
    <3>2. j < i
      BY <1>1, <2>1, <3>1, ProcessNumbers DEF Registers, Spawned
    <3>3. os[j] = "closed"
      BY <1>1, <2>1, <3>2 DEF Holding, OlderClosed, Registers
    <3>4. QED
      BY <1>4, <3>3
  <2>3. QED
    BY <1>1, <2>1, <2>2 DEF Registers, Active, Spawned
<1>5. ASSUME NEW j \in Process, Holds(r, j) PROVE j = i
  BY <1>2, <1>5 DEF Holds
<1>6. QED
  BY <1>2, <1>3, <1>4, <1>5, CountingKept

(* The reservation is given up for the session; and a list of active       *)
(* sessions only is within maxSessions.                                    *)
LEMMA StartedBounded ==
    ASSUME PidsKept, IInv, NEW r \in Req, NEW i, StartedAs(r, i)
    PROVE  Bounded'
<1> USE DEF IInv
<1> SUFFICES ASSUME ~MaySpoof
             PROVE  /\ KnownActive'
                    /\ Cardinality(Settled') + Cardinality(pending') <= MaxSessions
                    /\ Len(sessions') <= MaxTracked
  BY DEF Bounded
<1>1. Registers(i)
  BY StartedRegisters
<1>2. /\ pc[r] = "starting" /\ cur[r] = i /\ OnlyCall(r) /\ pc'[r] # "starting"
      /\ pending' = pending \ {r} /\ UNCHANGED <<os, pidOf, backend, phase, shutdown>>
  BY DEF StartedAs
<1>3. r \in pending
  BY <1>2 DEF Reaching, StartsPending
<1>4. KnownActive'
  <2> SUFFICES ASSUME NEW s \in Tracked', backend[pidOf[s]] = s, os[s] # "closed" PROVE active'[s]
    BY <1>2 DEF KnownActive
  <2>1. CASE s = i
    BY <1>1, <2>1 DEF Registers
  <2>2. CASE s # i
    BY <1>1, <2>2, TrackedProcesses DEF Registers, Bounded, KnownActive
  <2>3. QED
    BY <2>1, <2>2
<1>5. \A j : Starting(j) /\ j # i => Starting(j)'
  BY <1>2, <1>3 DEF Starting, OnlyCall, Typed
<1>6. Settled' \subseteq Settled \cup {i}
  <2> SUFFICES ASSUME NEW s \in Settled', s # i PROVE s \in Settled
    OBVIOUS
  <2>1. /\ s \in Tracked' /\ active'[s]
        /\ ~\E j \in Spawned : pidOf[j] = pidOf[s] /\ Starting(j)'
    BY <1>1, <1>2 DEF Settled, Active, Registers
  <2>2. s \in Tracked /\ pidOf[s] # pidOf[i] /\ active[s]
    BY <1>1, <2>1, TrackedProcesses DEF Registers
  <2>3. ~\E j \in Spawned : pidOf[j] = pidOf[s] /\ Starting(j)
    BY <1>5, <2>1, <2>2
  <2>4. QED
    BY <2>2, <2>3 DEF Settled, Active
<1>7. /\ IsFiniteSet(Settled) /\ Cardinality(Settled) \in Nat
      /\ IsFiniteSet(pending) /\ Cardinality(pending) \in Nat
      /\ Cardinality(Settled) + Cardinality(pending) <= MaxSessions
  BY FiniteSettled DEF Bounded
<1>8. Cardinality(pending \ {r}) = Cardinality(pending) - 1
  BY <1>3, <1>7, FS_RemoveElement
<1>9. Cardinality(Settled') <= Cardinality(Settled) + 1 /\ Cardinality(Settled') \in Nat
  <2>1. /\ IsFiniteSet(Settled \cup {i}) /\ Cardinality(Settled \cup {i}) <= Cardinality(Settled) + 1
        /\ Cardinality(Settled \cup {i}) \in Nat
    BY <1>7, FS_AddElement
  <2>2. QED
    BY <1>6, <2>1, FS_Subset, FS_CardinalityType
<1>10. Cardinality(Settled') + Cardinality(pending') <= MaxSessions
  BY <1>2, <1>7, <1>8, <1>9 DEF PidsKept, Parameters
<1>11. Len(sessions') <= MaxTracked
  <2> DEFINE Act == {s \in Tracked : active[s] /\ pidOf[s] # pidOf[i]}
             Un == Act \ Settled
  <2> SUFFICES ASSUME Tracked' \subseteq Act \cup {i} PROVE Len(sessions') <= MaxTracked
    BY StartedRegisters
  <2>1. Un \in SUBSET Active /\ Un \cap Settled = {} /\ \A s \in Un : pidOf[s] # pidOf[cur[r]]
    BY <1>2 DEF Active
  <2>2. Act \subseteq Settled \cup Un
    OBVIOUS
  <2> HIDE DEF Act, Un
  <2>3. IsFiniteSet(Un) /\ Cardinality(Un) <= Cardinality(pending) - 1 /\ Cardinality(Un) \in Nat
    BY <1>2, <1>3, <1>8, <2>1, UnsettledBounded, FS_CardinalityType
  <2>4. /\ IsFiniteSet(Settled \cup Un)
        /\ Cardinality(Settled \cup Un) <= Cardinality(Settled) + Cardinality(Un)
        /\ Cardinality(Settled \cup Un) \in Nat
    <3>1. IsFiniteSet(Settled \cap Un)
      <4>1. Settled \cap Un \in SUBSET Settled
        OBVIOUS
      <4>2. QED
        BY <1>7, <4>1, FS_Subset
    <3>2. Cardinality(Settled \cap Un) \in Nat
      BY <3>1, FS_CardinalityType
    <3>3. QED
      <4>1. /\ IsFiniteSet(Settled \cup Un) /\ Cardinality(Settled \cup Un) =
                  Cardinality(Settled) + Cardinality(Un) - Cardinality(Settled \cap Un)
        BY <1>7, <2>3, FS_Union
      <4>2. QED
        BY <1>7, <2>3, <3>2, <4>1, FS_CardinalityType
  <2> DEFINE both == Settled \cup Un
             all == both \cup {i}
  <2> HIDE DEF both
  <2>5. IsFiniteSet(all) /\ Cardinality(all) <= Cardinality(both) + 1 /\ Cardinality(all) \in Nat
    <3>1. IsFiniteSet(both) /\ Cardinality(both) \in Nat
      BY <2>4 DEF both
    <3>2. IsFiniteSet(all) /\ Cardinality(all) =
             IF i \in both THEN Cardinality(both) ELSE Cardinality(both) + 1
      BY <3>1, FS_AddElement
    <3> HIDE DEF all
    <3>3. QED
      BY <3>1, <3>2
  <2>6. Tracked' \in SUBSET all
    BY <2>2 DEF both
  <2> HIDE DEF all
  <2>7. Cardinality(Tracked') <= Cardinality(all)
    BY <2>5, <2>6, FS_Subset
  <2>8. Cardinality(Tracked') = Len(sessions') /\ Len(sessions') \in Nat
    BY <1>1, ListLength DEF Registers
  <2>9. QED
    BY <1>7, <2>3, <2>4, <2>5, <2>7, <2>8 DEF both, PidsKept, Parameters
<1>12. QED
  BY <1>4, <1>10, <1>11

(* A start returns.                                                        *)
LEMMA StartedKeeps ==
    ASSUME PidsKept, IInv, NEW r \in Req, Started(r) PROVE IInv'
  BY StartedForm, StartedReaching, StartedHolding, StartedCounting, StartedBounded DEF IInv

-----------------------------------------------------------------------------
(* The steps of the shutdown and of the operating system.                  *)

(* No call moves.                                                          *)
Outside ==
    /\ UNCHANGED <<pc, cur, entry, pending, pidOf>>
    /\ RegistryShrinks /\ OsAdvances
    /\ backend' \in [Pid -> Process \cup {0}]
    /\ \A p \in Pid : backend'[p] \in {backend[p], 0}

(* Such a step keeps what calls rely on.                                   *)
LEMMA OutsideKeeps ==
    ASSUME Typed, Reaching, Holding, Outside
    PROVE  /\ StartsKept /\ Reaching' /\ OlderClosed' /\ PidsNew' /\ CallsAbout'
           /\ Spawned' = Spawned /\ (ShutdownTyped' => Typed')
<1> USE DEF Outside
<1>1. StartsKept
  BY DEF StartsKept, Reaching, StartsPending
<1>2. Reaching'
  BY <1>1, ReachingKept
<1>3. OlderClosed' /\ PidsNew' /\ Spawned' = Spawned
  BY ProcessesKept, SpawnedSame
<1>4. CallsAbout'
  <2> SUFFICES ASSUME NEW q \in Req PROVE CallAbout(q)'
    BY DEF CallsAbout
  <2>1. CallAbout(q) /\ pc'[q] = pc[q] /\ cur'[q] = cur[q] /\ entry'[q] = entry[q]
    BY DEF Holding, CallsAbout
  <2>2. QED
    BY <2>1, CallAboutKept
<1>5. ShutdownTyped' => Typed'
  BY DEF Typed, CallsTyped, RegistryShrinks, OsAdvances
<1>6. QED
  BY <1>1, <1>2, <1>3, <1>4, <1>5

(* It keeps running processes counted.                                     *)
LEMMA OutsideCounting ==
    ASSUME Counting, UNCHANGED <<pc, cur>>,
           ASSUME ~MayHang, ~MaySpoof, ~MayLeave, NEW i \in Process, os'[i] = "running"
           PROVE  os[i] = "running" /\ (i \in Active => i \in Active'),
           ~MayHang /\ ~MaySpoof /\ ~MayLeave => OwnedDead'
    PROVE  Counting'
<1> SUFFICES ASSUME ~MayHang, ~MaySpoof, ~MayLeave PROVE LiveIsCounted'
  BY DEF Counting
<1>1. ASSUME NEW i \in Process, os'[i] = "running"
      PROVE  i \in Active' \/ \E q \in Req : Holds(q, i)'
  <2>1. os[i] = "running" /\ (i \in Active => i \in Active')
    BY <1>1
  <2>2. i \in Active \/ \E q \in Req : Holds(q, i)
    BY <2>1, CountedByCall DEF Counting
  <2>3. ASSUME NEW q \in Req, Holds(q, i) PROVE Holds(q, i)'
    BY <2>3 DEF Holds
  <2>4. QED
    BY <2>1, <2>2, <2>3
<1>2. QED
  BY <1>1 DEF LiveIsCounted, Holds

(* The operating system, or nothing, moves.                                *)
LEMMA ProcessMoves ==
    ASSUME PidsKept, IInv, OsAdvances,
           UNCHANGED <<pidOf, backend, sessions, active, pending, pc, cur, entry, phase, shutdown>>
    PROVE  IInv'
<1> USE DEF IInv
<1>1. RegistryShrinks /\ ToSet(sessions') = Tracked /\ Active' = Active
  BY SameRegistry DEF Active, Tracked
<1>2. Outside /\ Cleared(backend')
  BY <1>1 DEF Outside, Typed, Cleared
<1>3. Typed' /\ StartsKept /\ Reaching' /\ OlderClosed' /\ PidsNew' /\ CallsAbout'
      /\ Spawned' = Spawned
  <2>1. ShutdownTyped'
    BY DEF Typed, ShutdownTyped, shutdown
  <2>2. QED
    BY <1>2, <2>1, OutsideKeeps
<1>4. BackendKnows'
  BY <1>2, KnowsKept DEF Holding
<1>5. OwnedSpawned' /\ Quiet'
  BY <1>3 DEF Holding, OwnedSpawned, Quiet, shutdown
<1>6. \A i \in Process : (os'[i] = "none" => os[i] = "none") /\ (os'[i] = "running" => os[i] = "running")
         /\ (os'[i] = "exited" => os[i] \in {"running", "exited"})
  BY DEF OsAdvances
<1>7. Closes'
  <2>1. known \subseteq Process /\ UNCHANGED <<known, closing, phase>>
    BY DEF Typed, ShutdownTyped, shutdown
  <2>2. QED
    BY <1>3, <1>6, <2>1 DEF Holding, Closes
<1>8. Counting'
  <2>1. OwnedDead => OwnedDead'
    BY <1>6 DEF Holding, OwnedSpawned, OwnedDead, Spawned, shutdown
  <2>2. QED
    BY <1>1, <1>6, <2>1, OutsideCounting DEF Counting
<1>9. Bounded'
  BY <1>1, <1>2, <1>3, BoundedSame DEF PidsKept, Cleared
<1>10. QED
  BY <1>3, <1>4, <1>5, <1>7, <1>8, <1>9 DEF Holding

(* A process ends.                                                         *)
LEMMA ExitKeeps ==
    ASSUME PidsKept, IInv, NEW i \in Process, Exit(i) \/ Closed(i) PROVE IInv'
<1>1. OsAdvances
  BY DEF IInv, Typed, Exit, Closed, OsAdvances
<1>2. QED
  BY <1>1, ProcessMoves DEF Exit, Closed

(* Nothing happens.                                                        *)
LEMMA StutterKeeps ==
    ASSUME PidsKept, IInv, UNCHANGED vars PROVE IInv'
  BY OsSame, ProcessMoves DEF IInv, vars

(* The copy of the registry that the shutdown makes.                       *)
LEMMA OwnedCopied ==
    ASSUME NEW ss \in Seq(Process), NEW act \in [Process -> BOOLEAN],
           owned' = [n \in DOMAIN ss |-> [id |-> ss[n], live |-> act[ss[n]]]]
    PROVE  /\ owned' \in Seq([id : Process, live : BOOLEAN])
           /\ \A n \in DOMAIN owned' : /\ owned'[n].id \in ToSet(ss)
                                       /\ owned'[n].live = act[owned'[n].id]
<1>1. DOMAIN ss = 1 .. Len(ss) /\ Len(ss) \in Nat /\ \A n \in 1 .. Len(ss) : ss[n] \in Process
  BY LenProperties, ElementOfSeq
<1>2. \A n \in 1 .. Len(ss) : [id |-> ss[n], live |-> act[ss[n]]] \in [id : Process, live : BOOLEAN]
  <2> TAKE n \in 1 .. Len(ss)
  <2>1. act[ss[n]] \in BOOLEAN
    BY <1>1
  <2>2. QED
    BY <1>1, <2>1, Zenon
<1>3. owned' \in Seq([id : Process, live : BOOLEAN])
  BY <1>1, <1>2
<1>4. QED
  BY <1>1, <1>3 DEF ToSet

(* The shutdown begins.                                                    *)
LEMMA ShutdownKeeps ==
    ASSUME PidsKept, IInv, Shutdown PROVE IInv'
<1> USE DEF IInv
<1>1. /\ phase = "up" /\ phase' = "cleanup" /\ (MayLeave \/ \A r \in Req : pc[r] = "idle")
      /\ UNCHANGED <<os, pidOf, pending, pc, cur, entry, closing, known>>
  BY DEF Shutdown
<1>2. PICK b \in Pruned(backend) : backend' = b /\ Reconcile(b)
  BY DEF Shutdown
<1>3. /\ RegistryShrinks /\ Cleared(b)
      /\ \A s \in Tracked : active'[s] = (pidOf[s] \in Listed(b))
  BY <1>2, PrunedForm, ReconcileForm DEF PidsKept
<1>4. Outside
  BY <1>1, <1>2, <1>3, OsSame DEF Outside, Cleared
<1>5. /\ owned' \in Seq([id : Process, live : BOOLEAN])
      /\ \A n \in DOMAIN owned' : /\ owned'[n].id \in ToSet(sessions')
                                  /\ owned'[n].live = active'[owned'[n].id]
  <2>1. sessions' \in Seq(Process) /\ active' \in [Process -> BOOLEAN]
    BY <1>3 DEF RegistryShrinks
  <2>2. owned' = [n \in DOMAIN sessions' |-> [id |-> sessions'[n], live |-> active'[sessions'[n]]]]
    BY DEF Shutdown
  <2>3. QED
    BY <2>1, <2>2, OwnedCopied
<1>6. Typed' /\ StartsKept /\ Reaching' /\ OlderClosed' /\ PidsNew' /\ CallsAbout'
      /\ Spawned' = Spawned
  <2>1. ShutdownTyped'
    BY <1>1, <1>5 DEF Typed, ShutdownTyped
  <2>2. QED
    BY <1>4, <2>1, OutsideKeeps
<1>7. \A n \in DOMAIN owned' : owned'[n].id \in Tracked /\ owned'[n].id \in Spawned
  BY <1>3, <1>5 DEF RegistryShrinks, Reaching, OneSessionPerPid
<1>8. Holding'
  <2>1. BackendKnows'
    BY <1>1, <1>2, <1>3, <1>4, KnowsKept DEF Holding, Outside
  <2>2. OwnedSpawned'
    BY <1>6, <1>7 DEF OwnedSpawned
  <2>3. Closes' /\ Quiet'
    BY <1>1 DEF Closes, Quiet
  <2>4. QED
    BY <1>6, <2>1, <2>2, <2>3 DEF Holding
<1>9. Counting'
  <2>1. OwnedDead'
    <3> SUFFICES ASSUME NEW n \in DOMAIN owned', ~owned'[n].live PROVE os'[owned'[n].id] # "running"
      BY DEF OwnedDead
    <3>1. pidOf[owned'[n].id] \notin Listed(b)
      BY <1>3, <1>5, <1>7
    <3>2. QED
      BY <1>1, <1>3, <1>7, <3>1, AliveListed DEF Holding
  <2>2. ASSUME NEW i \in Process, os'[i] = "running"
        PROVE  os[i] = "running" /\ (i \in Active => i \in Active')
    BY <1>1, <1>2, <1>3, <2>2, AliveStaysActive DEF Active
  <2>3. QED
    BY <1>1, <2>1, <2>2, OutsideCounting
<1>10. Bounded'
  BY <1>1, <1>2, <1>3, <1>4, <1>6, BoundedReconciled DEF PidsKept, Outside
<1>11. QED
  BY <1>6, <1>8, <1>9, <1>10

(* One session is ended and forgotten: if it was active, its process has   *)
(* closed.                                                                 *)
LEMMA CleanupOwnedKeeps ==
    ASSUME PidsKept, IInv, CleanupOwned PROVE IInv'
<1> USE DEF IInv
<1> DEFINE s == owned[1].id
           i == backend[pidOf[s]]
<1>1. /\ phase = "cleanup" /\ owned # <<>> /\ Forget(s) /\ owned' = Tail(owned)
      /\ \/ ~owned[1].live /\ backend' = backend
         \/ /\ owned[1].live
            /\ i # 0 => os[i] = "exited" \/ (os[i] = "running" /\ MayHang)
            /\ backend' = backend
         \/ /\ owned[1].live /\ i # 0 /\ os[i] = "closed"
            /\ backend' = [backend EXCEPT ![pidOf[s]] = 0]
      /\ UNCHANGED <<os, pidOf, active, pending, pc, cur, entry, phase, closing, known>>
  BY DEF CleanupOwned, Reached
<1>2. /\ owned' \in Seq([id : Process, live : BOOLEAN])
      /\ DOMAIN owned = 1 .. Len(owned) /\ 1 \in DOMAIN owned
      /\ \A n \in DOMAIN owned' : n + 1 \in DOMAIN owned /\ owned'[n] = owned[n + 1]
  <2>1. owned \in Seq([id : Process, live : BOOLEAN])
    BY DEF Typed, ShutdownTyped
  <2>2. /\ owned' \in Seq([id : Process, live : BOOLEAN]) /\ Len(owned') = Len(owned) - 1
        /\ \A n \in 1 .. Len(owned') : owned'[n] = owned[n + 1]
    BY <1>1, <2>1, HeadTailProperties
  <2>3. /\ Len(owned) \in Nat \ {0} /\ DOMAIN owned = 1 .. Len(owned)
        /\ DOMAIN owned' = 1 .. Len(owned')
    BY <1>1, <2>1, <2>2, LenProperties, EmptySeq
  <2>4. QED
    BY <2>2, <2>3
<1>3. s \in Spawned /\ s \in Process /\ pidOf[s] \in Pid
  BY <1>2 DEF Holding, OwnedSpawned, Reaching, SpawnedFirst, Spawned
<1>4. RegistryShrinks /\ ToSet(sessions') = Tracked \ {s}
  BY <1>1, ForgetForm
<1>5. Cleared(backend')
  BY <1>1, <1>3 DEF Cleared, Typed
<1>6. Outside
  BY <1>1, <1>4, <1>5, OsSame DEF Outside, Cleared
<1>7. Typed' /\ StartsKept /\ Reaching' /\ OlderClosed' /\ PidsNew' /\ CallsAbout'
      /\ Spawned' = Spawned
  <2>1. ShutdownTyped'
    BY <1>1, <1>2 DEF Typed, ShutdownTyped
  <2>2. QED
    BY <1>6, <2>1, OutsideKeeps
<1>8. Holding'
  <2>1. BackendKnows'
    BY <1>1, <1>5, <1>6, KnowsKept DEF Holding, Outside
  <2>2. OwnedSpawned'
    BY <1>2, <1>7 DEF Holding, OwnedSpawned
  <2>3. Closes' /\ Quiet'
    BY <1>1 DEF Holding, Closes, Quiet
  <2>4. QED
    BY <1>7, <2>1, <2>2, <2>3 DEF Holding
<1>9. Counting'
  <2>1. OwnedDead => OwnedDead'
    BY <1>1, <1>2 DEF OwnedDead
  <2>2. ASSUME ~MayHang, OwnedDead PROVE os[s] # "running"
    <3> SUFFICES ASSUME os[s] = "running" PROVE FALSE
      OBVIOUS
    <3>1. i = s /\ s # 0
      BY <1>1, <1>3, ProcessNumbers DEF Holding, BackendKnows
    <3>2. owned[1].live
      BY <1>2, <2>2 DEF OwnedDead
    <3>3. QED
      BY <1>1, <2>2, <3>1, <3>2
  <2>3. ASSUME ~MayHang, ~MaySpoof, ~MayLeave, NEW j \in Process, os'[j] = "running"
        PROVE  os[j] = "running" /\ (j \in Active => j \in Active')
    BY <1>1, <1>4, <2>2, <2>3 DEF Counting, Active, Tracked
  <2>4. QED
    BY <1>1, <2>1, <2>3, OutsideCounting DEF Counting
<1>10. Bounded'
  BY <1>1, <1>6, <1>7, BoundedSame DEF PidsKept, Outside
<1>11. QED
  BY <1>7, <1>8, <1>9, <1>10

(* The backend is closed, in two steps.                                    *)
LEMMA CloseKeeps ==
    ASSUME PidsKept, IInv, CloseBackend \/ BackendClosed PROVE IInv'
<1> USE DEF IInv
<1>1. UNCHANGED <<os, pidOf, sessions, active, pending, pc, cur, entry, owned>>
      /\ phase # "up" /\ phase # "down"
  BY DEF CloseBackend, BackendClosed, shutdown
<1>2. RegistryShrinks /\ ToSet(sessions') = Tracked /\ Active' = Active
  BY <1>1, SameRegistry DEF Active, Tracked
<1>3. Outside
  BY <1>1, <1>2, OsSame DEF Outside, CloseBackend, BackendClosed, Typed
<1>4. ShutdownTyped'
  <2>1. CASE CloseBackend
    <3>1. \A p \in Listed(backend) : backend[p] \in Process
      BY DEF Typed, Listed
    <3>2. QED
      BY <1>1, <2>1, <3>1 DEF CloseBackend, ShutdownTyped, Typed, Spawned
  <2>2. CASE BackendClosed
    BY <2>2 DEF BackendClosed, ShutdownTyped, Typed, shutdown
  <2>3. QED
    BY <2>1, <2>2
<1>5. Typed' /\ StartsKept /\ Reaching' /\ OlderClosed' /\ PidsNew' /\ CallsAbout'
      /\ Spawned' = Spawned
  BY <1>3, <1>4, OutsideKeeps
<1>6. OwnedSpawned' /\ Quiet'
  BY <1>1, <1>5 DEF Holding, OwnedSpawned, Quiet
<1>7. BackendKnows' /\ Closes'
  <2>1. CASE CloseBackend
    <3>1. /\ phase = "cleanup" /\ phase' = "closing" /\ backend' = backend /\ known' = Spawned
          /\ closing' = {backend[p] : p \in Listed(backend)}
      BY <2>1 DEF CloseBackend
    <3>2. BackendKnows'
      BY <1>1, <3>1 DEF Holding, BackendKnows
    <3>3. ASSUME NEW j \in Spawned, os[j] \in {"none", "running", "exited"} PROVE j \in closing'
      <4>1. os[j] \in {"running", "exited"} /\ Cleared(backend)
        BY <3>3 DEF Spawned, Cleared, Typed
      <4>2. pidOf[j] \in Listed(backend) /\ backend[pidOf[j]] = j
        BY <1>1, <4>1, AliveListed DEF Holding
      <4>3. QED
        BY <3>1, <4>2
    <3>4. Closes'
      BY <1>1, <1>5, <3>1, <3>3 DEF Closes, Spawned
    <3>5. QED
      BY <3>2, <3>4
  <2>2. CASE BackendClosed
    <3>1. /\ phase = "closing" /\ phase' = "down" /\ UNCHANGED <<closing, known>>
          /\ \A j \in closing : os[j] # "running" \/ MayHang
      BY <2>2 DEF BackendClosed, shutdown
    <3>2. QED
      BY <1>1, <1>5, <3>1 DEF Holding, BackendKnows, Closes
  <2>3. QED
    BY <2>1, <2>2
<1>8. Counting'
  BY <1>1, <1>2, OutsideCounting DEF Counting, OwnedDead
<1>9. Bounded'
  BY <1>1, <1>3, <1>5, BoundedSame DEF PidsKept, Outside
<1>10. QED
  BY <1>5, <1>6, <1>7, <1>8, <1>9 DEF Holding

-----------------------------------------------------------------------------
(* The invariant.                                                          *)

LEMMA SessionsInit == ASSUME PidsKept, Init PROVE IInv
<1>1. Spawned = {}
  BY DEF Init, Spawned
<1>2. /\ sessions \in Seq(Process) /\ Len(sessions) = 0 /\ DOMAIN sessions = {}
      /\ owned \in Seq([id : Process, live : BOOLEAN]) /\ DOMAIN owned = {}
  BY EmptySeq, LenProperties DEF Init
<1>3. Tracked = {} /\ Distinct(sessions) /\ Active = {} /\ Settled = {}
  BY <1>2 DEF Tracked, ToSet, Distinct, Active, Settled
<1>4. /\ IsFiniteSet(pending) /\ Cardinality(pending) = 0 /\ Cardinality(Settled) = 0
  BY <1>3, FS_EmptySet DEF Init
<1>5. Typed
  BY <1>2, <1>3, <1>4 DEF Init, Typed, CallsTyped, ShutdownTyped, CallPc
<1>6. Reaching
  BY <1>1, <1>3 DEF Init, Reaching, SpawnedFirst, BackendLatest, OneSessionPerPid,
                    StartsPending, ReachesOwnUnlessStarting
<1>7. Holding
  BY <1>1, <1>2 DEF Init, Holding, OlderClosed, PidsNew, BackendKnows, CallsAbout, CallAbout,
                    OwnedSpawned, Closes, Quiet
<1>8. Counting
  BY <1>1, <1>2 DEF Init, Counting, LiveIsCounted, OwnedDead
<1>9. Bounded
  BY <1>2, <1>3, <1>4 DEF Bounded, KnownActive, PidsKept, Parameters
<1>10. QED
  BY <1>5, <1>6, <1>7, <1>8, <1>9 DEF IInv

(* The steps of Next.                                                     *)
LEMMA SpawnStep ==
    ASSUME PidsKept, IInv, NEW r \in Req, Spawn(r), \A q \in Req : ~Resuming(q)
    PROVE  IInv'
<1>1. Typed
  BY DEF IInv
<1>2. CASE SpawnFails(r)
  BY <1>2, SpawnFailsKeeps
<1>3. CASE \E p \in Pid, i \in Process, b \in Pruned(backend) : SpawnAs(r, p, i, b)
  BY <1>3, SpawnKeeps
<1>4. Spawn(r) => \/ SpawnFails(r)
                  \/ \E p \in Pid, i \in Process, b \in Pruned(backend) : SpawnAs(r, p, i, b)
  BY <1>1, PrunedForm DEF Spawn, SpawnFails, SpawnAs
<1>5. QED
  BY <1>2, <1>3, <1>4

(* A step of a call, which goes first when it is ready.                    *)
LEMMA CallStep ==
    ASSUME PidsKept, IInv, NEW r \in Req, Call(r), Resuming(r) \/ \A q \in Req : ~Resuming(q)
    PROVE  IInv'
<1>1. CASE Spawn(r)
  <2>1. ~Resuming(r)
    BY <1>1 DEF Spawn, Resuming
  <2>2. QED
    BY <1>1, <2>1, SpawnStep
<1>2. CASE \/ Refuse(r) \/ Started(r) \/ Placed(r) \/ Kill(r) \/ Waited(r)
           \/ Terminated(r) \/ Answered(r)
  BY <1>2, RefuseKeeps, StartedKeeps, PlacedKeeps, KillKeeps, WaitedKeeps, TerminatedKeeps,
     AnsweredKeeps
<1>3. QED
  BY <1>1, <1>2 DEF Call

(* Every step keeps the invariant.                                         *)
LEMMA SessionsStep == ASSUME PidsKept, IInv, [Next]_vars PROVE IInv'
<1>1. CASE \E r \in Req : Resuming(r) /\ Call(r)
  BY <1>1, CallStep
<1>2. CASE /\ \A r \in Req : ~Resuming(r)
           /\ \/ \E r \in Req : Reserve(r) \/ Terminate(r) \/ Read(r) \/ Call(r)
              \/ Shutdown \/ CleanupOwned \/ CloseBackend \/ BackendClosed
              \/ \E i \in Process : Exit(i) \/ Closed(i)
  <2>1. CASE \E r \in Req : Reserve(r) \/ Terminate(r) \/ Read(r)
    BY <2>1, ReserveKeeps, TerminateKeeps, ReadKeeps
  <2>2. CASE \E r \in Req : Call(r)
    BY <1>2, <2>2, CallStep
  <2>3. CASE Shutdown \/ CleanupOwned \/ CloseBackend \/ BackendClosed
    BY <2>3, ShutdownKeeps, CleanupOwnedKeeps, CloseKeeps
  <2>4. CASE \E i \in Process : Exit(i) \/ Closed(i)
    BY <2>4, ExitKeeps
  <2>5. QED
    BY <1>2, <2>1, <2>2, <2>3, <2>4
<1>3. CASE UNCHANGED vars
  BY <1>3, StutterKeeps
<1>4. QED
  BY <1>1, <1>2, <1>3 DEF Next

(* The inductive invariant: what the registry (process-session-            *)
(* registry.ts), the tools (process-tools.ts), the backend (native-process-*)
(* backend.ts) and the shutdown (index.ts) keep between them at every step,*)
(* if a pid is not given again before the close event of its process.      *)
THEOREM SessionsInvariance == PidsKept => (Spec => []IInv)
<1> SUFFICES ASSUME PidsKept PROVE Spec => []IInv
  OBVIOUS
<1>1. Init => IInv
  BY SessionsInit
<1>2. IInv /\ [Next]_vars => IInv'
  BY SessionsStep
<1>3. QED
  BY <1>1, <1>2, PTL DEF Spec

(* A session id reaches another process than its own only while the call   *)
(* that starts that process has not returned (resolveProcessSession,       *)
(* registerReserved).                                                      *)
THEOREM SessionsReachOwn == PidsKept => (Spec => []ReachesOwnUnlessStarting)
<1> SUFFICES ASSUME PidsKept PROVE Spec => []ReachesOwnUnlessStarting
  OBVIOUS
<1>1. Spec => []IInv
  BY SessionsInvariance
<1>2. IInv => ReachesOwnUnlessStarting
  BY DEF IInv, Reaching
<1>3. QED
  BY <1>1, <1>2, PTL

(* If the operating system gives no pid twice, a session id reaches only   *)
(* its own process, also while others are being started.                   *)
THEOREM SessionsReachOnlyOwn ==
    Parameters /\ Reuse = "never" => (Spec => []SessionReachesItsOwn)
<1> SUFFICES ASSUME Parameters, Reuse = "never" PROVE Spec => []SessionReachesItsOwn
  OBVIOUS
<1>1. Spec => []IInv
  BY SessionsInvariance DEF PidsKept
<1>2. IInv => SessionReachesItsOwn
  <2> SUFFICES ASSUME IInv, NEW s \in Tracked, Reached(s) # 0 PROVE Reached(s) = s
    BY DEF SessionReachesItsOwn
  <2>1. s \in Spawned /\ pidOf[s] \in Pid
    BY DEF IInv, Reaching, OneSessionPerPid, SpawnedFirst
  <2>2. Reached(s) \in Spawned /\ pidOf[Reached(s)] = pidOf[s]
    BY <2>1 DEF IInv, Reaching, BackendLatest, Reached
  <2>3. QED
    BY <2>1, <2>2 DEF IInv, Holding, PidsNew
<1>3. QED
  BY <1>1, <1>2, PTL

(* The list of sessions has the length of its set, which fits.             *)
LEMMA SessionsTyped == ASSUME PidsKept, ~MaySpoof, IInv PROVE TypeOK
<1>1. Len(sessions) = Cardinality(Tracked)
  BY ListLength DEF IInv, Typed, Tracked
<1>2. Tracked \subseteq Spawned /\ Len(sessions) <= MaxTracked
  BY DEF IInv, Reaching, OneSessionPerPid, Bounded
<1>3. QED
  BY <1>1, <1>2 DEF IInv, Typed, CallsTyped, ShutdownTyped, TypeOK

(* The variables keep their types, each session of the registry has been   *)
(* spawned and is listed once, and pruneInactiveHistory keeps the list     *)
(* within maxTrackedSessions, if no output is taken for the report of a    *)
(* completed process.                                                      *)
THEOREM SessionsTypes == PidsKept /\ ~MaySpoof => (Spec => []TypeOK)
<1> SUFFICES ASSUME PidsKept, ~MaySpoof PROVE Spec => []TypeOK
  OBVIOUS
<1>1. Spec => []IInv
  BY SessionsInvariance
<1>2. IInv => TypeOK
  BY SessionsTyped
<1>3. QED
  BY <1>1, <1>2, PTL

(* A running process is counted by an active session, by its start, or by  *)
(* the call that kills it after a failed placement: no reconciliation, read*)
(* or termination loses it (reconcileActivePids, markInactive, forget), if *)
(* kills take effect, no output is taken for such a report and no client   *)
(* goes away.                                                              *)
THEOREM SessionsCounted ==
    PidsKept /\ ~MayHang /\ ~MaySpoof /\ ~MayLeave => (Spec => []LiveIsCounted)
<1> SUFFICES ASSUME PidsKept, ~MayHang, ~MaySpoof, ~MayLeave PROVE Spec => []LiveIsCounted
  OBVIOUS
<1>1. Spec => []IInv
  BY SessionsInvariance
<1>2. IInv => LiveIsCounted
  BY DEF IInv, Counting
<1>3. QED
  BY <1>1, <1>2, PTL

(* Without reused pids every active session is settled.                    *)
LEMMA SessionsBounded ==
    ASSUME Parameters, Reuse = "never", ~MaySpoof, IInv PROVE Ceiling
<1>1. \A s \in Active, i \in Spawned : pidOf[i] = pidOf[s] => ~Starting(i)
  BY DEF IInv, Typed, Reaching, OneSessionPerPid, StartsPending, Holding, PidsNew, Starting, Active
<1>2. Settled = Active
  BY <1>1 DEF Settled
<1>3. Cardinality(Active) + Cardinality(pending) <= MaxSessions
  BY <1>2 DEF IInv, Bounded
<1>4. QED
  BY <1>3 DEF Ceiling, Load

(* Active sessions and starts in flight are never more than maxSessions    *)
(* (reserveStart, registerReserved), whatever is reconciled between a      *)
(* reservation and its registration, if no pid is given twice and no output*)
(* is taken for the report of a completed process.                         *)
THEOREM SessionsCeiling == Parameters /\ Reuse = "never" /\ ~MaySpoof => (Spec => []Ceiling)
<1> SUFFICES ASSUME Parameters, Reuse = "never", ~MaySpoof PROVE Spec => []Ceiling
  OBVIOUS
<1>1. Spec => []IInv
  BY SessionsInvariance DEF PidsKept
<1>2. IInv => Ceiling
  BY SessionsBounded
<1>3. QED
  BY <1>1, <1>2, PTL

(* What runs after the shutdown was unknown to it, and a client left.      *)
LEMMA SessionsEnded == ASSUME PidsKept, ~MayHang, IInv PROVE ShutdownKillsAll
<1> SUFFICES ASSUME phase = "down", NEW i \in Process, os[i] = "running"
             PROVE  MayLeave /\ i \notin known
  BY DEF ShutdownKillsAll
<1>1. i \notin known /\ i \in Spawned
  BY DEF IInv, Holding, Closes, Spawned
<1>2. MayLeave
  BY <1>1 DEF IInv, Holding, Closes
<1>3. QED
  BY <1>1, <1>2

(* The shutdown of index.ts leaves no process running that was spawned     *)
(* before the backend was closed, and none at all if no client goes away   *)
(* during its call, if kills take effect.                                  *)
THEOREM SessionsShutdown == PidsKept /\ ~MayHang => (Spec => []ShutdownKillsAll)
<1> SUFFICES ASSUME PidsKept, ~MayHang PROVE Spec => []ShutdownKillsAll
  OBVIOUS
<1>1. Spec => []IInv
  BY SessionsInvariance
<1>2. IInv => ShutdownKillsAll
  BY SessionsEnded
<1>3. QED
  BY <1>1, <1>2, PTL

CallRecord == [pc : {"idle", "preflight", "starting", "calling", "failing"},
               on : G!Connections \cup {0}]

(* TypeOK in two parts: what the bridge to the backend keeps, and the rest.*)
BridgeTypes ==
    /\ available \in BOOLEAN
    /\ client \in G!Connections \cup {0}
    /\ starting \in G!Connections \cup {0}
    /\ stage \in [G!Connections -> {"none", "access", "connecting", "closing", "done"}]
    /\ child \in [G!Connections -> {"none", "running", "ended"}]
    /\ call \in [G!Callers -> CallRecord]
    /\ \A k \in G!Connections : stage[k] \in {"access", "connecting", "closing"} => starting = k

ProgramTypes ==
    /\ thread \in [G!Threads -> G!Pc]
    /\ server \in {"none", "listening", "closing", "closed"}
    /\ given \in BOOLEAN /\ closed \in BOOLEAN
    /\ startupLock \in G!Threads \cup {None}
    /\ peer \in [Peers -> {"away", "connected", "asked", "gone"}]
    /\ http \in {"none", "listening", "closing", "closed"}
    /\ left \subseteq Calls
    /\ faults \in 0 .. MaxFaults

(* A connection is started only while none is installed, so the one that   *)
(* is installed at its end replaces none.                                  *)
StartsAlone == starting # 0 => client = 0

(* A thread that closes things has a call of the backend only where it     *)
(* waits for it, so its close of the bridge forgets no other failure.      *)
ThreadsWait ==
    \A t \in G!Threads : call[t] # G!Idle => thread[t] \in {"ownedWait", "bridgeWait"}

Bridge == BridgeTypes /\ StartsAlone /\ G!BackendAccounted
GatewayInv == ProgramTypes /\ Bridge /\ ThreadsWait

LEMMA TypeParts == G!TypeOK <=> BridgeTypes /\ ProgramTypes
  BY DEF G!TypeOK, BridgeTypes, ProgramTypes, CallRecord

(* A call has thrown on k and closes it.                                   *)
Failing(k) == \E c \in G!Callers : call[c] = [pc |-> "failing", on |-> k]

-----------------------------------------------------------------------------
(* The steps of the bridge.                                                *)

(* What a step may do to backends that run and leave none of them lost.    *)
LEMMA AccountedKept ==
    ASSUME G!BackendAccounted,
           \A k \in G!Connections : child'[k] = "running" =>
              /\ child[k] = "running"
              /\ client = k => client' = k \/ Failing(k)'
              /\ stage[k] \in {"connecting", "closing"} =>
                    stage'[k] \in {"connecting", "closing"}
              /\ Failing(k) => Failing(k)'
    PROVE  G!BackendAccounted'
  BY DEF G!BackendAccounted, Failing

(* One call's record changes; the others keep theirs.                      *)
LEMMA CallBecomes ==
    ASSUME BridgeTypes, NEW c \in G!Callers, NEW new \in CallRecord,
           call' = [call EXCEPT ![c] = new]
    PROVE  /\ call' \in [G!Callers -> CallRecord] /\ call'[c] = new
           /\ \A d \in G!Callers \ {c} : call'[d] = call[d]
  BY DEF BridgeTypes

(* A call begins its use of the backend, or was waiting for the preflight. *)
LEMMA StartKeeps ==
    ASSUME Bridge, NEW c \in G!Callers, call[c].pc \in {"idle", "preflight"}, G!Start(c),
           available' \in BOOLEAN, UNCHANGED <<client, child>>
    PROVE  Bridge'
<1> USE DEF Bridge
<1>0. /\ 0 \notin G!Connections /\ client \in G!Connections \cup {0}
      /\ starting \in G!Connections \cup {0}
  BY DEF BridgeTypes, G!Connections
<1>1. PICK new \in CallRecord : /\ call' = [call EXCEPT ![c] = new]
                                /\ new.pc # "failing"
  BY <1>0 DEF G!Start, G!Call, CallRecord, G!Idle
<1>2. /\ call' \in [G!Callers -> CallRecord] /\ call'[c].pc # "failing"
      /\ \A d \in G!Callers \ {c} : call'[d] = call[d]
  BY <1>1, CallBecomes
<1>3. \A k \in G!Connections, d \in G!Callers :
         call[d] = [pc |-> "failing", on |-> k] => call'[d] = call[d]
  BY <1>2
<1>4. CASE UNCHANGED <<starting, stage>>
  BY <1>2, <1>3, <1>4 DEF BridgeTypes, StartsAlone, G!BackendAccounted
<1>5. CASE /\ client = 0 /\ starting = 0
           /\ \E k \in G!Connections :
                 /\ stage[k] = "none" /\ starting' = k
                 /\ stage' = [stage EXCEPT ![k] = "access"]
  <2>1. PICK k \in G!Connections : /\ stage[k] = "none" /\ starting' = k
                                   /\ stage' = [stage EXCEPT ![k] = "access"]
    BY <1>5
  <2>2. \A j \in G!Connections : stage[j] \notin {"access", "connecting", "closing"}
    BY <1>0, <1>5 DEF BridgeTypes
  <2>3. BridgeTypes'
    BY <1>2, <2>1, <2>2 DEF BridgeTypes
  <2>4. StartsAlone'
    BY <1>5 DEF StartsAlone
  <2>5. G!BackendAccounted'
    <3>1. \A j \in G!Connections : Failing(j) => Failing(j)'
      BY <1>3 DEF Failing
    <3>2. \A j \in G!Connections : stage[j] \in {"connecting", "closing"} => stage'[j] = stage[j]
      BY <2>1, <2>2
    <3>3. QED
      BY <3>1, <3>2, AccountedKept
  <2>6. QED
    BY <2>3, <2>4, <2>5
<1>6. QED
  BY <1>4, <1>5 DEF G!Start

(* A call's record changes, and nothing else of the bridge.                *)
LEMMA RecordKeeps ==
    ASSUME Bridge, NEW c \in G!Callers, NEW new \in CallRecord,
           call' = [call EXCEPT ![c] = new], call[c].pc # "failing",
           available' \in BOOLEAN, UNCHANGED <<client, starting, stage, child>>
    PROVE  Bridge'
<1> USE DEF Bridge
<1>1. /\ call' \in [G!Callers -> CallRecord]
      /\ \A d \in G!Callers \ {c} : call'[d] = call[d]
  BY CallBecomes
<1>2. QED
  BY <1>1 DEF BridgeTypes, StartsAlone, G!BackendAccounted

LEMMA BeginsKeeps ==
    ASSUME Bridge, NEW c \in G!Callers, G!Begins(c) PROVE Bridge'
<1> USE DEF Bridge
<1>1. call[c].pc = "idle" /\ UNCHANGED <<available, client, child>>
  BY DEF G!Begins, G!Idle
<1>2. CASE available
  BY <1>1, <1>2, StartKeeps DEF G!Begins, BridgeTypes
<1>3. CASE ~available
  <2>1. /\ call' = [call EXCEPT ![c] = [pc |-> "preflight", on |-> 0]]
        /\ [pc |-> "preflight", on |-> 0] \in CallRecord
        /\ UNCHANGED <<starting, stage>>
    BY <1>3 DEF G!Begins, G!Call, CallRecord
  <2>2. QED
    BY <1>1, <2>1, RecordKeeps DEF BridgeTypes
<1>4. QED
  BY <1>2, <1>3

(* When a start is over no other is under way, and who failed still has.   *)
LEMMA SettleForm ==
    ASSUME BridgeTypes, NEW k \in G!Connections, NEW installed \in BOOLEAN,
           stage[k] \in {"access", "connecting", "closing"}, G!Settle(k, installed)
    PROVE  /\ starting' = 0
           /\ stage' \in [G!Connections -> {"none", "access", "connecting", "closing", "done"}]
           /\ \A j \in G!Connections :
                 /\ stage'[j] \notin {"access", "connecting", "closing"}
                 /\ j # k => stage[j] \notin {"connecting", "closing"}
           /\ call' \in [G!Callers -> CallRecord]
           /\ \A d \in G!Callers : call[d].pc = "failing" => call'[d] = call[d]
           /\ \A d \in G!Callers : call[d] = G!Idle => call'[d] = G!Idle
<1>1. starting' = 0 /\ stage' = [stage EXCEPT ![k] = "done"]
  BY DEF G!Settle
<1>2. starting = k
  BY DEF BridgeTypes
<1>3. /\ stage' \in [G!Connections -> {"none", "access", "connecting", "closing", "done"}]
      /\ \A j \in G!Connections :
            /\ stage'[j] \notin {"access", "connecting", "closing"}
            /\ j # k => stage[j] \notin {"connecting", "closing"}
  BY <1>1, <1>2 DEF BridgeTypes
<1> DEFINE waits == [pc |-> "starting", on |-> k]
           after(d) == IF call[d] # waits THEN call[d]
                       ELSE IF installed THEN [pc |-> "calling", on |-> k] ELSE G!Idle
<1>4. call' = [d \in G!Callers |-> after(d)]
  BY DEF G!Settle
<1>5. \A d \in G!Callers : after(d) \in CallRecord
  BY DEF BridgeTypes, CallRecord, G!Idle
<1>6. waits.pc = "starting" /\ G!Idle.pc = "idle"
  BY DEF G!Idle
<1>7. \A d \in G!Callers : call[d].pc = "failing" \/ call[d] = G!Idle => after(d) = call[d]
  BY <1>6
<1> HIDE DEF after
<1>8. QED
  BY <1>1, <1>3, <1>4, <1>5, <1>7

LEMMA StartsBackendKeeps ==
    ASSUME Bridge, NEW k \in G!Connections, G!StartsBackend(k) PROVE Bridge'
<1> USE DEF Bridge
<1>0. 0 \notin G!Connections
  BY DEF G!Connections
<1>a. /\ available' = available
      /\ stage[k] \in {"access", "connecting", "closing"}
  BY DEF G!StartsBackend, G!Access, G!Connected, G!Abandoned
<1>1. stage[k] \in {"access", "connecting", "closing"} /\ starting = k /\ client = 0
  BY <1>0, <1>a DEF BridgeTypes, StartsAlone
<1>2. ASSUME UNCHANGED <<starting, call, client>>,
             \/ stage' = [stage EXCEPT ![k] = "connecting"]
                /\ child' = [child EXCEPT ![k] = "running"]
             \/ stage' = [stage EXCEPT ![k] = "closing"] /\ child' = child
      PROVE  Bridge'
  <2>1. BridgeTypes' /\ StartsAlone'
    BY <1>0, <1>a, <1>1, <1>2 DEF BridgeTypes, StartsAlone
  <2>2. G!BackendAccounted'
    BY <1>1, <1>2 DEF G!BackendAccounted, BridgeTypes
  <2>3. QED
    BY <2>1, <2>2
<1>3. ASSUME NEW installed \in BOOLEAN, G!Settle(k, installed),
             IF installed THEN client' = k /\ child' = child
             ELSE /\ client' = 0
                  /\ \/ stage[k] = "access" /\ child' = child
                     \/ child' = [child EXCEPT ![k] = "ended"]
      PROVE  Bridge'
  <2>1. /\ starting' = 0
        /\ stage' \in [G!Connections -> {"none", "access", "connecting", "closing", "done"}]
        /\ \A j \in G!Connections :
              /\ stage'[j] \notin {"access", "connecting", "closing"}
              /\ j # k => stage[j] \notin {"connecting", "closing"}
        /\ call' \in [G!Callers -> CallRecord]
        /\ \A d \in G!Callers : call[d].pc = "failing" => call'[d] = call[d]
    BY <1>1, <1>3, SettleForm
  <2>2. client' \in G!Connections \cup {0}
    BY <1>3
  <2>3. /\ child' \in [G!Connections -> {"none", "running", "ended"}]
        /\ \A j \in G!Connections \ {k} : child'[j] = child[j]
        /\ \/ child'[k] # "running"
           \/ client' = k
           \/ stage[k] = "access" /\ child'[k] = child[k]
    BY <1>3 DEF BridgeTypes
  <2>4. BridgeTypes' /\ StartsAlone'
    BY <1>0, <1>a, <2>1, <2>2, <2>3 DEF BridgeTypes, StartsAlone
  <2>5. ASSUME NEW j \in G!Connections, child'[j] = "running", client' # j
        PROVE  \E c \in G!Callers : call'[c] = [pc |-> "failing", on |-> j]
    <3>1. child[j] = "running" /\ client # j /\ stage[j] \notin {"connecting", "closing"}
      BY <1>0, <1>1, <2>1, <2>3, <2>5
    <3>2. PICK c \in G!Callers : call[c] = [pc |-> "failing", on |-> j]
      BY <3>1 DEF G!BackendAccounted
    <3>3. QED
      BY <2>1, <3>2
  <2>6. QED
    BY <2>4, <2>5 DEF G!BackendAccounted
<1>4. CASE G!Access(k)
  <2>1. \/ /\ stage' = [stage EXCEPT ![k] = "connecting"]
           /\ child' = [child EXCEPT ![k] = "running"]
           /\ UNCHANGED <<starting, call, client>>
        \/ stage[k] = "access" /\ G!Settle(k, FALSE) /\ UNCHANGED <<child, client>>
    BY <1>4 DEF G!Access
  <2>2. QED
    BY <1>1, <1>2, <1>3, <2>1
<1>5. CASE G!Connected(k)
  <2>1. \/ client' = k /\ G!Settle(k, TRUE) /\ child' = child
        \/ /\ stage' = [stage EXCEPT ![k] = "closing"] /\ child' = child
           /\ UNCHANGED <<client, starting, call>>
    BY <1>5 DEF G!Connected
  <2>2. QED
    BY <1>2, <1>3, <2>1
<1>6. CASE G!Abandoned(k)
  <2>1. G!Settle(k, FALSE) /\ child' = [child EXCEPT ![k] = "ended"] /\ client' = 0
    BY <1>1, <1>6 DEF G!Abandoned, G!Invalidated
  <2>2. QED
    BY <1>3, <2>1
<1>7. QED
  BY <1>4, <1>5, <1>6 DEF G!StartsBackend

(* A call returns, throws or closes what it threw on.                      *)
LEMMA CallStepKeeps ==
    ASSUME Bridge, NEW c \in G!Callers, G!CallStep(c) PROVE Bridge'
<1> USE DEF Bridge
<1>0. G!Idle \in CallRecord /\ G!Idle.pc = "idle" /\ 0 \notin G!Connections
  BY DEF G!Idle, CallRecord, G!Connections
<1>1. CASE G!Preflighted(c)
  <2>1. /\ call[c].pc = "preflight" /\ UNCHANGED <<client, child>> /\ available' \in BOOLEAN
        /\ \/ G!Start(c)
           \/ call' = [call EXCEPT ![c] = G!Idle] /\ UNCHANGED <<starting, stage>>
    BY <1>1 DEF G!Preflighted, BridgeTypes
  <2>2. CASE G!Start(c)
    BY <2>1, <2>2, StartKeeps
  <2>3. CASE call' = [call EXCEPT ![c] = G!Idle] /\ UNCHANGED <<starting, stage>>
    BY <1>0, <2>1, <2>3, RecordKeeps
  <2>4. QED
    BY <2>1, <2>2, <2>3
<1>2. CASE G!Answered(c)
  <2>1. call[c].pc = "calling" /\ call' = [call EXCEPT ![c] = G!Idle] /\ UNCHANGED G!bridge
    BY <1>2 DEF G!Answered
  <2>2. QED
    BY <1>0, <2>1, RecordKeeps DEF G!bridge, BridgeTypes
<1>3. CASE G!Throws(c)
  <2> DEFINE k == call[c].on
             new == [pc |-> "failing", on |-> k]
  <2>1. /\ call[c].pc = "calling" /\ client' = G!Invalidated(k)
        /\ call' = [call EXCEPT ![c] = new]
        /\ UNCHANGED <<available, starting, stage, child>>
    BY <1>3 DEF G!Throws, G!Call
  <2>2. new \in CallRecord
    BY DEF BridgeTypes, CallRecord
  <2>3. /\ call' \in [G!Callers -> CallRecord] /\ call'[c] = new
        /\ \A d \in G!Callers \ {c} : call'[d] = call[d]
    BY <2>1, <2>2, CallBecomes
  <2>4. client' \in {client, 0} /\ (client' # client => client = k)
    BY <2>1 DEF G!Invalidated
  <2>5. BridgeTypes' /\ StartsAlone'
    BY <2>1, <2>3, <2>4 DEF BridgeTypes, StartsAlone
  <2>6. \A j \in G!Connections : Failing(j) => Failing(j)'
    <3>1. \A d \in G!Callers, j \in G!Connections :
             call[d] = [pc |-> "failing", on |-> j] => call'[d] = call[d]
      BY <2>1, <2>3
    <3>2. QED
      BY <3>1 DEF Failing
  <2>7. \A j \in G!Connections : client = j => client' = j \/ Failing(j)'
    <3>1. call'[c] = [pc |-> "failing", on |-> k]
      BY <2>3
    <3>2. QED
      BY <2>4, <3>1 DEF Failing
  <2>8. G!BackendAccounted'
    BY <2>1, <2>6, <2>7, AccountedKept
  <2>9. QED
    BY <2>5, <2>8
<1>4. CASE G!ClientCloses(c)
  <2> DEFINE k == call[c].on
  <2>1. /\ call[c].pc = "failing" /\ client' = G!Invalidated(k)
        /\ call' = [call EXCEPT ![c] = G!Idle] /\ child' = [child EXCEPT ![k] = "ended"]
        /\ UNCHANGED <<available, starting, stage>>
    BY <1>4 DEF G!ClientCloses
  <2>2. /\ call' \in [G!Callers -> CallRecord] /\ call'[c] = G!Idle
        /\ \A d \in G!Callers \ {c} : call'[d] = call[d]
    BY <1>0, <2>1, CallBecomes
  <2>3. client' \in {client, 0} /\ (client' # client => client = k)
    BY <2>1 DEF G!Invalidated
  <2>4. /\ child' \in [G!Connections -> {"none", "running", "ended"}]
        /\ \A j \in G!Connections : child'[j] = "running" => j # k /\ child[j] = "running"
    BY <2>1 DEF BridgeTypes
  <2>5. BridgeTypes' /\ StartsAlone'
    BY <2>1, <2>2, <2>3, <2>4 DEF BridgeTypes, StartsAlone
  <2>6. \A j \in G!Connections \ {k} : Failing(j) => Failing(j)'
    <3>1. \A d \in G!Callers, j \in G!Connections \ {k} :
             call[d] = [pc |-> "failing", on |-> j] => call'[d] = call[d]
      BY <2>2
    <3>2. QED
      BY <3>1 DEF Failing
  <2> HIDE DEF k
  <2>7. G!BackendAccounted'
    BY <2>1, <2>3, <2>4, <2>6, AccountedKept
  <2>8. QED
    BY <2>5, <2>7
<1>5. QED
  BY <1>1, <1>2, <1>3, <1>4 DEF G!CallStep

(* A backend ends, by itself or with the program.                          *)
LEMMA ChildrenEnd ==
    ASSUME Bridge, UNCHANGED <<available, starting, stage, call>>,
           child' \in [G!Connections -> {"none", "running", "ended"}],
           client' \in {client, 0}, client # 0 => client' = client \/ child'[client] # "running",
           \A k \in G!Connections : child'[k] = "running" => child[k] = "running"
    PROVE  Bridge'
  BY DEF Bridge, BridgeTypes, StartsAlone, G!BackendAccounted

(* A close of the bridge drops what is installed and closes it.            *)
LEMMA CloseBridgeKeeps ==
    ASSUME Bridge, NEW t \in G!Threads, call[t] = G!Idle, G!CloseBridge(t) PROVE Bridge'
<1> USE DEF Bridge
<1>1. /\ client' = 0 /\ 0 \notin G!Connections /\ client \in G!Connections \cup {0} /\ t \in G!Callers
      /\ UNCHANGED <<available, starting, stage, child>>
  BY DEF G!CloseBridge, G!Connections, BridgeTypes, G!Callers
<1>2. CASE client = 0
  <2>1. call' = call
    BY <1>2 DEF G!CloseBridge
  <2>2. QED
    BY <1>1, <1>2, <2>1 DEF BridgeTypes, StartsAlone, G!BackendAccounted
<1>3. CASE client # 0
  <2> DEFINE new == [pc |-> "failing", on |-> client]
  <2>1. call' = [call EXCEPT ![t] = new] /\ new \in CallRecord
    BY <1>1, <1>3 DEF G!CloseBridge, CallRecord
  <2>2. /\ call' \in [G!Callers -> CallRecord] /\ call'[t] = new
        /\ \A d \in G!Callers \ {t} : call'[d] = call[d]
    BY <1>1, <2>1, CallBecomes
  <2>3. BridgeTypes' /\ StartsAlone'
    BY <1>1, <2>2 DEF BridgeTypes, StartsAlone
  <2>4. \A d \in G!Callers, j \in G!Connections :
           call[d] = [pc |-> "failing", on |-> j] => call'[d] = call[d]
    BY <2>2 DEF G!Idle
  <2>5. \A j \in G!Connections : Failing(j) => Failing(j)'
    BY <2>4 DEF Failing
  <2>6. \A j \in G!Connections : client = j => Failing(j)'
    BY <1>1, <2>2 DEF Failing
  <2>7. G!BackendAccounted'
    BY <1>1, <2>5, <2>6, AccountedKept
  <2>8. QED
    BY <2>3, <2>7
<1>4. QED
  BY <1>2, <1>3

-----------------------------------------------------------------------------
(* The types of the program, and what its threads wait for.                *)

LEMMA InitInvariant == ASSUME G!GatewayAssumption, G!Init PROVE GatewayInv
<1>1. BridgeTypes
  BY DEF G!Init, BridgeTypes, CallRecord, G!Idle, G!Connections
<1>2. ProgramTypes
  <2>1. /\ thread \in [G!Threads -> G!Pc] /\ peer \in [Peers -> {"away", "connected", "asked", "gone"}]
        /\ faults \in 0 .. MaxFaults
    BY DEF G!Init, G!Pc, G!Threads, G!GatewayAssumption
  <2>2. QED
    BY <2>1 DEF G!Init, ProgramTypes
<1>3. StartsAlone /\ G!BackendAccounted /\ ThreadsWait
  BY DEF G!Init, StartsAlone, G!BackendAccounted, ThreadsWait, G!Callers
<1>4. QED
  BY <1>1, <1>2, <1>3 DEF GatewayInv, Bridge

(* A step of a thread, which a failing system call may have diverted.      *)
LEMMA GotoTypes ==
    ASSUME ProgramTypes, NEW t \in G!Threads, NEW l \in G!Pc, G!Goto(t, l)
    PROVE  /\ thread' \in [G!Threads -> G!Pc] /\ thread'[t] = l
           /\ \A u \in G!Threads \ {t} : thread'[u] = thread[u]
  BY DEF G!Goto, ProgramTypes

LEMMA FaultTypes ==
    ASSUME G!GatewayAssumption, ProgramTypes, G!Fault \/ G!NoFault \/ UNCHANGED faults
    PROVE  faults' \in 0 .. MaxFaults
  BY DEF G!Fault, G!NoFault, ProgramTypes, G!GatewayAssumption

LEMMA StartStepTypes ==
    ASSUME G!GatewayAssumption, ProgramTypes, G!StartStep
    PROVE  ProgramTypes' /\ thread["main"] \notin {"ownedWait", "bridgeWait"} /\ thread'["stop"] = thread["stop"]
<1>1. PICK l \in G!Pc : G!Goto("main", l)
  BY DEF G!StartStep, G!ListenHttp, G!TakeStartupLock, G!Probe, G!Listen, G!Chmod, G!Unbind,
         G!ReleaseStartupLock, G!Preflight, G!Or, G!Pc
<1>2. G!Fault \/ G!NoFault \/ UNCHANGED faults
  BY DEF G!StartStep, G!ListenHttp, G!TakeStartupLock, G!Probe, G!Listen, G!Chmod, G!Unbind,
         G!ReleaseStartupLock, G!Preflight, G!Or
<1>3. /\ thread' \in [G!Threads -> G!Pc] /\ thread'["stop"] = thread["stop"] /\ faults' \in 0 .. MaxFaults
  BY <1>1, <1>2, GotoTypes, FaultTypes DEF G!Threads
<1>4. /\ server' \in {"none", "listening", "closing", "closed"}
      /\ http' \in {"none", "listening", "closing", "closed"}
      /\ startupLock' \in G!Threads \cup {None}
  BY DEF G!StartStep, G!ListenHttp, G!TakeStartupLock, G!Probe, G!Listen, G!Chmod, G!Unbind,
         G!ReleaseStartupLock, G!Preflight, ProgramTypes, G!control, G!Threads
<1>5. given' \in BOOLEAN
  BY DEF G!StartStep, G!ListenHttp, G!TakeStartupLock, G!Probe, G!Listen, G!Chmod, G!Unbind,
         G!ReleaseStartupLock, G!Preflight, ProgramTypes, G!control, G!GatewayAssumption
<1>6. UNCHANGED <<closed, peer, left>>
  BY DEF G!StartStep, G!ListenHttp, G!TakeStartupLock, G!Probe, G!Listen, G!Chmod, G!Unbind,
         G!ReleaseStartupLock, G!Preflight, G!control
<1>7. thread["main"] \notin {"ownedWait", "bridgeWait"}
  BY DEF G!StartStep, G!ListenHttp, G!TakeStartupLock, G!Probe, G!Listen, G!Chmod, G!Unbind,
         G!ReleaseStartupLock, G!Preflight
<1>8. QED
  BY <1>3, <1>4, <1>5, <1>6, <1>7 DEF ProgramTypes

LEMMA EndStepTypes ==
    ASSUME G!GatewayAssumption, ProgramTypes, NEW t \in G!Threads, G!EndStep(t)
    PROVE  ProgramTypes' /\ \A u \in G!Threads \ {t} : thread'[u] = thread[u]
<1>1. PICK l \in G!Pc : G!Goto(t, l)
  BY DEF G!EndStep, G!CloseControl, G!CloseLock, G!Close, G!StopHttp, G!Drain, G!Owned, G!OwnedEnds,
         G!CloseBridge, G!End, G!Pc
<1>2. G!Fault \/ G!NoFault \/ UNCHANGED faults
  BY DEF G!EndStep, G!CloseControl, G!CloseLock, G!Close, G!StopHttp, G!Drain, G!Owned, G!OwnedEnds,
         G!CloseBridge, G!End
<1>3. /\ thread' \in [G!Threads -> G!Pc] /\ faults' \in 0 .. MaxFaults
      /\ \A u \in G!Threads \ {t} : thread'[u] = thread[u]
  BY <1>1, <1>2, GotoTypes, FaultTypes
<1>4. /\ server' \in {"none", "listening", "closing", "closed"}
      /\ http' \in {"none", "listening", "closing", "closed"}
      /\ startupLock' \in G!Threads \cup {None}
      /\ closed' \in BOOLEAN
  BY DEF G!EndStep, G!CloseControl, G!CloseLock, G!Close, G!StopHttp, G!Drain, G!Owned, G!OwnedEnds,
         G!CloseBridge, G!End, ProgramTypes, G!control
<1>5. UNCHANGED <<given, peer, left>>
  BY DEF G!EndStep, G!CloseControl, G!CloseLock, G!Close, G!StopHttp, G!Drain, G!Owned, G!OwnedEnds,
         G!CloseBridge, G!End, G!control
<1>6. QED
  BY <1>3, <1>4, <1>5 DEF ProgramTypes

LEMMA OutsideTypes ==
    ASSUME G!GatewayAssumption, ProgramTypes,
           \/ G!Signal
           \/ \E c \in Calls : G!Begin(c) \/ G!Leave(c)
           \/ \E k \in G!Connections : G!ChildEnds(k) \/ G!StartsBackend(k)
           \/ \E p \in Peers : G!Connect(p) \/ G!Ask(p) \/ G!Disconnect(p)
           \/ \E c \in G!Callers : G!CallStep(c)
    PROVE  /\ ProgramTypes'
           /\ \A t \in G!Threads : thread'[t] = thread[t] \/ thread[t] = "none"
<1>1. \/ UNCHANGED thread
      \/ thread["stop"] = "none" /\ G!Goto("stop", "control")
  BY DEF G!Signal, G!Stop, G!Begin, G!Leave, G!ChildEnds, G!StartsBackend, G!Access, G!Connected, G!Abandoned,
         G!Connect, G!Ask, G!Disconnect, G!CallStep, G!Preflighted, G!Answered, G!Throws, G!ClientCloses
<1>2. G!Fault \/ G!NoFault \/ UNCHANGED faults
  BY DEF G!Signal, G!Begin, G!Leave, G!ChildEnds, G!StartsBackend, G!Access, G!Connected, G!Abandoned,
         G!Connect, G!Ask, G!Disconnect, G!CallStep, G!Preflighted, G!Answered, G!Throws, G!ClientCloses
<1>3. UNCHANGED <<server, given, closed, startupLock, http>>
  BY DEF G!Signal, G!Begin, G!Leave, G!ChildEnds, G!StartsBackend, G!Access, G!Connected, G!Abandoned, G!control,
         G!Connect, G!Ask, G!Disconnect, G!CallStep, G!Preflighted, G!Answered, G!Throws, G!ClientCloses
<1>4. peer' \in [Peers -> {"away", "connected", "asked", "gone"}] /\ left' \subseteq Calls
  BY DEF G!Signal, G!Begin, G!Leave, G!ChildEnds, G!StartsBackend, G!Access, G!Connected, G!Abandoned, G!control,
         G!Connect, G!Ask, G!Disconnect, G!CallStep, G!Preflighted, G!Answered, G!Throws, G!ClientCloses,
         ProgramTypes
<1>5. /\ thread' \in [G!Threads -> G!Pc] /\ \A t \in G!Threads : thread'[t] = thread[t] \/ thread[t] = "none"
  BY <1>1, GotoTypes DEF ProgramTypes, G!Threads, G!Pc
<1>6. faults' \in 0 .. MaxFaults
  BY <1>2, FaultTypes
<1>7. QED
  BY <1>3, <1>4, <1>5, <1>6 DEF ProgramTypes

-----------------------------------------------------------------------------
(* Every step keeps the inductive invariant.                               *)

LEMMA BridgeSame ==
    ASSUME Bridge, available' \in BOOLEAN, UNCHANGED <<client, starting, stage, child, call>>
    PROVE  Bridge'
  BY DEF Bridge, BridgeTypes, StartsAlone, G!BackendAccounted

LEMMA StepInvariant ==
    ASSUME G!GatewayAssumption, GatewayInv, [G!Next]_G!vars PROVE GatewayInv'
<1>0. ProgramTypes /\ Bridge /\ ThreadsWait
  BY DEF GatewayInv
<1>1. CASE G!StartStep
  <2>1. available' \in BOOLEAN /\ UNCHANGED <<client, starting, stage, child, call>>
    BY <1>0, <1>1 DEF G!StartStep, G!ListenHttp, G!TakeStartupLock, G!Probe, G!Listen, G!Chmod, G!Unbind,
         G!ReleaseStartupLock, G!Preflight, G!bridge, Bridge, BridgeTypes
  <2>2. Bridge'
    BY <1>0, <2>1, BridgeSame
  <2>3. ThreadsWait'
    BY <1>0, <1>1, <2>1, StartStepTypes DEF ThreadsWait, G!Threads
  <2>4. QED
    BY <1>0, <1>1, <2>2, <2>3, StartStepTypes DEF GatewayInv
<1>2. ASSUME NEW t \in G!Threads, G!EndStep(t) PROVE GatewayInv'
  <2> DEFINE Waits == {"ownedWait", "bridgeWait"}
  <2>1. ProgramTypes' /\ \A u \in G!Threads \ {t} : thread'[u] = thread[u]
    BY <1>0, <1>2, EndStepTypes
  <2>2. t \in G!Callers
    BY DEF G!Callers
  <2>3. CASE \/ G!CloseControl(t) \/ G!CloseLock(t) \/ G!Close(t) \/ G!StopHttp(t) \/ G!Drain(t)
             \/ G!OwnedEnds(t)
    <3>1. UNCHANGED <<G!bridge, call>> /\ call[t] = G!Idle
      BY <1>0, <2>3 DEF G!CloseControl, G!CloseLock, G!Close, G!StopHttp, G!Drain, G!OwnedEnds, ThreadsWait
    <3>2. Bridge'
      BY <1>0, <3>1, BridgeSame DEF G!bridge, Bridge, BridgeTypes
    <3>3. ThreadsWait'
      BY <1>0, <2>1, <3>1 DEF ThreadsWait
    <3>4. QED
      BY <2>1, <3>2, <3>3 DEF GatewayInv
  <2>4. CASE G!Owned(t)
    <3>1. call[t] = G!Idle
      BY <1>0, <2>4 DEF G!Owned, ThreadsWait
    <3>2. CASE UNCHANGED <<G!bridge, call>>
      <4>1. Bridge'
        BY <1>0, <3>2, BridgeSame DEF G!bridge, Bridge, BridgeTypes
      <4>2. ThreadsWait'
        BY <1>0, <2>1, <3>1, <3>2 DEF ThreadsWait
      <4>3. QED
        BY <2>1, <4>1, <4>2 DEF GatewayInv
    <3>3. CASE G!Begins(t) /\ G!Goto(t, "ownedWait")
      <4>1. Bridge'
        BY <1>0, <2>2, <3>3, BeginsKeeps
      <4>2. \A d \in G!Callers \ {t} : call'[d] = call[d]
        BY <1>0, <2>2, <3>3 DEF G!Begins, G!Start, G!Call, Bridge, BridgeTypes
      <4>3. thread'[t] = "ownedWait"
        BY <1>0, <3>3, GotoTypes DEF G!Pc
      <4>4. ThreadsWait'
        BY <1>0, <2>1, <4>2, <4>3 DEF ThreadsWait, G!Callers
      <4>5. QED
        BY <2>1, <4>1, <4>4 DEF GatewayInv
    <3>4. QED
      BY <2>4, <3>2, <3>3 DEF G!Owned
  <2>5. CASE G!CloseBridge(t)
    <3>1. call[t] = G!Idle /\ G!Goto(t, "bridgeWait")
      BY <1>0, <2>5 DEF G!CloseBridge, ThreadsWait
    <3>2. Bridge'
      BY <1>0, <2>5, <3>1, CloseBridgeKeeps
    <3>3. \A d \in G!Callers \ {t} : call'[d] = call[d]
      BY <1>0, <2>2, <2>5 DEF G!CloseBridge, Bridge, BridgeTypes
    <3>4. thread'[t] = "bridgeWait"
      BY <1>0, <3>1, GotoTypes DEF G!Pc
    <3>5. ThreadsWait'
      BY <1>0, <2>1, <3>3, <3>4 DEF ThreadsWait, G!Callers
    <3>6. QED
      BY <2>1, <3>2, <3>5 DEF GatewayInv
  <2>6. CASE G!End(t)
    <3>1. /\ UNCHANGED <<available, starting, stage, call>> /\ call[t] = G!Idle
          /\ \/ UNCHANGED <<client, child>>
             \/ client' = 0 /\ child' = [k \in G!Connections |->
                                           IF child[k] = "running" THEN "ended" ELSE child[k]]
      BY <2>6 DEF G!End
    <3>a. child \in [G!Connections -> {"none", "running", "ended"}]
      BY <1>0 DEF Bridge, BridgeTypes
    <3>2. /\ child' \in [G!Connections -> {"none", "running", "ended"}]
          /\ \A k \in G!Connections : child'[k] = "running" => child[k] = "running"
          /\ client' # client => client' = 0 /\ \A k \in G!Connections : child'[k] # "running"
      <4>1. CASE UNCHANGED <<client, child>>
        BY <3>a, <4>1
      <4>2. CASE client' = 0 /\ child' = [k \in G!Connections |->
                                    IF child[k] = "running" THEN "ended" ELSE child[k]]
        BY <3>a, <4>2
      <4>3. QED
        BY <3>1, <4>1, <4>2
    <3>3. Bridge'
      BY <1>0, <3>1, <3>2, ChildrenEnd DEF Bridge, BridgeTypes
    <3>4. ThreadsWait'
      BY <1>0, <2>1, <3>1 DEF ThreadsWait
    <3>5. QED
      BY <2>1, <3>3, <3>4 DEF GatewayInv
  <2>7. QED
    BY <1>2, <2>3, <2>4, <2>5, <2>6 DEF G!EndStep
<1>3. ASSUME \/ G!Signal
             \/ \E c \in Calls : G!Begin(c) \/ G!Leave(c)
             \/ \E k \in G!Connections : G!ChildEnds(k) \/ G!StartsBackend(k)
             \/ \E p \in Peers : G!Connect(p) \/ G!Ask(p) \/ G!Disconnect(p)
             \/ \E c \in G!Callers : G!CallStep(c)
      PROVE  GatewayInv'
  <2>1. ProgramTypes' /\ \A t \in G!Threads : thread'[t] = thread[t] \/ thread[t] = "none"
    BY <1>0, <1>3, OutsideTypes
  <2>2. ASSUME \A t \in G!Threads : call[t] = G!Idle => call'[t] = G!Idle PROVE ThreadsWait'
    BY <1>0, <2>1, <2>2 DEF ThreadsWait
  <2>3. CASE \/ G!Signal \/ \E c \in Calls : G!Leave(c)
             \/ \E p \in Peers : G!Connect(p) \/ G!Ask(p) \/ G!Disconnect(p)
    <3>1. UNCHANGED <<G!bridge, call>>
      BY <2>3 DEF G!Signal, G!Leave, G!Connect, G!Ask, G!Disconnect
    <3>2. QED
      BY <1>0, <2>1, <2>2, <3>1, BridgeSame DEF GatewayInv, G!bridge, Bridge, BridgeTypes
  <2>4. ASSUME NEW c \in Calls, G!Begin(c) PROVE GatewayInv'
    <3>1. G!Begins(c) /\ c \in G!Callers /\ c \notin G!Threads
      BY <2>4 DEF G!Begin, G!Callers, G!Threads, G!GatewayAssumption
    <3>2. \A d \in G!Callers \ {c} : call'[d] = call[d]
      BY <1>0, <3>1 DEF G!Begins, G!Start, G!Call, Bridge, BridgeTypes
    <3>3. \A t \in G!Threads : call'[t] = call[t]
      BY <3>1, <3>2 DEF G!Callers
    <3>4. QED
      BY <1>0, <2>1, <2>2, <3>1, <3>3, BeginsKeeps DEF GatewayInv
  <2>5. ASSUME NEW k \in G!Connections, G!ChildEnds(k) PROVE GatewayInv'
    <3>1. /\ UNCHANGED <<available, starting, stage, call>>
          /\ child' = [child EXCEPT ![k] = "ended"] /\ client' = G!Invalidated(k)
      BY <2>5 DEF G!ChildEnds
    <3>2. Bridge'
      BY <1>0, <3>1, ChildrenEnd DEF Bridge, BridgeTypes, G!Invalidated
    <3>3. QED
      BY <2>1, <2>2, <3>1, <3>2 DEF GatewayInv
  <2>6. ASSUME NEW k \in G!Connections, G!StartsBackend(k) PROVE GatewayInv'
    <3>1. \A d \in G!Callers : call[d] = G!Idle => call'[d] = G!Idle
      <4>1. CASE UNCHANGED call
        BY <4>1
      <4>2. ASSUME NEW installed \in BOOLEAN, G!Settle(k, installed)
            PROVE  \A d \in G!Callers : call[d] = G!Idle => call'[d] = G!Idle
        BY <4>2 DEF G!Settle, G!Idle
      <4>3. QED
        BY <2>6, <4>1, <4>2 DEF G!StartsBackend, G!Access, G!Connected, G!Abandoned
    <3>2. QED
      BY <1>0, <2>1, <2>2, <2>6, <3>1, StartsBackendKeeps DEF GatewayInv, G!Callers
  <2>7. ASSUME NEW c \in G!Callers, G!CallStep(c) PROVE GatewayInv'
    <3>1. call[c] # G!Idle /\ \A d \in G!Callers \ {c} : call'[d] = call[d]
      BY <1>0, <2>7 DEF G!CallStep, G!Preflighted, G!Answered, G!Throws, G!ClientCloses, G!Start, G!Call,
                        Bridge, BridgeTypes, G!Idle
    <3>2. QED
      BY <1>0, <2>1, <2>2, <2>7, <3>1, CallStepKeeps DEF GatewayInv, G!Callers
  <2>8. QED
    BY <1>3, <2>3, <2>4, <2>5, <2>6, <2>7
<1>4. CASE UNCHANGED G!vars
  BY <1>0, <1>4, BridgeSame
     DEF G!vars, G!control, G!bridge, GatewayInv, ProgramTypes, ThreadsWait, Bridge, BridgeTypes
<1>5. QED
  BY <1>1, <1>2, <1>3, <1>4 DEF G!Next, G!Callback, G!Threads

-----------------------------------------------------------------------------
(* However calls, failures, closes and the ends of the program interleave, *)
(* the inductive invariant holds.                                          *)
THEOREM GatewayInvariance == ASSUME G!GatewayAssumption PROVE G!Spec => []GatewayInv
<1>1. G!Init => GatewayInv
  BY InitInvariant
<1>2. GatewayInv /\ [G!Next]_G!vars => GatewayInv'
  BY StepInvariant
<1>3. QED
  BY <1>1, <1>2, PTL DEF G!Spec

(* Types, and that only one connection is ever being started.              *)
THEOREM GatewayTypes == ASSUME G!GatewayAssumption PROVE G!Spec => []G!TypeOK
<1>1. GatewayInv => G!TypeOK
  BY TypeParts DEF GatewayInv, Bridge
<1>2. QED
  BY <1>1, GatewayInvariance, PTL

(* Every backend that runs is installed, being started or being closed, by *)
(* a call or by the shutdown (desktop-backend.ts, start and close).        *)
THEOREM GatewayBackendAccounted == ASSUME G!GatewayAssumption PROVE G!Spec => []G!BackendAccounted
<1>1. GatewayInv => G!BackendAccounted
  BY DEF GatewayInv, Bridge
<1>2. QED
  BY <1>1, GatewayInvariance, PTL
=============================================================================
