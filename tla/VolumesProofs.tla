--------------------------- MODULE VolumesProofs ---------------------------
(***************************************************************************)
(* Proofs about the disks and images of a job.  SystemDisks, for machines  *)
(* with any number of devices stacked in any way a kernel builds: no disk  *)
(* of the running system passes the gate, and a stick does.  Fat32, for    *)
(* disks of any size and any set of requests: the volume Format lays out   *)
(* is sound, no larger disk is refused, the accesses below it stay inside  *)
(* the disk, and the disk never shows two layouts.  IsoTree, for images    *)
(* with any number of entries and any limits: what the walk accepts is a   *)
(* tree that a FAT32 volume can hold, and nothing proper is refused.       *)
(* Probe, for images with any number of trees, records and descriptors: an *)
(* image is put to its use, and both readers start from one root.          *)
(*                                                                         *)
(* Tables that a model fills by recursion are reasoned about from the well *)
(* foundedness of < on the naturals (AllUpTo), and RecursionTo says that   *)
(* there is such a table.                                                  *)
(***************************************************************************)
EXTENDS SystemDisks, Fat32, IsoTree, Probe, Integers, FiniteSetTheorems, SequenceTheorems,
        WellFoundedInduction, TLAPS

-----------------------------------------------------------------------------
(* Tables filled by recursion.                                             *)

(* A set of numbers with 0, and with each number up to n that comes after  *)
(* one of its own, has them all.                                           *)
LEMMA AllUpTo ==
    ASSUME NEW n \in Nat, NEW S, 0 \in S, \A k \in 1 .. n : k - 1 \in S => k \in S
    PROVE  \A k \in 0 .. n : k \in S
<1> DEFINE R == {ss \in Nat \X Nat : ss[1] < ss[2]}
           T == {k \in 0 .. n : k \notin S}
<1>1. IsWellFoundedOn(R, Nat)
    BY NatLessThanWellFounded, Zenon DEF OpToRel
<1> SUFFICES ASSUME T # {} PROVE FALSE
    OBVIOUS
<1>2. T \subseteq Nat
    OBVIOUS
<1>3. PICK x \in T : \A y \in T : ~ (<<y, x>> \in R)
    BY <1>1, <1>2, WFMin
<1>4. x \in 1 .. n /\ x \notin S
    OBVIOUS
<1>5. x - 1 \in Nat /\ x - 1 \in 0 .. n /\ x - 1 < x
    BY <1>4
<1>6. x - 1 \in T
    BY <1>4, <1>5
<1>7. <<x - 1, x>> \in R
  <2>1. <<x - 1, x>> \in Nat \X Nat /\ <<x - 1, x>>[1] < <<x - 1, x>>[2]
      BY <1>4, <1>5
  <2> QED
      BY <2>1
<1> QED
    BY <1>3, <1>6, <1>7

(* Functions built by recursion up to n: the steps, and what they give.    *)
StepsTo(n, A) == [1 .. n -> [A -> A]]
FollowsTo(n, f, A, a, g) ==
    f \in [0 .. n -> A] /\ f[0] = a /\ \A k \in 1 .. n : f[k] = g[k][f[k - 1]]

(* There is a function with a given first value in A and given steps from  *)
(* each value to the next.                                                 *)
LEMMA RecursionTo ==
    ASSUME NEW n \in Nat, NEW A, NEW a \in A, NEW g \in StepsTo(n, A)
    PROVE  \E f : FollowsTo(n, f, A, a, g)
<1> DEFINE S == {m \in 0 .. n : \E f : FollowsTo(m, f, A, a, g)}
<1>1. 0 \in S
  <2>1. FollowsTo(0, [i \in 0 .. 0 |-> a], A, a, g)
      BY DEF FollowsTo
  <2> QED
      BY <2>1
<1>2. ASSUME NEW k \in 1 .. n, k - 1 \in S PROVE k \in S
  <2>1. PICK f : FollowsTo(k - 1, f, A, a, g)
      BY <1>2
  <2>2. f \in [0 .. k - 1 -> A] /\ f[0] = a /\ \A i \in 1 .. k - 1 : f[i] = g[i][f[i - 1]]
      BY <2>1 DEF FollowsTo
  <2> DEFINE h == [i \in 0 .. k |-> IF i = k THEN g[k][f[k - 1]] ELSE f[i]]
  <2>3. f[k - 1] \in A /\ g[k][f[k - 1]] \in A
      BY <2>2 DEF StepsTo
  <2>4. h \in [0 .. k -> A] /\ h[0] = a
      BY <2>2, <2>3
  <2>5. ASSUME NEW i \in 1 .. k PROVE h[i] = g[i][h[i - 1]]
    <3>1. i - 1 \in 0 .. k - 1 /\ i - 1 # k /\ h[i - 1] = f[i - 1]
        OBVIOUS
    <3>2. CASE i = k
        BY <3>1, <3>2
    <3>3. CASE i # k
        BY <2>2, <3>1, <3>3
    <3> QED
        BY <3>2, <3>3
  <2>6. FollowsTo(k, h, A, a, g)
    <3> HIDE DEF h
    <3> QED
        BY <2>4, <2>5 DEF FollowsTo
  <2> QED
      BY <2>6
<1>3. n \in S
  <2> HIDE DEF S
  <2> QED
      BY <1>1, <1>2, AllUpTo
<1> QED
    BY <1>3

-----------------------------------------------------------------------------
(* The gate.                                                               *)

(* The parts of a machine.                                                 *)
LEMMA MachineParts ==
    ASSUME machine \in BuiltHosts
    PROVE  /\ machine.lost \subseteq Nodes /\ machine.mounts \subseteq MountEntries
           /\ Failed \notin Nodes
           /\ \A n \in Nodes :
                /\ Whole(n) \in Nodes /\ Whole(n) <= n /\ Whole(Whole(n)) = Whole(n)
                /\ machine.behind[n] \subseteq Nodes
                /\ \A s \in machine.behind[n] : s < n
                /\ machine.behind[n] # {} => IsDisk(n) /\ ~Removable(n)
<1>1. machine \in Hosts /\ Built(machine)
    BY DEF BuiltHosts
<1>2. Failed \notin Nodes
    BY DEF Failed, Nodes
<1>3. /\ machine.lost \subseteq Nodes /\ machine.mounts \subseteq MountEntries
      /\ machine.disk \in [Nodes -> Nodes] /\ machine.behind \in [Nodes -> SUBSET Nodes]
    BY <1>1 DEF Hosts
<1> QED
    BY <1>1, <1>2, <1>3 DEF Built, Whole, IsDisk, Removable

(* What a device stands on is closed, and is what its disk and the devices *)
(* behind that stand on.                                                   *)
LEMMA StandsOnIs ==
    ASSUME machine \in BuiltHosts, NEW n \in Nodes
    PROVE  /\ StandsOn(n) \subseteq Nodes /\ n \in StandsOn(n) /\ Closed(StandsOn(n))
           /\ \A s \in StandsOn(n) : StandsOn(s) \subseteq StandsOn(n)
           /\ \A x \in StandsOn(n) :
                \/ x \in {n, Whole(n)}
                \/ \E s \in machine.behind[Whole(n)] : x \in StandsOn(s)
<1>1. StandsOn(n) \subseteq Nodes /\ n \in StandsOn(n)
    BY DEF StandsOn
<1>2. Closed(StandsOn(n))
  <2> SUFFICES ASSUME NEW x \in StandsOn(n)
               PROVE  Whole(x) \in StandsOn(n) /\ machine.behind[x] \subseteq StandsOn(n)
      BY DEF Closed
  <2>1. x \in Nodes /\ Whole(x) \in Nodes /\ machine.behind[x] \subseteq Nodes
      BY <1>1, MachineParts
  <2> QED
      BY <2>1 DEF StandsOn, Closed
<1>3. \A s \in StandsOn(n) : StandsOn(s) \subseteq StandsOn(n)
    BY DEF StandsOn
<1>4. ASSUME NEW x \in StandsOn(n)
      PROVE  \/ x \in {n, Whole(n)}
             \/ \E s \in machine.behind[Whole(n)] : x \in StandsOn(s)
  <2> DEFINE S == {n, Whole(n)}
                    \cup {y \in Nodes : \E s \in machine.behind[Whole(n)] : y \in StandsOn(s)}
  <2>1. /\ Whole(n) \in Nodes /\ Whole(Whole(n)) = Whole(n)
        /\ machine.behind[Whole(n)] \subseteq Nodes
        /\ machine.behind[n] # {} => Whole(n) = n
      BY MachineParts DEF IsDisk
  <2>2. S \in SUBSET Nodes /\ n \in S
      BY <2>1
  <2>3. \A s \in machine.behind[Whole(n)] :
            s \in StandsOn(s) /\ Closed(StandsOn(s)) /\ StandsOn(s) \subseteq Nodes
    <3> SUFFICES ASSUME NEW s \in Nodes
                 PROVE  s \in StandsOn(s) /\ Closed(StandsOn(s)) /\ StandsOn(s) \subseteq Nodes
        BY <2>1
    <3>1. StandsOn(s) \subseteq Nodes /\ s \in StandsOn(s)
        BY DEF StandsOn
    <3>2. \A y \in Nodes : Whole(y) \in Nodes /\ machine.behind[y] \subseteq Nodes
        BY MachineParts
    <3>3. Closed(StandsOn(s))
      <4> SUFFICES ASSUME NEW y \in StandsOn(s)
                   PROVE  Whole(y) \in StandsOn(s) /\ machine.behind[y] \subseteq StandsOn(s)
          BY DEF Closed
      <4> QED
          BY <3>1, <3>2 DEF StandsOn, Closed
    <3> QED
        BY <3>1, <3>3
  <2>4. Closed(S)
    <3> SUFFICES ASSUME NEW y \in S PROVE Whole(y) \in S /\ machine.behind[y] \subseteq S
        BY DEF Closed
    <3>1. CASE y \in {n, Whole(n)}
      <4>1. Whole(y) = Whole(n)
          BY <2>1, <3>1
      <4>2. machine.behind[y] \subseteq machine.behind[Whole(n)]
          BY <2>1, <3>1
      <4> QED
          BY <2>1, <2>3, <4>1, <4>2
    <3>2. CASE \E s \in machine.behind[Whole(n)] : y \in StandsOn(s)
        BY <2>3, <3>2 DEF Closed
    <3> QED
        BY <3>1, <3>2
  <2>5. x \in S
    <3> HIDE DEF S
    <3> QED
        BY <2>2, <2>4 DEF StandsOn
  <2> QED
      BY <2>5
<1> QED
    BY <1>1, <1>2, <1>3, <1>4

(* A table of the walks from each device at each depth, as Walk makes it.  *)
WalkTable(w, maxDepth) ==
    w = [d \in 0 .. maxDepth + 1 |->
            [n \in Nodes |->
                IF d > maxDepth \/ n \in machine.lost THEN {Failed}
                ELSE IF machine.behind[Whole(n)] = {} THEN {Whole(n)}
                ELSE UNION {w[d + 1][s] : s \in machine.behind[Whole(n)]}]]

(* There is one, made from its deepest row up.                             *)
LEMMA TableExists ==
    ASSUME machine \in BuiltHosts, NEW maxDepth \in Nat
    PROVE  \E w : WalkTable(w, maxDepth)
<1> DEFINE A == [Nodes -> SUBSET (Nodes \cup {Failed})]
           a == [n \in Nodes |-> {Failed}]
           next(f) == [n \in Nodes |->
                          IF n \in machine.lost THEN {Failed}
                          ELSE IF machine.behind[Whole(n)] = {} THEN {Whole(n)}
                          ELSE UNION {f[s] : s \in machine.behind[Whole(n)]}]
           g == [i \in 1 .. maxDepth + 1 |-> [f \in A |-> next(f)]]
<1>1. a \in A
    OBVIOUS
<1>2. ASSUME NEW f \in A PROVE next(f) \in A
  <2> SUFFICES ASSUME NEW n \in Nodes
               PROVE  next(f)[n] \subseteq Nodes \cup {Failed}
      OBVIOUS
  <2>1. Whole(n) \in Nodes /\ machine.behind[Whole(n)] \subseteq Nodes
      BY MachineParts
  <2>2. \A s \in Nodes : f[s] \subseteq Nodes \cup {Failed}
      OBVIOUS
  <2> QED
      BY <2>1, <2>2
<1>3. g \in StepsTo(maxDepth + 1, A)
  <2> HIDE DEF A, next
  <2> QED
      BY <1>2 DEF StepsTo
<1>4. PICK v : FollowsTo(maxDepth + 1, v, A, a, g)
  <2>1. maxDepth + 1 \in Nat
      OBVIOUS
  <2> HIDE DEF A, a, g
  <2> QED
      BY <1>1, <1>3, <2>1, RecursionTo
<1>5. /\ v \in [0 .. maxDepth + 1 -> A] /\ v[0] = a
      /\ \A i \in 1 .. maxDepth + 1 : v[i] = next(v[i - 1])
  <2>1. \A i \in 1 .. maxDepth + 1 : i - 1 \in 0 .. maxDepth + 1
      OBVIOUS
  <2> HIDE DEF A, a, next
  <2> QED
      BY <1>4, <2>1 DEF FollowsTo
<1> DEFINE w == [d \in 0 .. maxDepth + 1 |-> v[maxDepth + 1 - d]]
           row(d) == [n \in Nodes |->
                         IF d > maxDepth \/ n \in machine.lost THEN {Failed}
                         ELSE IF machine.behind[Whole(n)] = {} THEN {Whole(n)}
                         ELSE UNION {w[d + 1][s] : s \in machine.behind[Whole(n)]}]
<1>6. ASSUME NEW d \in 0 .. maxDepth + 1 PROVE w[d] = row(d)
  <2>1. CASE d = maxDepth + 1
    <3>1. d > maxDepth /\ maxDepth + 1 - d = 0
        BY <2>1
    <3>2. w[d] = a
        BY <1>5, <3>1
    <3> HIDE DEF w
    <3> QED
        BY <3>1, <3>2
  <2>2. CASE d \in 0 .. maxDepth
    <3>1. /\ ~(d > maxDepth) /\ d + 1 \in 0 .. maxDepth + 1
          /\ maxDepth + 1 - d \in 1 .. maxDepth + 1
          /\ maxDepth + 1 - (d + 1) = (maxDepth + 1 - d) - 1
        BY <2>2
    <3>2. w[d] = v[maxDepth + 1 - d] /\ w[d + 1] = v[(maxDepth + 1 - d) - 1]
        BY <3>1
    <3>3. w[d] = next(w[d + 1])
      <4> HIDE DEF w, next
      <4> QED
          BY <1>5, <3>1, <3>2
    <3> HIDE DEF w
    <3> QED
        BY <3>1, <3>3
  <2> QED
      BY <2>1, <2>2
<1>7. w = [d \in 0 .. maxDepth + 1 |-> row(d)]
  <2> HIDE DEF row
  <2> QED
      BY <1>6
<1>8. WalkTable(w, maxDepth)
  <2> HIDE DEF w
  <2> QED
      BY <1>7 DEF WalkTable
<1> QED
    BY <1>8

(* Walk reads one.                                                         *)
LEMMA WalkIsATable ==
    ASSUME machine \in BuiltHosts, NEW maxDepth \in Nat
    PROVE  \E w : /\ WalkTable(w, maxDepth)
                  /\ \A start \in Nodes : Walk(maxDepth, start) = w[0][start]
<1> DEFINE W == CHOOSE w : WalkTable(w, maxDepth)
<1>1. WalkTable(W, maxDepth)
    BY TableExists
<1>2. \A start \in Nodes : Walk(maxDepth, start) = W[0][start]
    BY Zenon DEF Walk, WalkTable
<1> QED
    BY <1>1, <1>2

(* The rows of a table, one from the next.                                 *)
LEMMA TableRows ==
    ASSUME machine \in BuiltHosts, NEW maxDepth \in Nat, NEW w, WalkTable(w, maxDepth),
           NEW n \in Nodes
    PROVE  /\ w[maxDepth + 1][n] = {Failed}
           /\ \A d \in 0 .. maxDepth :
                /\ n \in machine.lost => w[d][n] = {Failed}
                /\ n \notin machine.lost /\ machine.behind[Whole(n)] = {} =>
                     w[d][n] = {Whole(n)}
                /\ n \notin machine.lost /\ machine.behind[Whole(n)] # {} =>
                     w[d][n] = UNION {w[d + 1][s] : s \in machine.behind[Whole(n)]}
<1> DEFINE row(d) == [k \in Nodes |->
                         IF d > maxDepth \/ k \in machine.lost THEN {Failed}
                         ELSE IF machine.behind[Whole(k)] = {} THEN {Whole(k)}
                         ELSE UNION {w[d + 1][s] : s \in machine.behind[Whole(k)]}]
<1>1. w = [d \in 0 .. maxDepth + 1 |-> row(d)]
    BY DEF WalkTable
<1>2. \A d \in 0 .. maxDepth + 1 : w[d] = row(d)
  <2> HIDE DEF row
  <2> QED
      BY <1>1
<1>3. w[maxDepth + 1] = row(maxDepth + 1) /\ maxDepth + 1 > maxDepth
  <2>1. maxDepth + 1 \in 0 .. maxDepth + 1 /\ maxDepth + 1 > maxDepth
      OBVIOUS
  <2> HIDE DEF row
  <2> QED
      BY <1>2, <2>1
<1>4. \A d \in 0 .. maxDepth : w[d] = row(d) /\ ~(d > maxDepth)
  <2>1. \A d \in 0 .. maxDepth : d \in 0 .. maxDepth + 1 /\ ~(d > maxDepth)
      OBVIOUS
  <2> HIDE DEF row
  <2> QED
      BY <1>2, <2>1
<1>5. w[maxDepth + 1][n] = {Failed}
    BY <1>3
<1> QED
    BY <1>4, <1>5

(* Where a walk does not fail it leads to some disks, all of them among    *)
(* what the device stands on, and to each that stands on nothing itself.   *)
LEMMA WalkFinds ==
    ASSUME machine \in BuiltHosts, NEW maxDepth \in Nat, NEW w, WalkTable(w, maxDepth)
    PROVE  \A n \in Nodes :
             /\ w[0][n] # {} /\ w[0][n] \subseteq StandsOn(n) \cup {Failed}
             /\ Failed \notin w[0][n] =>
                  \A x \in StandsOn(n) :
                    IsDisk(x) /\ machine.behind[x] = {} => x \in w[0][n]
<1> DEFINE Good(d, n) ==
             /\ w[d][n] # {} /\ w[d][n] \subseteq StandsOn(n) \cup {Failed}
             /\ Failed \notin w[d][n] =>
                  \A x \in StandsOn(n) :
                    IsDisk(x) /\ machine.behind[x] = {} => x \in w[d][n]
           S == {k \in 0 .. maxDepth + 1 : \A n \in Nodes : Good(maxDepth + 1 - k, n)}
<1>1. 0 \in S
  <2>1. \A n \in Nodes : w[maxDepth + 1][n] = {Failed}
      BY TableRows
  <2>2. \A n \in Nodes : Good(maxDepth + 1, n)
      BY <2>1
  <2>3. maxDepth + 1 - 0 = maxDepth + 1 /\ 0 \in 0 .. maxDepth + 1
      OBVIOUS
  <2> HIDE DEF Good
  <2> QED
      BY <2>2, <2>3
<1>2. ASSUME NEW d \in 0 .. maxDepth, \A n \in Nodes : Good(d + 1, n), NEW n \in Nodes
      PROVE  Good(d, n)
  <2>1. /\ Whole(n) \in Nodes /\ machine.behind[Whole(n)] \subseteq Nodes
        /\ Whole(Whole(n)) = Whole(n)
      BY MachineParts
  <2>2. /\ n \in StandsOn(n) /\ Whole(n) \in StandsOn(n)
        /\ \A s \in machine.behind[Whole(n)] : StandsOn(s) \subseteq StandsOn(n)
    <3>1. n \in StandsOn(n) /\ Closed(StandsOn(n))
        BY StandsOnIs
    <3>2. Whole(n) \in StandsOn(n) /\ machine.behind[Whole(n)] \subseteq StandsOn(n)
        BY <3>1 DEF Closed
    <3> QED
        BY <3>1, <3>2, StandsOnIs
  <2>3. \A x \in StandsOn(n) :
           \/ x \in {n, Whole(n)}
           \/ \E s \in machine.behind[Whole(n)] : x \in StandsOn(s)
      BY StandsOnIs
  <2>4. CASE n \in machine.lost
    <3>1. w[d][n] = {Failed}
        BY <2>4, TableRows
    <3> QED
        BY <3>1
  <2>5. CASE n \notin machine.lost /\ machine.behind[Whole(n)] = {}
    <3>1. w[d][n] = {Whole(n)}
        BY <2>5, TableRows
    <3>2. \A x \in StandsOn(n) : IsDisk(x) => x = Whole(n)
        BY <2>1, <2>3, <2>5 DEF IsDisk
    <3> QED
        BY <2>2, <3>1, <3>2
  <2>6. CASE n \notin machine.lost /\ machine.behind[Whole(n)] # {}
    <3>1. w[d][n] = UNION {w[d + 1][s] : s \in machine.behind[Whole(n)]}
        BY <2>6, TableRows
    <3>2. \A x : x \in w[d][n] <=> \E s \in machine.behind[Whole(n)] : x \in w[d + 1][s]
        BY <3>1
    <3>3. w[d][n] # {}
      <4>1. PICK s \in machine.behind[Whole(n)] : w[d + 1][s] # {}
          BY <1>2, <2>1, <2>6
      <4> QED
          BY <3>2, <4>1
    <3>4. w[d][n] \subseteq StandsOn(n) \cup {Failed}
        BY <1>2, <2>1, <2>2, <3>2
    <3>5. ASSUME Failed \notin w[d][n], NEW x \in StandsOn(n), IsDisk(x), machine.behind[x] = {}
          PROVE  x \in w[d][n]
      <4>1. x \notin {n, Whole(n)}
          BY <2>6, <3>5 DEF IsDisk
      <4>2. PICK s \in machine.behind[Whole(n)] : x \in StandsOn(s)
          BY <2>3, <4>1
      <4>3. Failed \notin w[d + 1][s] /\ s \in Nodes
          BY <2>1, <3>2, <3>5
      <4>4. x \in w[d + 1][s]
          BY <1>2, <3>5, <4>2, <4>3
      <4> QED
          BY <3>2, <4>4
    <3> QED
        BY <3>3, <3>4, <3>5
  <2> QED
      BY <2>4, <2>5, <2>6
<1>3. ASSUME NEW k \in 1 .. maxDepth + 1, k - 1 \in S PROVE k \in S
  <2> HIDE DEF Good
  <2> SUFFICES ASSUME NEW n \in Nodes PROVE Good(maxDepth + 1 - k, n)
      OBVIOUS
  <2>1. \A m \in Nodes : Good(maxDepth + 1 - (k - 1), m)
      BY <1>3
  <2> DEFINE d == maxDepth + 1 - k
  <2>2. d \in 0 .. maxDepth /\ maxDepth + 1 - (k - 1) = d + 1 /\ maxDepth + 1 - k = d
      OBVIOUS
  <2> HIDE DEF d
  <2> QED
      BY <1>2, <2>1, <2>2
<1>4. \A k \in 0 .. maxDepth + 1 : k \in S
  <2>1. maxDepth + 1 \in Nat
      OBVIOUS
  <2> HIDE DEF S
  <2> QED
      BY <1>1, <1>3, <2>1, AllUpTo
<1>5. \A n \in Nodes : Good(0, n)
  <2>1. maxDepth + 1 \in S /\ maxDepth + 1 - (maxDepth + 1) = 0
    <3> HIDE DEF S
    <3> QED
        BY <1>4
  <2> HIDE DEF Good
  <2> QED
      BY <2>1
<1> QED
    BY <1>5

(* A walk down a stack that is no deeper than the limit, and of which      *)
(* nothing is lost, does not fail: every level is below the last.          *)
LEMMA WalkReachesTheEnd ==
    ASSUME machine \in BuiltHosts, NEW maxDepth \in Nat, NEW w, WalkTable(w, maxDepth),
           NEW e \in Nodes, StandsOn(e) \cap machine.lost = {},
           Cardinality(StandsOn(e)) <= maxDepth + 1
    PROVE  Failed \notin w[0][e]
<1> DEFINE Above(n) == {x \in StandsOn(e) : x > n}
           Good(d) == \A n \in StandsOn(e) : Cardinality(Above(n)) >= d => Failed \notin w[d][n]
           S == {k \in 0 .. maxDepth + 1 : Good(maxDepth + 1 - k)}
<1>1. StandsOn(e) \subseteq Nodes /\ e \in StandsOn(e) /\ Closed(StandsOn(e))
    BY StandsOnIs
<1>2. IsFiniteSet(StandsOn(e)) /\ StandsOn(e) \subseteq Nat
  <2>1. IsFiniteSet(Nodes) /\ Nodes \subseteq Nat
      BY DevicesAssumption, FS_Interval DEF Nodes
  <2> QED
      BY <1>1, <2>1, FS_Subset
<1>3. ASSUME NEW n \in StandsOn(e)
      PROVE  /\ IsFiniteSet(Above(n)) /\ Cardinality(Above(n)) \in Nat
             /\ IsFiniteSet(Above(n) \cup {n})
             /\ Cardinality(Above(n) \cup {n}) = Cardinality(Above(n)) + 1
             /\ Above(n) \cup {n} \subseteq StandsOn(e)
  <2>1. Above(n) \subseteq StandsOn(e) /\ n \notin Above(n)
      BY <1>2
  <2>2. IsFiniteSet(Above(n))
      BY <1>2, <2>1, FS_Subset
  <2> HIDE DEF Above
  <2> QED
      BY <2>1, <2>2, FS_CardinalityType, FS_AddElement
<1>4. 0 \in S
  <2> SUFFICES ASSUME NEW n \in StandsOn(e), Cardinality(Above(n)) >= maxDepth + 1
               PROVE  FALSE
      OBVIOUS
  <2>1. Cardinality(Above(n) \cup {n}) <= Cardinality(StandsOn(e))
      BY <1>2, <1>3, FS_Subset
  <2>2. Cardinality(StandsOn(e)) \in Nat
      BY <1>2, FS_CardinalityType
  <2> HIDE DEF Above
  <2> QED
      BY <1>3, <2>1, <2>2
<1>5. ASSUME NEW d \in 0 .. maxDepth, Good(d + 1) PROVE Good(d)
  <2> SUFFICES ASSUME NEW n \in StandsOn(e), Cardinality(Above(n)) >= d
               PROVE  Failed \notin w[d][n]
      OBVIOUS
  <2>1. n \in Nodes /\ n \notin machine.lost
      BY <1>1
  <2>2. CASE machine.behind[Whole(n)] = {}
    <3>1. w[d][n] = {Whole(n)} /\ Whole(n) # Failed
        BY <2>1, <2>2, TableRows, MachineParts
    <3> QED
        BY <3>1
  <2>3. CASE machine.behind[Whole(n)] # {}
    <3>1. w[d][n] = UNION {w[d + 1][s] : s \in machine.behind[Whole(n)]}
        BY <2>1, <2>3, TableRows
    <3> SUFFICES ASSUME NEW s \in machine.behind[Whole(n)] PROVE Failed \notin w[d + 1][s]
        BY <3>1
    <3>2. s \in StandsOn(e) /\ s < Whole(n) /\ Whole(n) <= n /\ Whole(n) \in StandsOn(e)
        BY <1>1, <2>1, MachineParts DEF Closed
    <3>3. s < n
      <4>1. s \in Nat /\ n \in Nat /\ Whole(n) \in Nat
          BY <1>2, <3>2
      <4> QED
          BY <3>2, <4>1
    <3>4. Above(n) \cup {n} \subseteq Above(s)
        BY <1>2, <3>2, <3>3
    <3>5. Cardinality(Above(n) \cup {n}) <= Cardinality(Above(s))
        BY <1>3, <3>2, <3>4, FS_Subset
    <3>6. Cardinality(Above(s)) >= d + 1
      <4> HIDE DEF Above
      <4>1. /\ Cardinality(Above(n)) \in Nat /\ Cardinality(Above(s)) \in Nat
            /\ Cardinality(Above(n) \cup {n}) = Cardinality(Above(n)) + 1
          BY <1>3, <3>2
      <4> QED
          BY <3>5, <4>1
    <3> HIDE DEF Above
    <3> QED
        BY <1>5, <3>2, <3>6
  <2> QED
      BY <2>2, <2>3
<1>6. ASSUME NEW k \in 1 .. maxDepth + 1, k - 1 \in S PROVE k \in S
  <2> HIDE DEF Good
  <2> SUFFICES Good(maxDepth + 1 - k)
      OBVIOUS
  <2>1. Good(maxDepth + 1 - (k - 1))
      BY <1>6
  <2> DEFINE d == maxDepth + 1 - k
  <2>2. d \in 0 .. maxDepth /\ maxDepth + 1 - (k - 1) = d + 1 /\ maxDepth + 1 - k = d
      OBVIOUS
  <2> HIDE DEF d
  <2> QED
      BY <1>5, <2>1, <2>2
<1>7. \A k \in 0 .. maxDepth + 1 : k \in S
  <2>1. maxDepth + 1 \in Nat
      OBVIOUS
  <2> HIDE DEF S
  <2> QED
      BY <1>4, <1>6, <2>1, AllUpTo
<1>8. Good(0)
  <2>1. maxDepth + 1 \in 0 .. maxDepth + 1 /\ maxDepth + 1 - (maxDepth + 1) = 0
      OBVIOUS
  <2>2. maxDepth + 1 \in S
    <3> HIDE DEF S
    <3> QED
        BY <1>7, <2>1
  <2> HIDE DEF Good
  <2> QED
      BY <2>1, <2>2
<1>9. Cardinality(Above(e)) >= 0
  <2> HIDE DEF Above
  <2>1. Cardinality(Above(e)) \in Nat
      BY <1>1, <1>3
  <2> QED
      BY <2>1
<1> HIDE DEF Above
<1> QED
    BY <1>1, <1>8, <1>9

(* Walk, told by its tables.                                               *)
LEMMA WalkIs ==
    ASSUME machine \in BuiltHosts, NEW maxDepth \in Nat, NEW n \in Nodes
    PROVE  /\ Walk(maxDepth, n) # {} /\ Walk(maxDepth, n) \subseteq StandsOn(n) \cup {Failed}
           /\ Failed \notin Walk(maxDepth, n) =>
                \A x \in StandsOn(n) :
                  IsDisk(x) /\ machine.behind[x] = {} => x \in Walk(maxDepth, n)
           /\ (/\ StandsOn(n) \cap machine.lost = {}
               /\ Cardinality(StandsOn(n)) <= maxDepth + 1) => Failed \notin Walk(maxDepth, n)
<1>1. PICK w : WalkTable(w, maxDepth) /\ \A start \in Nodes : Walk(maxDepth, start) = w[0][start]
    BY WalkIsATable
<1>2. Walk(maxDepth, n) = w[0][n]
    BY <1>1
<1> QED
    BY <1>1, <1>2, WalkFinds, WalkReachesTheEnd

(* An entry of the mount table leads to a device or fails.                 *)
LEMMA EntryForIs ==
    ASSUME machine \in BuiltHosts, NEW m \in machine.mounts
    PROVE  /\ EntryFor(m) \in Nodes \cup {Failed}
           /\ m.dev # Anonymous => EntryFor(m) = m.dev /\ m.dev \in Nodes
<1>1. m \in MountEntries
    BY MachineParts
<1> QED
    BY <1>1 DEF MountEntries, EntryFor

(* What passes is a removable disk that is not one of the system's, and    *)
(* has nothing behind it.                                                  *)
LEMMA TargetIs ==
    ASSUME machine \in BuiltHosts, NEW n \in Nodes, NEW system, Target(n, system)
    PROVE  IsDisk(n) /\ machine.behind[n] = {} /\ Failed \notin system /\ n \notin system
<1> QED
    BY MachineParts DEF Target

(* On Linux no disk that passes carries a system mount.                    *)
LEMMA LinuxSpares ==
    ASSUME machine \in BuiltHosts, NEW n \in Nodes, Target(n, SystemDisksFrom)
    PROVE  /\ RootMounts # {}
           /\ \A m \in RootMounts : EntryFor(m) # Failed /\ n \notin StandsOn(EntryFor(m))
           /\ \A m \in machine.mounts :
                Understood(m, SysfsDepth) => n \notin StandsOn(EntryFor(m))
<1> DEFINE resolved == {m \in machine.mounts : Failed \notin DisksUnder(m)}
<1>1. /\ IsDisk(n) /\ machine.behind[n] = {}
      /\ Failed \notin SystemDisksFrom /\ n \notin SystemDisksFrom
    BY TargetIs
<1>2. /\ RootMounts # {} /\ RootMounts \subseteq resolved
      /\ SystemDisksFrom = UNION {DisksUnder(m) : m \in resolved}
    BY <1>1 DEF SystemDisksFrom, RootMounts
<1>3. ASSUME NEW m \in resolved
      PROVE  EntryFor(m) # Failed /\ n \notin StandsOn(EntryFor(m))
  <2>1. n \notin DisksUnder(m) /\ Failed \notin DisksUnder(m) /\ m \in machine.mounts
      BY <1>1, <1>2
  <2>2. EntryFor(m) # Failed /\ DisksUnder(m) = Walk(SysfsDepth, EntryFor(m))
      BY <2>1 DEF DisksUnder, WholeDisksForSysPath
  <2>3. EntryFor(m) \in Nodes
      BY <2>1, <2>2, EntryForIs
  <2> QED
      BY <1>1, <2>1, <2>2, <2>3, WalkIs, DepthAssumption
<1>4. ASSUME NEW m \in machine.mounts, Understood(m, SysfsDepth)
      PROVE  m \in resolved
  <2>1. EntryFor(m) \in Nodes /\ DisksUnder(m) = Walk(SysfsDepth, EntryFor(m))
      BY <1>4, EntryForIs DEF Understood, DisksUnder, WholeDisksForSysPath
  <2>2. Failed \notin Walk(SysfsDepth, EntryFor(m))
      BY <1>4, <2>1, WalkIs, DepthAssumption DEF Understood
  <2> QED
      BY <2>1, <2>2
<1> HIDE DEF resolved
<1> QED
    BY <1>2, <1>3, <1>4

(* On macOS none carries /.                                                *)
LEMMA DarwinSpares ==
    ASSUME machine \in BuiltHosts, NEW n \in Nodes, Target(n, DiskutilSystemDisks)
    PROVE  /\ RootMounts # {}
           /\ \A m \in RootMounts : EntryFor(m) # Failed /\ n \notin StandsOn(EntryFor(m))
<1>1. /\ IsDisk(n) /\ machine.behind[n] = {}
      /\ Failed \notin DiskutilSystemDisks /\ n \notin DiskutilSystemDisks
    BY TargetIs
<1>2. RootMounts # {}
    BY DEF Target, DiskutilSystemDisks, RootMounts
<1>3. ASSUME NEW m \in RootMounts
      PROVE  EntryFor(m) # Failed /\ n \notin StandsOn(EntryFor(m))
  <2> DEFINE D == IF m.dev = Anonymous THEN {Failed} ELSE WholeDisksBehind(m.dev)
  <2>1. D \subseteq DiskutilSystemDisks /\ m \in machine.mounts
      BY DEF DiskutilSystemDisks, RootMounts
  <2>2. m.dev # Anonymous
      BY <1>1, <2>1
  <2>3. EntryFor(m) = m.dev /\ m.dev \in Nodes /\ D = Walk(DiskutilDepth, m.dev)
      BY <2>1, <2>2, EntryForIs DEF WholeDisksBehind
  <2>4. Failed \notin Walk(DiskutilDepth, m.dev) /\ n \notin Walk(DiskutilDepth, m.dev)
      BY <1>1, <2>1, <2>3
  <2>5. n \notin StandsOn(m.dev)
      BY <1>1, <2>3, <2>4, WalkIs, DepthAssumption
  <2> QED
      BY <2>3, <2>5, MachineParts
<1> QED
    BY <1>2, <1>3

(* The volumes of Windows, by the code's notation and by what is paged.    *)
LEMMA VolumesAre ==
    ASSUME machine \in BuiltHosts
    PROVE  /\ LiveVolumes \subseteq SystemVolumes
           /\ \A v \in SystemVolumes : v \in LiveVolumes \/ v = "junk"
           /\ "junk" \in SystemVolumes <=> "junk" \in machine.pageFiles
<1>1. /\ machine.pageFiles \subseteq {"C", "D", "d", "?", "", "junk"}
      /\ machine.systemDrive \in {"C", "D"}
    BY DEF BuiltHosts, Hosts, Letters
<1>2. /\ LetterOf("C") = "C" /\ LetterOf("D") = "D" /\ LetterOf("d") = "D"
      /\ LetterOf("?") = machine.systemDrive /\ LetterOf("junk") = "junk"
    BY DEF LetterOf
<1>3. \A v : v \in SystemVolumes <=>
              \/ v \in {machine.systemDrive, "boot"}
              \/ \E e \in machine.pageFiles \ {""} : v = LetterOf(e)
    BY DEF SystemVolumes, PageFileVolumes
<1>4. \A v : v \in LiveVolumes <=>
              /\ v \in {"C", "D", "boot"}
              /\ \/ v \in {machine.systemDrive, "boot"}
                 \/ v = "D" /\ machine.pageFiles \cap {"D", "d"} # {}
                 \/ v # "D" /\ v \in machine.pageFiles
    BY DEF LiveVolumes, Letters, Paged
<1>5. ASSUME NEW v \in LiveVolumes PROVE v \in SystemVolumes
  <2>1. CASE v \in {machine.systemDrive, "boot"}
      BY <1>3, <2>1
  <2>2. CASE v = "D" /\ machine.pageFiles \cap {"D", "d"} # {}
    <3>1. PICK e \in machine.pageFiles : e \in {"D", "d"}
        BY <2>2
    <3>2. v = LetterOf(e) /\ e # ""
        BY <1>2, <2>2, <3>1
    <3> QED
        BY <1>3, <3>1, <3>2
  <2>3. CASE v = "C" /\ "C" \in machine.pageFiles
      BY <1>2, <1>3, <2>3
  <2>4. v \in {machine.systemDrive, "boot"} \/ v = "D" \/ v = "C"
      BY <1>4
  <2> QED
      BY <1>4, <2>1, <2>2, <2>3, <2>4
<1>6. ASSUME NEW v \in SystemVolumes PROVE v \in LiveVolumes \/ v = "junk"
  <2>1. CASE v \in {machine.systemDrive, "boot"}
      BY <1>1, <1>4, <2>1
  <2>2. ASSUME NEW e \in machine.pageFiles \ {""}, v = LetterOf(e)
        PROVE  v \in LiveVolumes \/ v = "junk"
    <3>1. e \in {"C", "D", "d", "?", "junk"}
        BY <1>1
    <3>2. CASE e = "C"
        BY <1>2, <1>4, <2>2, <3>2
    <3>3. CASE e \in {"D", "d"}
      <4>1. v = "D" /\ machine.pageFiles \cap {"D", "d"} # {}
          BY <1>2, <2>2, <3>3
      <4> QED
          BY <1>4, <4>1
    <3>4. CASE e = "?"
        BY <1>1, <1>2, <1>4, <2>2, <3>4
    <3>5. CASE e = "junk"
        BY <1>2, <2>2, <3>5
    <3> QED
        BY <3>1, <3>2, <3>3, <3>4, <3>5
  <2> QED
      BY <1>3, <2>1, <2>2
<1>7. "junk" \in SystemVolumes <=> "junk" \in machine.pageFiles
    BY <1>1, <1>2, <1>3
<1> QED
    BY <1>5, <1>6, <1>7

(* On Windows none holds a volume the system runs from.                    *)
LEMMA WindowsSpares ==
    ASSUME machine \in BuiltHosts, NEW n \in Nodes, Target(n, WindowsSystemDisks)
    PROVE  /\ "junk" \notin machine.pageFiles
           /\ \A v \in LiveVolumes : n \notin machine.extents[v]
<1>1. Failed \notin WindowsSystemDisks /\ n \notin WindowsSystemDisks
    BY TargetIs
<1>2. WindowsSystemDisks = UNION {DisksOf(v) : v \in SystemVolumes}
    BY <1>1 DEF WindowsSystemDisks
<1>3. "junk" \notin SystemVolumes
  <2>1. DisksOf("junk") = {Failed}
      BY DEF DisksOf, Letters
  <2> QED
      BY <1>1, <1>2, <2>1
<1>4. \A v \in LiveVolumes : DisksOf(v) = machine.extents[v] /\ v \in SystemVolumes
    BY VolumesAre DEF LiveVolumes, DisksOf
<1> QED
    BY <1>1, <1>2, <1>3, <1>4, VolumesAre

(* A removable disk passes that is no part of what the system stands on,   *)
(* where all of that is understood.                                        *)
LEMMA MountPasses ==
    ASSUME machine \in BuiltHosts, NEW n \in Nodes, NEW m \in machine.mounts,
           NEW maxDepth \in Nat, Understood(m, maxDepth), n \notin StandsOn(EntryFor(m))
    PROVE  /\ EntryFor(m) \in Nodes
           /\ Walk(maxDepth, EntryFor(m)) # {} /\ Failed \notin Walk(maxDepth, EntryFor(m))
           /\ n \notin Walk(maxDepth, EntryFor(m))
<1>1. EntryFor(m) \in Nodes
    BY EntryForIs DEF Understood
<1>2. Failed \notin Walk(maxDepth, EntryFor(m)) /\ n # Failed
    BY <1>1, WalkIs, MachineParts DEF Understood
<1> QED
    BY <1>1, <1>2, WalkIs

(* What StickPasses asks of a host that is not Windows.                    *)
Clear(n, maxDepth) ==
    /\ RootMounts # {}
    /\ \A m \in machine.mounts :
          Understood(m, maxDepth) /\ m.dev # Anonymous /\ n \notin StandsOn(EntryFor(m))

(* Nothing then speaks against it on Linux.                                *)
LEMMA LinuxPasses ==
    ASSUME machine \in BuiltHosts, NEW n \in Nodes, Clear(n, SysfsDepth)
    PROVE  SystemDisksFrom # {} /\ Failed \notin SystemDisksFrom /\ n \notin SystemDisksFrom
<1>1. ASSUME NEW m \in machine.mounts
      PROVE  DisksUnder(m) # {} /\ Failed \notin DisksUnder(m) /\ n \notin DisksUnder(m)
  <2>1. Understood(m, SysfsDepth) /\ n \notin StandsOn(EntryFor(m))
      BY DEF Clear
  <2>2. DisksUnder(m) = Walk(SysfsDepth, EntryFor(m))
      BY <2>1, MachineParts DEF Understood, DisksUnder, WholeDisksForSysPath
  <2> QED
      BY <2>1, <2>2, MountPasses, DepthAssumption
<1>2. {m \in machine.mounts : Failed \notin DisksUnder(m)} = machine.mounts
    BY <1>1
<1>3. {m \in machine.mounts : m.root} # {}
    BY DEF Clear, RootMounts
<1>4. SystemDisksFrom = UNION {DisksUnder(m) : m \in machine.mounts}
    BY <1>2, <1>3 DEF SystemDisksFrom
<1> QED
    BY <1>1, <1>3, <1>4

(* Nor on macOS, where / alone is asked about.                             *)
LEMMA DarwinPasses ==
    ASSUME machine \in BuiltHosts, NEW n \in Nodes, Clear(n, DiskutilDepth)
    PROVE  /\ DiskutilSystemDisks # {} /\ Failed \notin DiskutilSystemDisks
           /\ n \notin DiskutilSystemDisks
<1> DEFINE D(m) == IF m.dev = Anonymous THEN {Failed} ELSE WholeDisksBehind(m.dev)
<1>1. ASSUME NEW m \in RootMounts
      PROVE  D(m) # {} /\ Failed \notin D(m) /\ n \notin D(m)
  <2>1. /\ m \in machine.mounts /\ m.dev # Anonymous
        /\ Understood(m, DiskutilDepth) /\ n \notin StandsOn(EntryFor(m))
      BY DEF Clear, RootMounts
  <2>2. D(m) = Walk(DiskutilDepth, EntryFor(m))
      BY <2>1, EntryForIs DEF WholeDisksBehind
  <2> QED
      BY <2>1, <2>2, MountPasses, DepthAssumption
<1>2. RootMounts # {}
    BY DEF Clear
<1>3. DiskutilSystemDisks = UNION {D(m) : m \in RootMounts}
    BY DEF DiskutilSystemDisks, RootMounts
<1> HIDE DEF D
<1> QED
    BY <1>1, <1>2, <1>3

(* Nor on Windows, where every volume it runs from can be told.            *)
LEMMA WindowsPasses ==
    ASSUME machine \in BuiltHosts, NEW n \in Nodes,
           \A v \in LiveVolumes \cup machine.pageFiles :
               /\ v # "junk"
               /\ v \in LiveVolumes => n \notin machine.extents[v] /\ machine.extents[v] # {}
    PROVE  /\ WindowsSystemDisks # {} /\ Failed \notin WindowsSystemDisks
           /\ n \notin WindowsSystemDisks
<1>1. \A v \in SystemVolumes : v \in LiveVolumes
    BY VolumesAre
<1>2. machine.extents \in [Letters \cup {"boot"} -> SUBSET Nodes]
    BY DEF BuiltHosts, Hosts
<1>3. ASSUME NEW v \in SystemVolumes
      PROVE  DisksOf(v) # {} /\ Failed \notin DisksOf(v) /\ n \notin DisksOf(v)
  <2>1. v \in LiveVolumes /\ v \in Letters \cup {"boot"}
      BY <1>1 DEF LiveVolumes
  <2>2. DisksOf(v) = machine.extents[v] /\ machine.extents[v] \subseteq Nodes
      BY <1>2, <2>1 DEF DisksOf
  <2> QED
      BY <2>1, <2>2, MachineParts
<1>4. WindowsSystemDisks = UNION {DisksOf(v) : v \in SystemVolumes}
    BY <1>3 DEF WindowsSystemDisks
<1>5. "boot" \in SystemVolumes
    BY DEF SystemVolumes
<1> QED
    BY <1>3, <1>4, <1>5

(* What the gate remembers.                                                *)
GateInv ==
    /\ machine \in BuiltHosts
    /\ gate \in {"closed", "asked"}
    /\ gate = "closed" => accepted = {}
    /\ gate = "asked" => accepted = {n \in Nodes : Target(n, HostSystemDisks)}

(* The gate remembers it, since the machine stays as it was when asked.    *)
LEMMA GateInvHolds ==
    ASSUME NEW Machines, Machines \subseteq BuiltHosts
    PROVE  GateSpec(Machines) => []GateInv
<1>1. GateInit(Machines) => GateInv
    BY DEF GateInit, GateInv
<1>2. GateInv /\ [GateNext]_gateVars => GateInv'
  <2> SUFFICES ASSUME GateInv, [GateNext]_gateVars PROVE GateInv'
      OBVIOUS
  <2>1. CASE ResolveTarget
    <3>1. machine' = machine
        BY <2>1 DEF ResolveTarget
    <3>2. \A n \in Nodes : Target(n, HostSystemDisks)' <=> Target(n, HostSystemDisks)
        BY <3>1 DEF Target, IsDisk, Whole, Removable, HostSystemDisks, SystemDisksFrom,
                    DisksUnder, EntryFor, WholeDisksForSysPath, Walk, DiskutilSystemDisks,
                    WholeDisksBehind,
                    WindowsSystemDisks, DisksOf, SystemVolumes, PageFileVolumes, LetterOf
    <3>3. /\ gate' = "asked"
          /\ accepted' = {n \in Nodes : Target(n, HostSystemDisks)}
        BY <2>1 DEF ResolveTarget
    <3> QED
        BY <3>1, <3>2, <3>3 DEF GateInv
  <2>2. CASE UNCHANGED gateVars
    <3>1. machine' = machine /\ gate' = gate /\ accepted' = accepted
        BY <2>2 DEF gateVars
    <3>2. \A n \in Nodes : Target(n, HostSystemDisks)' <=> Target(n, HostSystemDisks)
        BY <3>1 DEF Target, IsDisk, Whole, Removable, HostSystemDisks, SystemDisksFrom,
                    DisksUnder, EntryFor, WholeDisksForSysPath, Walk, DiskutilSystemDisks,
                    WholeDisksBehind,
                    WindowsSystemDisks, DisksOf, SystemVolumes, PageFileVolumes, LetterOf
    <3> QED
        BY <3>1, <3>2 DEF GateInv
  <2> QED
      BY <2>1, <2>2 DEF GateNext
<1> QED
    BY <1>1, <1>2, PTL DEF GateSpec

(* On every machine a kernel builds, the gate lets pass no disk the        *)
(* running system stands on, nothing when it cannot tell, and every        *)
(* removable disk otherwise (sysfs.go:86, diskutil.go:118, windows.go:55). *)
THEOREM GateStopsTheSystem ==
    ASSUME NEW Machines, Machines \subseteq BuiltHosts
    PROVE  GateSpec(Machines) => []GateIsExact
<1>1. GateInv => SystemIsSpared
  <2> SUFFICES ASSUME GateInv, accepted # {} PROVE SystemIsSpared
      BY DEF SystemIsSpared
  <2>1. /\ machine \in BuiltHosts
        /\ accepted = {n \in Nodes : Target(n, HostSystemDisks)}
      BY DEF GateInv
  <2>2. machine.host \in {"linux", "darwin", "windows"}
      BY <2>1 DEF BuiltHosts, Hosts
  <2>3. \A n \in accepted : n \in Nodes /\ Target(n, HostSystemDisks)
      BY <2>1
  <2>4. CASE machine.host = "linux"
    <3>1. \A n \in accepted : n \in Nodes /\ Target(n, SystemDisksFrom)
        BY <2>3, <2>4 DEF HostSystemDisks
    <3> QED
        BY <2>1, <2>4, <3>1, LinuxSpares DEF SystemIsSpared
  <2>5. CASE machine.host = "darwin"
    <3>1. \A n \in accepted : n \in Nodes /\ Target(n, DiskutilSystemDisks)
        BY <2>3, <2>5 DEF HostSystemDisks
    <3> QED
        BY <2>1, <2>5, <3>1, DarwinSpares DEF SystemIsSpared
  <2>6. CASE machine.host = "windows"
    <3>1. \A n \in accepted : n \in Nodes /\ Target(n, WindowsSystemDisks)
        BY <2>3, <2>6 DEF HostSystemDisks
    <3> QED
        BY <2>1, <2>6, <3>1, WindowsSpares DEF SystemIsSpared
  <2> QED
      BY <2>2, <2>4, <2>5, <2>6
<1>2. GateInv => StickPasses
  <2> SUFFICES ASSUME GateInv, gate = "asked",
                      NEW n \in Nodes \ machine.lost, IsDisk(n), Removable(n),
                      IF machine.host = "windows"
                      THEN \A v \in LiveVolumes \cup machine.pageFiles :
                               /\ v # "junk"
                               /\ v \in LiveVolumes =>
                                      n \notin machine.extents[v] /\ machine.extents[v] # {}
                      ELSE Clear(n, IF machine.host = "linux" THEN SysfsDepth ELSE DiskutilDepth)
               PROVE  n \in accepted
      BY DEF StickPasses, Clear
  <2>1. /\ machine \in BuiltHosts
        /\ accepted = {k \in Nodes : Target(k, HostSystemDisks)}
      BY DEF GateInv
  <2>2. machine.host \in {"linux", "darwin", "windows"}
      BY <2>1 DEF BuiltHosts, Hosts
  <2>3. /\ HostSystemDisks # {} /\ Failed \notin HostSystemDisks /\ n \notin HostSystemDisks
    <3>1. CASE machine.host = "linux"
        BY <2>1, <3>1, LinuxPasses DEF HostSystemDisks
    <3>2. CASE machine.host = "darwin"
        BY <2>1, <3>2, DarwinPasses DEF HostSystemDisks
    <3>3. CASE machine.host = "windows"
        BY <2>1, <3>3, WindowsPasses DEF HostSystemDisks
    <3> QED
        BY <2>2, <3>1, <3>2, <3>3
  <2>4. Target(n, HostSystemDisks)
      BY <2>3 DEF Target
  <2> QED
      BY <2>1, <2>4
<1>3. GateSpec(Machines) => []GateInv
    BY GateInvHolds
<1> QED
    BY <1>1, <1>2, <1>3, PTL DEF GateIsExact

-----------------------------------------------------------------------------
(* The layout of a volume.                                                 *)

DiskRequests == [sector : Nat \ {0}, size : Nat, label : BOOLEAN]
FormatSpec(Requests) == FormatInit(Requests) /\ [][FormatStep]_formatVars

(* The cluster sizes the table of clusterBytes leads to, in sectors.       *)
ClusterSizes == {1, 2, 4, 8, 16, 32, 64}
(* In sectors these are powers of two from 1 to 64.                        *)
LEMMA ClusterSizesKnown ==
    ASSUME NEW part \in Nat, NEW sector \in {1, 8}
    PROVE  SectorsPerCluster(part, sector) \in ClusterSizes
BY DEF SectorsPerCluster, ClusterBlocks, Larger, ClusterSizes, MB, GB

(* The rounded-up quotient covers the dividend, and no more than needed.   *)
LEMMA CeilDivCovers ==
    ASSUME NEW a \in Nat, NEW b \in Nat \ {0}
    PROVE  CeilDiv(a, b) \in Int /\ b * CeilDiv(a, b) >= a /\ b * CeilDiv(a, b) < a + b
<1> DEFINE q == (a + b - 1) \div b
<1>1. q \in Int /\ b * q <= a + b - 1 /\ a + b - 1 < b * q + b
    OBVIOUS
<1> QED
    BY <1>1 DEF CeilDiv

(* A layout by the inequalities that its divisions stand for.              *)
IsLayout(l, part, sector) ==
    /\ l.total = part \div sector /\ l.total \in Nat /\ l.total > 32
    /\ l.spc = SectorsPerCluster(part, sector) /\ l.spc \in ClusterSizes
    /\ l.fat \in Int /\ l.clusters \in Int
    /\ (512 * sector * l.spc + 8) * l.fat >= 4 * (l.total - 32) + 8 * l.spc
    /\ (512 * sector * l.spc + 8) * l.fat
         < 4 * (l.total - 32) + 8 * l.spc + 512 * sector * l.spc + 8
    /\ l.spc * l.clusters <= l.total - 32 - 2 * l.fat
    /\ l.total - 32 - 2 * l.fat < l.spc * l.clusters + l.spc

(* LayoutOf meets them on every partition that has room for the reserved   *)
(* sectors.                                                                *)
LEMMA LayoutIs ==
    ASSUME NEW part \in Nat, NEW sector \in {1, 8}, part \div sector > Reserved
    PROVE  IsLayout(LayoutOf(part, sector), part, sector)
<1> DEFINE spc == SectorsPerCluster(part, sector)
           total == part \div sector
           n == 4 * (total - Reserved) + 8 * spc
           d == 512 * sector * spc + 8
           q == CeilDiv(n, d)
           c == Clusters(total, spc, q)
<1>1. /\ spc \in ClusterSizes /\ total \in Nat /\ total > Reserved
      /\ n \in Nat /\ d \in Nat \ {0}
    BY ClusterSizesKnown DEF ClusterSizes, Reserved
<1>2. q \in Int /\ d * q >= n /\ d * q < n + d
  <2> HIDE DEF n, d
  <2> QED
      BY <1>1, CeilDivCovers
<1>3. LayoutOf(part, sector) = [total |-> total, spc |-> spc, fat |-> q, clusters |-> c]
    BY DEF LayoutOf, FatSectors
<1>4. total = part \div sector /\ spc = SectorsPerCluster(part, sector)
    OBVIOUS
<1>5. /\ (512 * sector * spc + 8) * q >= 4 * (total - 32) + 8 * spc
      /\ (512 * sector * spc + 8) * q < 4 * (total - 32) + 8 * spc + 512 * sector * spc + 8
  <2> HIDE DEF q
  <2> QED
      BY <1>1, <1>2 DEF Reserved, ClusterSizes
<1> HIDE DEF spc, total, q
<1>6. /\ c \in Int /\ spc * c <= total - 32 - 2 * q
      /\ total - 32 - 2 * q < spc * c + spc
    BY <1>1, <1>2 DEF Clusters, Reserved, ClusterSizes
<1> HIDE DEF c
<1> QED
    BY <1>1, <1>2, <1>3, <1>4, <1>5, <1>6 DEF IsLayout, Reserved

(* Each FAT of a layout has an entry for every cluster and the two that do *)
(* not exist, and no sector more than these may need; and the clusters     *)
(* fill the partition to its last whole one: the FAT's size and the number *)
(* of clusters, which depend on one another, agree (fatfmt.go:111).        *)
THEOREM LayoutFits ==
    ASSUME NEW part \in Nat, NEW sector \in {1, 8}, part \div sector > Reserved
    PROVE  LET l == LayoutOf(part, sector) IN
           FatHolds(l, sector) /\ FatIsTight(l, sector) /\ DataFits(l)
<1> PICK l : l = LayoutOf(part, sector)
    OBVIOUS
<1> PICK spc, total, q, c : spc = l.spc /\ total = l.total /\ q = l.fat /\ c = l.clusters
    OBVIOUS
<1>0. IsLayout(l, part, sector)
    BY LayoutIs
<1>1. /\ spc \in ClusterSizes /\ total \in Nat /\ total > 32 /\ q \in Int /\ c \in Int
    BY <1>0 DEF IsLayout
<1>2. /\ (512 * sector * spc + 8) * q >= 4 * (total - 32) + 8 * spc
      /\ (512 * sector * spc + 8) * q < 4 * (total - 32) + 8 * spc + 512 * sector * spc + 8
      /\ spc * c <= total - 32 - 2 * q /\ total - 32 - 2 * q < spc * c + spc
    BY <1>0 DEF IsLayout
<1>3. 128 * sector * q >= c + 2 /\ 128 * sector * (q - 2) < c + 2
  <2>1. CASE sector = 1
    <3>1. CASE spc = 1
        BY <1>1, <1>2, <2>1, <3>1 
    <3>2. CASE spc = 2
        BY <1>1, <1>2, <2>1, <3>2
    <3>3. CASE spc = 4
        BY <1>1, <1>2, <2>1, <3>3
    <3>4. CASE spc = 8
        BY <1>1, <1>2, <2>1, <3>4
    <3>5. CASE spc = 16
        BY <1>1, <1>2, <2>1, <3>5
    <3>6. CASE spc = 32
        BY <1>1, <1>2, <2>1, <3>6
    <3>7. CASE spc = 64
        BY <1>1, <1>2, <2>1, <3>7
    <3> QED
        BY <1>1, <3>1, <3>2, <3>3, <3>4, <3>5, <3>6, <3>7 DEF ClusterSizes
  <2>2. CASE sector = 8
    <3>1. CASE spc = 1
        BY <1>1, <1>2, <2>2, <3>1 
    <3>2. CASE spc = 2
        BY <1>1, <1>2, <2>2, <3>2
    <3>3. CASE spc = 4
        BY <1>1, <1>2, <2>2, <3>3
    <3>4. CASE spc = 8
        BY <1>1, <1>2, <2>2, <3>4
    <3>5. CASE spc = 16
        BY <1>1, <1>2, <2>2, <3>5
    <3>6. CASE spc = 32
        BY <1>1, <1>2, <2>2, <3>6
    <3>7. CASE spc = 64
        BY <1>1, <1>2, <2>2, <3>7
    <3> QED
        BY <1>1, <3>1, <3>2, <3>3, <3>4, <3>5, <3>6, <3>7 DEF ClusterSizes
  <2> QED
      BY <2>1, <2>2
<1>4. FatHolds(l, sector) /\ FatIsTight(l, sector)
    BY <1>3 DEF FatHolds, FatIsTight
<1>5. DataFits(l)
    BY <1>1, <1>2 DEF DataFits, Reserved, ClusterSizes
<1> QED
    BY <1>4, <1>5

(* The table begins with clusters of one block, 8 of the disk's blocks if  *)
(* its sectors are larger, and grows only where there is much room.        *)
LEMMA SmallClusters ==
    ASSUME NEW part \in Nat, NEW sector \in {1, 8},
           part <= 260 * MB \/ (sector = 8 /\ part <= 8 * GB)
    PROVE  SectorsPerCluster(part, sector) = 1
BY DEF SectorsPerCluster, ClusterBlocks, Larger, MB, GB

(* Where they grow there are more than 66560 of them.                      *)
LEMMA LargeClusters ==
    ASSUME NEW part \in Nat, NEW sector \in {1, 8},
           part > 260 * MB, sector = 1 \/ part > 8 * GB
    PROVE  /\ SectorsPerCluster(part, sector) \in {2, 4, 8, 16, 32, 64}
           /\ part \div sector >= 66560 * SectorsPerCluster(part, sector)
<1>1. CASE sector = 1
    BY <1>1 DEF SectorsPerCluster, ClusterBlocks, Larger, MB, GB
<1>2. CASE sector = 8
    BY <1>2 DEF SectorsPerCluster, ClusterBlocks, Larger, MB, GB
<1> QED
    BY <1>1, <1>2

(* A disk larger than one that is large enough is so too, although it may  *)
(* have fewer clusters: larger FATs take more room, and the cluster size   *)
(* grows in steps.                                                         *)
THEOREM LargerIsNotRefused ==
    ASSUME NEW small \in Nat, NEW big \in Nat, small <= big, NEW sector \in {1, 8},
           CheckLayout(small, sector)
    PROVE  CheckLayout(big, sector)
<1> PICK k : k = LayoutOf(small, sector)
    OBVIOUS
<1> PICK l : l = LayoutOf(big, sector)
    OBVIOUS
<1>1. /\ small \div sector > Reserved /\ k.clusters >= MinClusters
      /\ small \div sector \in Nat /\ big \div sector \in Nat
      /\ small \div sector <= big \div sector
    BY DEF CheckLayout, Reserved
<1>2. big \div sector > Reserved
    BY <1>1 DEF Reserved
<1> PICK spc, total, q, c : spc = l.spc /\ total = l.total /\ q = l.fat /\ c = l.clusters
    OBVIOUS
<1>3. /\ total = big \div sector /\ total \in Nat /\ q \in Int /\ c \in Int
      /\ spc = SectorsPerCluster(big, sector)
      /\ (512 * sector * spc + 8) * q >= 4 * (total - 32) + 8 * spc
      /\ (512 * sector * spc + 8) * q < 4 * (total - 32) + 8 * spc + 512 * sector * spc + 8
      /\ spc * c <= total - 32 - 2 * q /\ total - 32 - 2 * q < spc * c + spc
  <2>1. IsLayout(l, big, sector)
      BY <1>2, LayoutIs
  <2> QED
      BY <2>1 DEF IsLayout
<1>4. IsLayout(k, small, sector)
    BY <1>1, LayoutIs
<1>5. CASE big <= 260 * MB \/ (sector = 8 /\ big <= 8 * GB)
  <2>1. spc = 1 /\ k.spc = 1
    <3>1. small <= 260 * MB \/ (sector = 8 /\ small <= 8 * GB)
        BY <1>5 DEF MB, GB
    <3> QED
        BY <1>1, <1>3, <1>4, <1>5, <3>1, SmallClusters DEF IsLayout
  <2>2. /\ k.total <= total /\ k.total \in Nat /\ k.fat \in Int /\ k.clusters \in Int
        /\ (512 * sector + 8) * k.fat >= 4 * (k.total - 32) + 8
        /\ k.clusters <= k.total - 32 - 2 * k.fat
      BY <1>1, <1>3, <1>4, <2>1 DEF IsLayout
  <2> PICK total0, q0, c0 : total0 = k.total /\ q0 = k.fat /\ c0 = k.clusters
      OBVIOUS
  <2>3. c >= 65525
    <3>1. CASE sector = 1
        BY <1>1, <1>3, <2>1, <2>2, <3>1 DEF MinClusters
    <3>2. CASE sector = 8
        BY <1>1, <1>3, <2>1, <2>2, <3>2 DEF MinClusters
    <3> QED
        BY <3>1, <3>2
  <2> QED
      BY <1>2, <2>3 DEF CheckLayout, MinClusters
<1>6. CASE big > 260 * MB /\ (sector = 1 \/ big > 8 * GB)
  <2>0. spc \in {2, 4, 8, 16, 32, 64} /\ total >= 66560 * spc
      BY <1>3, <1>6, LargeClusters
  <2>3. c >= 65525
    <3>1. CASE sector = 1
      <4>1. CASE spc = 2
          BY <1>3, <2>0, <3>1, <4>1
      <4>2. CASE spc = 4
          BY <1>3, <2>0, <3>1, <4>2
      <4>3. CASE spc = 8
          BY <1>3, <2>0, <3>1, <4>3
      <4>4. CASE spc = 16
          BY <1>3, <2>0, <3>1, <4>4
      <4>5. CASE spc = 32
          BY <1>3, <2>0, <3>1, <4>5
      <4>6. CASE spc = 64
          BY <1>3, <2>0, <3>1, <4>6
      <4> QED
          BY <2>0, <4>1, <4>2, <4>3, <4>4, <4>5, <4>6
    <3>2. CASE sector = 8
      <4>1. CASE spc = 2
          BY <1>3, <2>0, <3>2, <4>1
      <4>2. CASE spc = 4
          BY <1>3, <2>0, <3>2, <4>2
      <4>3. CASE spc = 8
          BY <1>3, <2>0, <3>2, <4>3
      <4>4. CASE spc = 16
          BY <1>3, <2>0, <3>2, <4>4
      <4>5. CASE spc = 32
          BY <1>3, <2>0, <3>2, <4>5
      <4>6. CASE spc = 64
          BY <1>3, <2>0, <3>2, <4>6
      <4> QED
          BY <2>0, <4>1, <4>2, <4>3, <4>4, <4>5, <4>6
    <3> QED
        BY <3>1, <3>2
  <2> QED
      BY <1>2, <2>3 DEF CheckLayout, MinClusters
<1> QED
    BY <1>5, <1>6 DEF MB, GB

(* On a disk that an MBR can address no FAT32 volume has too many clusters.*)
LEMMA ClustersHaveNumbers ==
    ASSUME NEW part \in Nat, NEW sector \in {1, 8}, part \div sector > Reserved,
           part <= 2049 * GB
    PROVE  LayoutOf(part, sector).clusters <= 64 * GB
<1> PICK l : l = LayoutOf(part, sector)
    OBVIOUS
<1> PICK spc, total, c : spc = l.spc /\ total = l.total /\ c = l.clusters
    OBVIOUS
<1>0. IsLayout(l, part, sector)
    BY LayoutIs
<1>1. /\ total = part \div sector /\ total \in Nat /\ c \in Int /\ l.fat \in Int
      /\ spc = SectorsPerCluster(part, sector) /\ spc \in ClusterSizes
      /\ (512 * sector * spc + 8) * l.fat >= 4 * (total - 32) + 8 * spc
      /\ spc * c <= total - 32 - 2 * l.fat /\ total > 32
    BY <1>0 DEF IsLayout
<1>2. l.fat >= 0
    BY <1>1 DEF ClusterSizes
<1>3. spc * c <= total
    BY <1>1, <1>2 DEF ClusterSizes
<1>4. CASE part <= 32 * GB
  <2>1. c <= total \/ c < 0
      BY <1>1, <1>3 DEF ClusterSizes
  <2> QED
      BY <1>1, <1>4, <2>1 DEF GB, MB
<1>5. CASE part > 32 * GB
  <2>1. spc * sector = 64
      BY <1>1, <1>5 DEF SectorsPerCluster, ClusterBlocks, Larger, MB, GB
  <2>2. CASE sector = 1
    <3>1. spc = 64
        BY <1>1, <2>1, <2>2 DEF ClusterSizes
    <3> QED
        BY <1>1, <1>3, <2>2, <3>1 DEF GB, MB
  <2>3. CASE sector = 8
    <3>1. spc = 8
        BY <1>1, <2>1, <2>3 DEF ClusterSizes
    <3> QED
        BY <1>1, <1>3, <2>3, <3>1 DEF GB, MB
  <2> QED
      BY <2>2, <2>3
<1> QED
    BY <1>4, <1>5 DEF MB, GB

(* A CHS address, read back, is the sector it was made for, or the last    *)
(* one that has such an address (fatfmt.go:177).                           *)
THEOREM ChsRoundTrip ==
    ASSUME NEW lba \in Nat
    PROVE  ChsIsTrue(lba)
<1> DEFINE q == lba \div 63
           c == lba \div (255 * 63)
           h == q % 255
           s == (lba % 63) + 1
<1>1. q \in Nat /\ lba = 63 * q + (lba % 63) /\ (lba % 63) \in 0 .. 62
    OBVIOUS
<1>2. c \in Nat /\ h \in 0 .. 254 /\ q = 255 * c + h
  <2>1. q \div 255 \in Nat /\ h \in 0 .. 254 /\ q = 255 * (q \div 255) + h
      BY <1>1
  <2>2. q \div 255 = c
      BY <1>1, <2>1
  <2> QED
      BY <2>1, <2>2
<1>3. c > 1023 <=> ~(lba < 1024 * 255 * 63)
    BY <1>1, <1>2
<1>4. CASE c > 1023
  <2>1. Chs(lba) = [head |-> 254, sector |-> 255, cylinder |-> 255]
      BY <1>4 DEF Chs
  <2>2. Lba([head |-> 254, sector |-> 255, cylinder |-> 255]) = (1023 * 255 + 254) * 63 + 62
      BY DEF Lba
  <2> QED
      BY <1>3, <1>4, <2>1, <2>2 DEF ChsIsTrue
<1>5. CASE c <= 1023
  <2> DEFINE u == c \div 256
  <2>1. u \in 0 .. 3 /\ c = 256 * u + (c % 256) /\ (c % 256) \in 0 .. 255 /\ (u % 4) = u
      BY <1>2, <1>5
  <2>2. s \in 1 .. 63
      BY <1>1
  <2>3. Chs(lba) = [head |-> h, sector |-> s + 64 * u, cylinder |-> (c % 256)]
      BY <1>2, <1>5, <2>1 DEF Chs
  <2> HIDE DEF q, c, h, s, u
  <2>4. (s + 64 * u) \div 64 = u /\ ((s + 64 * u) % 64) = s
      BY <2>1, <2>2
  <2>5. Lba(Chs(lba)) = (((c % 256) + 256 * u) * 255 + h) * 63 + s - 1
      BY <2>3, <2>4 DEF Lba
  <2>6. Lba(Chs(lba)) = (255 * c + h) * 63 + s - 1
      BY <1>2, <2>1, <2>5
  <2>7. s = (lba % 63) + 1
      BY DEF s
  <2> QED
      BY <1>1, <1>2, <1>3, <1>5, <2>6, <2>7 DEF ChsIsTrue
<1> QED
    BY <1>2, <1>4, <1>5

(* An access widened to whole sectors begins and ends on a sector, covers  *)
(* the bytes asked for, and is inside the disk if they were, since the     *)
(* usable disk is a whole number of sectors (fatfmt.go:244).               *)
THEOREM SpanIsWhole ==
    ASSUME NEW off \in Nat, NEW n \in Nat, NEW size \in Nat, NEW sector \in Nat \ {0},
           size % sector = 0, off + n <= size
    PROVE  LET span == Span(off, n, sector) IN
           /\ span.start % sector = 0 /\ span.end % sector = 0
           /\ 0 <= span.start /\ span.start <= off
           /\ off + n <= span.end /\ span.end <= size
BY DEF Span
-----------------------------------------------------------------------------
(* The order of the writes.                                                *)

(* What each step of Format finds on the disk.                             *)
StepInv ==
    /\ step \in {"check", "clearStart", "clearEnd", "sign", "table", "create", "stopped"}
    /\ outcome = "none" <=> step # "stopped"
    /\ step = "check" => mbr = "old"
    /\ step \in {"check", "clearStart", "clearEnd", "sign", "table", "create"} => volume = "old"
    /\ step \in {"clearStart", "clearEnd", "sign", "table"} => mbr # "table"
    /\ step \in {"sign", "table", "create"} => backup = "clear"
    /\ step = "create" => mbr = "table"

(* The disk never shows two layouts, whichever write fails: a table only   *)
(* appears once the old GPT is gone from both ends, a volume only under    *)
(* it, and success means both (fatfmt.go:70).                              *)
THEOREM NeverTwoLayouts ==
    ASSUME NEW CONSTANT Requests
    PROVE  FormatSpec(Requests) => []OneLayoutAtATime
<1> DEFINE I == StepInv /\ OneLayoutAtATime
<1>1. FormatInit(Requests) => I
    BY DEF FormatInit, StepInv, OneLayoutAtATime
<1>2. I /\ [FormatStep]_formatVars => I'
    BY DEF FormatStep, Check, ClearStart, ClearEnd, Sign, WriteTable, Create, Stop, Then,
           formatVars, StepInv, OneLayoutAtATime
<1> QED
    BY <1>1, <1>2, PTL DEF FormatSpec

(* Every disk that Format begins to change, of whatever size, gets a       *)
(* volume that is FAT32 to every driver, whole, inside the disk and where  *)
(* its CHS addresses say, and no larger disk is refused (fatfmt.go:111).   *)
THEOREM LayoutsAreSound ==
    ASSUME NEW CONSTANT Requests \in SUBSET DiskRequests
    PROVE  FormatSpec(Requests) => []LayoutIsSound
<1> DEFINE Checked == /\ request.sector \in {1, 8} /\ request.size <= MaxDiskSize
                      /\ CheckLayout(Part, request.sector)
           I == /\ request \in Requests
                /\ step = "check" => outcome = "none"
                /\ outcome = "refused" => step = "stopped"
                /\ Accepted => Checked
<1>1. FormatInit(Requests) => I
    BY DEF FormatInit, Accepted
<1>2. I /\ [FormatStep]_formatVars => I'
  <2> SUFFICES ASSUME I, [FormatStep]_formatVars PROVE I'
      OBVIOUS
  <2>1. UNCHANGED request
      BY DEF FormatStep, Check, ClearStart, ClearEnd, Sign, WriteTable, Create, formatVars
  <2>2. Checked' <=> Checked
      BY <2>1 DEF Part, Usable
  <2>3. CASE Check
      BY <2>1, <2>2, <2>3 DEF Check, Stop, Then, Accepted, Part, Usable
  <2>4. CASE ~Check
    <3>1. /\ step' = "check" => step = "check" /\ outcome' = outcome
          /\ outcome' = "refused" => step' = "stopped"
          /\ Accepted' => Accepted
        BY <2>4 DEF FormatStep, ClearStart, ClearEnd, Sign, WriteTable, Create, Stop, Then,
                    Accepted, formatVars
    <3> QED
        BY <2>1, <2>2, <3>1
  <2> QED
      BY <2>3, <2>4
<1>3. I => LayoutIsSound
  <2> SUFFICES ASSUME I, Accepted PROVE LayoutIsSound
      BY DEF LayoutIsSound
  <2> PICK sector, size : sector = request.sector /\ size = request.size
      OBVIOUS
  <2> PICK l : l = LayoutOf(Part, sector)
      OBVIOUS
  <2> PICK start : start = PartitionStart \div sector
      OBVIOUS
  <2>1. sector \in {1, 8} /\ size \in Nat /\ size <= MaxDiskSize /\ CheckLayout(Part, sector)
      BY DEF DiskRequests
  <2>2. /\ Part \in Nat /\ Part \div sector > Reserved
        /\ Part + PartitionStart = size - (size % sector) /\ size % sector \in 0 .. 7
    <3>1. Part = size - (size % sector) - 2048 /\ Part \div sector > 32
        BY <2>1 DEF CheckLayout, Part, Usable, PartitionStart, MB, Reserved
    <3>2. size % sector \in 0 .. 7
        BY <2>1
    <3> QED
        BY <2>1, <3>1, <3>2 DEF PartitionStart, MB, Reserved
  <2>3. FatHolds(l, sector) /\ FatIsTight(l, sector) /\ DataFits(l)
      BY <2>1, <2>2, LayoutFits
  <2>4. l.clusters \in Int /\ l.total = Part \div sector /\ l.total \in Nat /\ l.total > 32
    <3>1. IsLayout(l, Part, sector)
        BY <2>1, <2>2, LayoutIs
    <3> QED
        BY <3>1 DEF IsLayout
  <2>5. l.clusters >= 65525 /\ l.clusters <= MaxClusters
    <3>1. Part <= 2049 * GB
        BY <2>1, <2>2, DiskAssumption, SizesAssumption DEF GB, MB, PartitionStart
    <3>2. l.clusters <= 64 * GB
        BY <2>1, <2>2, <2>4, <3>1, ClustersHaveNumbers
    <3>3. l.clusters >= 65525
        BY <2>1 DEF CheckLayout, MinClusters
    <3> QED
        BY <2>4, <3>2, <3>3, SMT DEF MaxClusters, GB, MB
  <2>6. (start + l.total) * sector <= size
      BY <2>1, <2>2, <2>4 DEF PartitionStart, MB
  <2>7. ChsIsTrue(start) /\ ChsIsTrue(start + l.total - 1)
    <3>1. start \in Nat /\ start + l.total - 1 \in Nat
        BY <2>1, <2>4 DEF PartitionStart, MB
    <3> QED
        BY <3>1, ChsRoundTrip
  <2>8. ASSUME NEW larger \in DiskSizes, larger >= size
        PROVE  CheckLayout(larger - PartitionStart, sector)
    <3>1. larger - PartitionStart \in Nat /\ Part <= larger - PartitionStart
        BY <2>1, <2>2, <2>8, SizesAssumption DEF PartitionStart, MB
    <3> QED
        BY <2>1, <2>2, <3>1, LargerIsNotRefused
  <2>9. VolumeIsSound(l, start)
      BY <2>3, <2>5, <2>6, <2>7 DEF VolumeIsSound
  <2> QED
      BY <2>8, <2>9 DEF LayoutIsSound
<1> QED
    BY <1>1, <1>2, <1>3, PTL DEF FormatSpec

-----------------------------------------------------------------------------
(* The walk of an image.                                                   *)

DirItems == [name : Names, icb : Icbs, dir : BOOLEAN]
Inodes == [type : {"dir", "file", "short", "odd"}, list : Seq(DirItems)]
WalkSpec(Images) == WalkInit(Images) /\ [][WalkStep \/ HandleStep]_isoVars

IsDir(p) == Type(nodes[p]) = "dir"
ListOf(p) == image[nodes[p]].list
Waiting == {pending[k] : k \in 1 .. Len(pending)}
(* How many entries of a directory have been looked at.                    *)
Visited(p) ==
    CASE p \in Waiting -> 0
      [] p \notin Waiting /\ p = dirPath -> Len(ListOf(p)) - Len(list)
      [] p \notin Waiting /\ p # dirPath -> Len(ListOf(p))

Shape ==
    /\ image \in [Icbs -> Inodes]
    /\ DOMAIN nodes \subseteq Seq(Names) /\ IsFiniteSet(DOMAIN nodes)
    /\ nodes \in [DOMAIN nodes -> Icbs]
    /\ <<>> \in DOMAIN nodes /\ nodes[<<>>] = RootIcb
    /\ seen = {nodes[p] : p \in DOMAIN nodes}
    /\ entries \in Nat
    /\ pending \in Seq(Seq(Names)) /\ Waiting \subseteq DOMAIN nodes
    /\ list \in Seq(DirItems) /\ dirPath \in DOMAIN nodes
    /\ walked \in {"no", "accepted", "refused"}

(* A place waits once, and only the root may wait and be no directory.     *)
Queue ==
    /\ \A k, l \in 1 .. Len(pending) : pending[k] = pending[l] => k = l
    /\ \A p \in DOMAIN nodes :
         /\ p # <<>> /\ p \in Waiting => IsDir(p)
         /\ p \notin Waiting => Type(nodes[p]) \in {"dir", "file"}
    /\ <<>> \notin Waiting => IsDir(<<>>)
    /\ walked = "accepted" => list = <<>> /\ pending = <<>>

(* The listing in hand is what is left of its directory's.                 *)
InHand ==
    /\ IF dirPath \in Waiting THEN list = <<>> ELSE IsDir(dirPath)
    /\ Len(list) <= Len(ListOf(dirPath))
    /\ \A k \in 1 .. Len(list) :
         list[k] = ListOf(dirPath)[Len(ListOf(dirPath)) - Len(list) + k]
    /\ folded = {Folds[ListOf(dirPath)[i].name] : i \in 1 .. Visited(dirPath)}

(* The nodes are the root and the entries looked at, each once.            *)
EntriesAreNodes ==
    \A p \in DOMAIN nodes : IsDir(p) =>
        \A i \in 1 .. Visited(p) :
            /\ Append(p, ListOf(p)[i].name) \in DOMAIN nodes
            /\ nodes[Append(p, ListOf(p)[i].name)] = ListOf(p)[i].icb
NodesAreEntries ==
    \A q \in DOMAIN nodes : q # <<>> =>
        /\ Front(q) \in DOMAIN nodes /\ IsDir(Front(q))
        /\ \E i \in 1 .. Visited(Front(q)) :
             ListOf(Front(q))[i].name = Last(q) /\ ListOf(Front(q))[i].icb = nodes[q]
Distinct ==
    \A p, q \in DOMAIN nodes : p # q => nodes[p] # nodes[q] /\ FoldPath(p) # FoldPath(q)

(* The entries counted are those of the directories listed.                *)
Done == {nodes[p] : p \in {p \in DOMAIN nodes : p \notin Waiting /\ IsDir(p)}}
Counting(D) == UNION {{d} \X (1 .. Len(image[d].list)) : d \in D}
Counts ==
    /\ IsFiniteSet(Counting(Done)) /\ Cardinality(Counting(Done)) = entries
    /\ Cardinality(DOMAIN nodes) + Len(list) <= entries + 1
    /\ entries <= MaxEntries
    /\ \A p \in DOMAIN nodes : Len(p) <= MaxDepth /\ Len(p) + 1 <= Cardinality(seen)
    /\ seen \subseteq Reached

Refusal == walked = "refused" => ~ProperTree
WalkInv ==
    /\ Shape /\ Queue /\ InHand /\ EntriesAreNodes /\ NodesAreEntries /\ Distinct
    /\ Counts /\ Refusal

(* A path and its last name.                                               *)
LEMMA Deeper ==
    ASSUME NEW p \in Seq(Names), NEW n \in Names
    PROVE  /\ Append(p, n) \in Seq(Names) /\ Append(p, n) # <<>>
           /\ Front(Append(p, n)) = p /\ Last(Append(p, n)) = n
           /\ Len(Append(p, n)) = Len(p) + 1 /\ Len(p) \in Nat
BY DEF Front, Last

(* A path that is not empty is its last name, appended to the rest.        *)
LEMMA Higher ==
    ASSUME NEW q \in Seq(Names), q # <<>>
    PROVE  /\ q = Append(Front(q), Last(q)) /\ Front(q) \in Seq(Names) /\ Last(q) \in Names
           /\ Len(q) = Len(Front(q)) + 1 /\ Len(Front(q)) \in Nat
<1>1. PICK s \in Seq(Names), n \in Names : q = Append(s, n)
    BY SequenceEmptyOrAppend
<1> QED
    BY <1>1, Deeper

(* Two paths that fold alike fold alike at each level.                     *)
LEMMA FoldLevels ==
    ASSUME NEW p \in Seq(Names), NEW q \in Seq(Names), p # <<>>, FoldPath(p) = FoldPath(q)
    PROVE  /\ q # <<>> /\ FoldPath(Front(p)) = FoldPath(Front(q))
           /\ Folds[Last(p)] = Folds[Last(q)]
<1>1. DOMAIN p = 1 .. Len(p) /\ DOMAIN q = 1 .. Len(q) /\ Len(p) \in Nat \ {0} /\ Len(q) \in Nat
    BY LenProperties, EmptySeq
<1>2. DOMAIN FoldPath(p) = DOMAIN p /\ DOMAIN FoldPath(q) = DOMAIN q
    BY DEF FoldPath
<1>3. Len(p) = Len(q)
  <2>1. \A i : i \in 1 .. Len(p) <=> i \in 1 .. Len(q)
      BY <1>1, <1>2
  <2>2. Len(p) \in 1 .. Len(q)
      BY <1>1, <2>1
  <2>3. Len(q) \in 1 .. Len(p)
      BY <1>1, <2>1, <2>2
  <2>4. \A m, n \in Nat : m \in 1 .. n /\ n \in 1 .. m => m = n
      OBVIOUS
  <2> QED
      BY <1>1, <2>2, <2>3, <2>4
<1>4. q # <<>>
    BY <1>1, <1>3, EmptySeq
<1>5. \A i \in 1 .. Len(p) : Folds[p[i]] = Folds[q[i]]
  <2>1. \A i \in 1 .. Len(p) : FoldPath(p)[i] = Folds[p[i]] /\ FoldPath(q)[i] = Folds[q[i]]
      BY <1>1, <1>3 DEF FoldPath
  <2> QED
      BY <2>1
<1>6. Folds[Last(p)] = Folds[Last(q)]
    BY <1>1, <1>3, <1>5 DEF Last
<1>7. /\ Len(Front(p)) = Len(p) - 1 /\ Len(Front(q)) = Len(p) - 1
      /\ \A i \in 1 .. Len(p) - 1 : Front(p)[i] = p[i] /\ Front(q)[i] = q[i]
      /\ Front(p) \in Seq(Names) /\ Front(q) \in Seq(Names)
    BY <1>1, <1>3, SubSeqProperties DEF Front
<1>8. DOMAIN Front(p) = 1 .. Len(p) - 1 /\ DOMAIN Front(q) = 1 .. Len(p) - 1
    BY <1>7, LenProperties
<1>9. \A i \in 1 .. Len(p) - 1 : Folds[Front(p)[i]] = Folds[Front(q)[i]]
    BY <1>1, <1>5, <1>7
<1>10. FoldPath(Front(p)) = FoldPath(Front(q))
    BY <1>8, <1>9 DEF FoldPath
<1> QED
    BY <1>4, <1>6, <1>10

(* What is reached is closed under listing.                                *)
LEMMA ReachedIsClosed ==
    ASSUME image \in [Icbs -> Inodes]
    PROVE  /\ RootIcb \in Reached /\ Reached \subseteq Icbs /\ IsFiniteSet(Reached)
           /\ \A d \in Reached : Type(d) = "dir" =>
                \A i \in 1 .. Len(image[d].list) : image[d].list[i].icb \in Reached
<1>1. RootIcb \in Icbs
    BY IcbsAssumption DEF RootIcb
<1>2. RootIcb \in Reached /\ Reached \subseteq Icbs
    BY <1>1 DEF Reached, ListsWithin
<1>3. IsFiniteSet(Reached)
    BY <1>2, IcbsAssumption, FS_Subset
<1>4. ASSUME NEW d \in Reached, Type(d) = "dir", NEW i \in 1 .. Len(image[d].list)
      PROVE  image[d].list[i].icb \in Reached
  <2>1. image[d].list \in Seq(DirItems)
      BY <1>2 DEF Inodes
  <2>2. DOMAIN image[d].list = 1 .. Len(image[d].list) /\ image[d].list[i] \in DirItems
      BY <2>1, LenProperties, ElementOfSeq
  <2>3. image[d].list[i] \in EntriesOf(d) /\ image[d].list[i].icb \in Icbs
      BY <2>2 DEF EntriesOf, DirItems
  <2> QED
      BY <1>4, <2>3 DEF Reached, ListsWithin
<1> QED
    BY <1>2, <1>3, <1>4


(* The entries of one directory, counted.                                  *)
LEMMA CountOne ==
    ASSUME NEW d, NEW n \in Nat
    PROVE  IsFiniteSet({d} \X (1 .. n)) /\ Cardinality({d} \X (1 .. n)) = n
<1> DEFINE f == [i \in 1 .. n |-> <<d, i>>]
<1>1. f \in Bijection(1 .. n, {d} \X (1 .. n))
  <2>1. f \in [1 .. n -> {d} \X (1 .. n)] /\ \A i \in 1 .. n : f[i] = <<d, i>>
      OBVIOUS
  <2>2. \A a, b \in 1 .. n : f[a] = f[b] => a = b
      BY <2>1
  <2>3. \A t \in {d} \X (1 .. n) : \E s \in 1 .. n : f[s] = t
      BY <2>1
  <2> QED
      BY <2>1, <2>2, <2>3 DEF Bijection, Injection, Surjection, IsInjective
<1>2. ExistsBijection(1 .. n, {d} \X (1 .. n))
    BY <1>1 DEF ExistsBijection
<1>3. IsFiniteSet(1 .. n) /\ Cardinality(1 .. n) = n
    BY FS_Interval
<1> QED
    BY <1>2, <1>3, FS_Bijection

(* Two sets with nothing in common, counted together.                      *)
LEMMA CountMore ==
    ASSUME NEW S, NEW T, IsFiniteSet(S), IsFiniteSet(T), S \cap T = {}
    PROVE  IsFiniteSet(S \cup T) /\ Cardinality(S \cup T) = Cardinality(S) + Cardinality(T)
<1>1. Cardinality(S \cap T) = 0
    BY FS_EmptySet
<1>2. Cardinality(S) \in Nat /\ Cardinality(T) \in Nat
    BY FS_CardinalityType
<1>3. /\ IsFiniteSet(S \cup T)
      /\ Cardinality(S \cup T) = Cardinality(S) + Cardinality(T) - Cardinality(S \cap T)
    BY FS_Union
<1> QED
    BY <1>1, <1>2, <1>3

(* The listing of a node.                                                  *)
LEMMA Listing ==
    ASSUME Shape, NEW p \in DOMAIN nodes
    PROVE  /\ nodes[p] \in Icbs /\ ListOf(p) \in Seq(DirItems) /\ Len(ListOf(p)) \in Nat
           /\ DOMAIN ListOf(p) = 1 .. Len(ListOf(p))
           /\ \A i \in 1 .. Len(ListOf(p)) : ListOf(p)[i] \in DirItems
<1>1. nodes[p] \in Icbs
    BY DEF Shape
<1>2. image[nodes[p]] \in Inodes
    BY <1>1 DEF Shape
<1>3. ListOf(p) \in Seq(DirItems)
    BY <1>2 DEF ListOf, Inodes
<1> QED
    BY <1>1, <1>3, LenProperties, ElementOfSeq

(* How far each listing has got.                                           *)
LEMMA Seen ==
    ASSUME Shape, InHand, NEW p \in DOMAIN nodes
    PROVE  Visited(p) \in 0 .. Len(ListOf(p)) /\ Len(list) \in Nat
<1>1. Len(ListOf(p)) \in Nat /\ Len(list) \in Nat
    BY Listing, LenProperties DEF Shape
<1>2. CASE p \in Waiting
    BY <1>1, <1>2 DEF Visited
<1>3. CASE p \notin Waiting /\ p = dirPath
    BY <1>1, <1>3 DEF Visited, InHand
<1>4. CASE p \notin Waiting /\ p # dirPath
    BY <1>1, <1>4 DEF Visited
<1> QED
    BY <1>2, <1>3, <1>4

(* At first there is the root, yet to be listed.                           *)
LEMMA WalkStarts ==
    ASSUME NEW Images, Images \subseteq [Icbs -> Inodes], WalkInit(Images)
    PROVE  WalkInv
<1>1. /\ image \in [Icbs -> Inodes] /\ DOMAIN nodes = {<<>>} /\ nodes[<<>>] = RootIcb
      /\ nodes = [p \in {<<>>} |-> RootIcb] /\ seen = {RootIcb} /\ entries = 0
      /\ pending = << <<>> >> /\ list = <<>> /\ dirPath = <<>> /\ folded = {}
      /\ walked = "no"
    BY DEF WalkInit
<1>2. Waiting = {<<>>} /\ Len(pending) = 1 /\ pending[1] = <<>> /\ pending \in Seq(Seq(Names))
  <2>1. <<>> \in Seq(Names)
      BY EmptySeq
  <2>2. Len(<< <<>> >>) = 1 /\ << <<>> >>[1] = <<>>
      OBVIOUS
  <2> QED
      BY <1>1, <2>1, <2>2 DEF Waiting
<1>3. RootIcb \in Icbs
    BY IcbsAssumption DEF RootIcb
<1>4. Len(list) = 0 /\ list \in Seq(DirItems) /\ <<>> \in Seq(Names) /\ Len(<<>>) = 0
    BY <1>1, EmptySeq
<1>5. IsFiniteSet({<<>>}) /\ Cardinality({<<>>}) = 1 /\ Cardinality({RootIcb}) = 1
    BY FS_Singleton
<1>6. Shape
    BY <1>1, <1>2, <1>3, <1>4, <1>5 DEF Shape
<1>7. Queue
    BY <1>1, <1>2 DEF Queue
<1>8. Visited(<<>>) = 0
    BY <1>2 DEF Visited
<1>9. InHand
  <2>1. Len(ListOf(<<>>)) \in Nat
      BY <1>1, <1>6, Listing
  <2>2. 1 .. Visited(dirPath) = {}
      BY <1>1, <1>8
  <2> QED
      BY <1>1, <1>2, <1>4, <2>1, <2>2 DEF InHand
<1>10. EntriesAreNodes
    BY <1>1, <1>8 DEF EntriesAreNodes
<1>11. NodesAreEntries /\ Distinct
    BY <1>1 DEF NodesAreEntries, Distinct
<1>12. Counts
  <2>1. Done = {} /\ Counting(Done) = {}
      BY <1>1, <1>2 DEF Done, Counting
  <2>2. IsFiniteSet(Counting(Done)) /\ Cardinality(Counting(Done)) = 0
      BY <2>1, FS_EmptySet
  <2>3. seen \subseteq Reached
      BY <1>1, ReachedIsClosed
  <2> QED
      BY <1>1, <1>4, <1>5, <2>2, <2>3, LimitsAssumption DEF Counts
<1> QED
    BY <1>1, <1>6, <1>7, <1>9, <1>10, <1>11, <1>12 DEF WalkInv, Refusal


(* Listing a directory that is one and fits.                               *)
LEMMA ListGoes ==
    ASSUME WalkInv, ListDirectory, walked' # "refused"
    PROVE  WalkInv'
<1> PICK d : d = Head(pending)
    OBVIOUS
<1>1. /\ walked = "no" /\ list = <<>> /\ pending # <<>>
      /\ Type(nodes[d]) = "dir" /\ entries + Len(ListOf(d)) <= MaxEntries
      /\ entries' = entries + Len(ListOf(d)) /\ list' = ListOf(d) /\ dirPath' = d
      /\ folded' = {} /\ pending' = Tail(pending)
      /\ nodes' = nodes /\ seen' = seen /\ walked' = walked /\ image' = image
    BY DEF ListDirectory, Refuse, ListOf
<1>2. Shape /\ Queue /\ InHand /\ EntriesAreNodes /\ NodesAreEntries /\ Distinct /\ Counts
    BY DEF WalkInv
<1>3. /\ Len(pending) \in Nat \ {0} /\ Len(pending') = Len(pending) - 1
      /\ \A k \in 1 .. Len(pending) - 1 : pending'[k] = pending[k + 1]
      /\ pending' \in Seq(Seq(Names)) /\ d = pending[1]
    BY <1>1, <1>2, LenProperties, HeadTailProperties, EmptySeq DEF Shape
<1>4. d \in Waiting /\ d \in DOMAIN nodes
  <2>1. 1 \in 1 .. Len(pending)
      BY <1>3
  <2>2. d \in Waiting
      BY <1>3, <2>1 DEF Waiting
  <2> QED
      BY <1>2, <2>2 DEF Shape
<1>5. /\ Waiting' = Waiting \ {d}
      /\ \A k, l \in 1 .. Len(pending') : pending'[k] = pending'[l] => k = l
  <2>1. \A k, l \in 1 .. Len(pending) : pending[k] = pending[l] => k = l
      BY <1>2 DEF Queue
  <2>2. Waiting' \subseteq Waiting \ {d}
    <3>1. SUFFICES ASSUME NEW k \in 1 .. Len(pending) - 1
                   PROVE  pending'[k] \in Waiting \ {d}
        BY <1>3 DEF Waiting
    <3>2. k + 1 \in 1 .. Len(pending) /\ k + 1 # 1 /\ 1 \in 1 .. Len(pending)
        BY <1>3
    <3> QED
        BY <1>3, <2>1, <3>2 DEF Waiting
  <2>3. ASSUME NEW p \in Waiting \ {d} PROVE p \in Waiting'
    <3>1. PICK k \in 1 .. Len(pending) : p = pending[k]
        BY DEF Waiting
    <3>2. k # 1 /\ k - 1 \in 1 .. Len(pending) - 1 /\ pending'[k - 1] = pending[(k - 1) + 1]
        BY <1>3, <2>3, <3>1
    <3>3. (k - 1) + 1 = k
        BY <1>3
    <3> QED
        BY <1>3, <3>1, <3>2, <3>3 DEF Waiting
  <2>4. ASSUME NEW k \in 1 .. Len(pending'), NEW l \in 1 .. Len(pending'),
               pending'[k] = pending'[l]
        PROVE  k = l
    <3>1. /\ pending[k + 1] = pending[l + 1] /\ k + 1 \in 1 .. Len(pending)
          /\ l + 1 \in 1 .. Len(pending) /\ k \in Int /\ l \in Int
        BY <1>3, <2>4
    <3>2. k + 1 = l + 1
        BY <2>1, <3>1
    <3> QED
        BY <3>1, <3>2
  <2> QED
      BY <2>2, <2>3, <2>4
<1>6. ListOf(d) \in Seq(DirItems) /\ Len(ListOf(d)) \in Nat
    BY <1>2, <1>4, Listing
<1>7. Shape'
    BY <1>1, <1>2, <1>3, <1>4, <1>5, <1>6 DEF Shape
<1>8. \A p \in DOMAIN nodes : ListOf(p)' = ListOf(p) /\ (IsDir(p)' <=> IsDir(p))
    BY <1>1 DEF ListOf, IsDir, Type
<1>9. \A p \in DOMAIN nodes : Visited(p)' = Visited(p)
  <2> SUFFICES ASSUME NEW p \in DOMAIN nodes PROVE Visited(p)' = Visited(p)
      OBVIOUS
  <2>1. ListOf(p)' = ListOf(p) /\ ListOf(d)' = ListOf(d) /\ Len(ListOf(p)) \in Nat
      BY <1>2, <1>4, <1>8, Listing
  <2>2. Len(list) = 0
      BY <1>1, EmptySeq
  <2>3. CASE p = d
      BY <1>1, <1>4, <1>5, <1>6, <2>1, <2>3 DEF Visited
  <2>4. CASE p # d /\ p \in Waiting
      BY <1>5, <2>4 DEF Visited
  <2>5. CASE p # d /\ p \notin Waiting
      BY <1>1, <1>5, <2>1, <2>2, <2>5 DEF Visited
  <2> QED
      BY <2>3, <2>4, <2>5
<1>10. Queue'
  <2>1. \A p \in DOMAIN nodes : p \notin Waiting' => Type(nodes[p]) \in {"dir", "file"}
      BY <1>1, <1>2, <1>5 DEF Queue
  <2>2. <<>> \notin Waiting' => IsDir(<<>>)
      BY <1>1, <1>2, <1>5 DEF Queue, IsDir
  <2>3. \A p \in DOMAIN nodes : p # <<>> /\ p \in Waiting' => IsDir(p)
      BY <1>2, <1>5 DEF Queue
  <2>4. \A p : Type(nodes[p])' = Type(nodes[p]) /\ IsDir(p)' = IsDir(p)
      BY <1>1 DEF Type, IsDir
  <2> QED
      BY <1>1, <1>5, <2>1, <2>2, <2>3, <2>4 DEF Queue
<1>11. InHand'
  <2>1. d \notin Waiting' /\ IsDir(d)' /\ ListOf(d)' = ListOf(d)
      BY <1>1, <1>4, <1>5, <1>8 DEF IsDir
  <2>2. Visited(d)' = 0
      BY <1>4, <1>9 DEF Visited
  <2>3. 1 .. Visited(d)' = {}
      BY <2>2
  <2>4. \A k \in 1 .. Len(list') : list'[k] = ListOf(d)[Len(ListOf(d)) - Len(list') + k]
      BY <1>1, <1>6
  <2> QED
      BY <1>1, <1>6, <2>1, <2>3, <2>4 DEF InHand
<1>12. EntriesAreNodes'
    BY <1>1, <1>2, <1>8, <1>9 DEF EntriesAreNodes
<1>13. NodesAreEntries'
    BY <1>1, <1>2, <1>8, <1>9 DEF NodesAreEntries
<1>14. Distinct'
    BY <1>1, <1>2 DEF Distinct, FoldPath
<1>15. Counts'
  <2> DEFINE T == {nodes[d]} \X (1 .. Len(ListOf(d)))
  <2>1. IsFiniteSet(T) /\ Cardinality(T) = Len(ListOf(d))
      BY <1>6, CountOne
  <2>2. Done' = Done \cup {nodes[d]}
    <3>1. \A p : IsDir(p)' = IsDir(p)
        BY <1>1 DEF IsDir, Type
    <3>2. IsDir(d)
        BY <1>1 DEF IsDir
    <3> QED
        BY <1>1, <1>4, <1>5, <3>1, <3>2 DEF Done
  <2>3. nodes[d] \notin Done
      BY <1>2, <1>4 DEF Done, Distinct
  <2>4. Counting(Done') = Counting(Done) \cup T
      BY <2>2 DEF Counting, ListOf
  <2>5. Counting(Done)' = Counting(Done) \cup T
      BY <1>1, <2>4 DEF Counting
  <2>6. Counting(Done) \cap T = {}
      BY <2>3 DEF Counting
  <2>7. IsFiniteSet(Counting(Done)') /\ Cardinality(Counting(Done)') = entries + Len(ListOf(d))
      BY <1>2, <2>1, <2>5, <2>6, CountMore DEF Counts
  <2>8. Cardinality(DOMAIN nodes) <= entries + 1 /\ Cardinality(DOMAIN nodes) \in Nat
    <3>1. Len(list) = 0 /\ entries \in Nat
        BY <1>1, <1>2, EmptySeq DEF Shape
    <3>2. Cardinality(DOMAIN nodes) \in Nat
        BY <1>2, FS_CardinalityType DEF Shape
    <3> QED
        BY <1>2, <3>1, <3>2 DEF Counts
  <2>9. Reached' = Reached
      BY <1>1 DEF Reached, ListsWithin, Type, EntriesOf
  <2>10. Cardinality(DOMAIN nodes') + Len(list') <= entries' + 1
    <3>1. entries \in Nat
        BY <1>2 DEF Shape
    <3> QED
        BY <1>1, <1>6, <2>8, <3>1
  <2> QED
      BY <1>1, <1>2, <2>7, <2>9, <2>10 DEF Counts
<1> QED
    BY <1>1, <1>7, <1>10, <1>11, <1>12, <1>13, <1>14, <1>15 DEF WalkInv, Refusal


(* Looking at an entry that is as it should be.                            *)
LEMMA VisitGoes ==
    ASSUME WalkInv, VisitEntry, walked' # "refused"
    PROVE  WalkInv'
<1> PICK e : e = Head(list)
    OBVIOUS
<1> PICK D : D = dirPath
    OBVIOUS
<1> PICK P : P = Append(D, e.name)
    OBVIOUS
<1>1. /\ walked = "no" /\ list # <<>>
      /\ Folds[e.name] \notin folded /\ Len(P) - 1 < MaxDepth
      /\ e.icb \notin seen /\ Type(e.icb) \in {"dir", "file"} /\ (e.dir <=> Type(e.icb) = "dir")
      /\ nodes' = WithNode(P, e.icb) /\ seen' = seen \cup {e.icb}
      /\ folded' = folded \cup {Folds[e.name]}
      /\ pending' = IF e.dir THEN Append(pending, P) ELSE pending
      /\ list' = Tail(list) /\ entries' = entries /\ dirPath' = dirPath
      /\ walked' = walked /\ image' = image
    BY DEF VisitEntry, Refuse, NameFits, DepthFits, EntryReads, PathTo
<1>2. Shape /\ Queue /\ InHand /\ EntriesAreNodes /\ NodesAreEntries /\ Distinct /\ Counts
    BY DEF WalkInv
<1>3. /\ Len(list) \in Nat \ {0} /\ Len(list') = Len(list) - 1 /\ list' \in Seq(DirItems)
      /\ \A k \in 1 .. Len(list) - 1 : list'[k] = list[k + 1]
      /\ e = list[1] /\ e \in DirItems
    BY <1>1, <1>2, LenProperties, HeadTailProperties, EmptySeq DEF Shape
<1>4. /\ D \in DOMAIN nodes /\ D \in Seq(Names) /\ D \notin Waiting /\ IsDir(D)
      /\ Len(ListOf(D)) \in Nat /\ Len(list) <= Len(ListOf(D))
      /\ Visited(D) = Len(ListOf(D)) - Len(list) /\ Visited(D) + 1 \in 1 .. Len(ListOf(D))
      /\ ListOf(D)[Visited(D) + 1] = e
  <2>1. D \in DOMAIN nodes /\ D \in Seq(Names) /\ Len(ListOf(D)) \in Nat
      BY <1>2, Listing DEF Shape
  <2>2. D \notin Waiting /\ IsDir(D) /\ Len(list) <= Len(ListOf(D))
      BY <1>1, <1>2 DEF InHand
  <2>3. Visited(D) = Len(ListOf(D)) - Len(list)
      BY <2>2 DEF Visited
  <2>4. list[1] = ListOf(D)[Len(ListOf(D)) - Len(list) + 1]
      BY <1>2, <1>3 DEF InHand
  <2> QED
      BY <1>3, <2>1, <2>2, <2>3, <2>4
<1>5. /\ P \in Seq(Names) /\ P # <<>> /\ Front(P) = D /\ Last(P) = e.name
      /\ Len(P) = Len(D) + 1 /\ Len(D) \in Nat /\ P # D
  <2>1. e.name \in Names
      BY <1>3 DEF DirItems
  <2> QED
      BY <1>4, <2>1, Deeper
<1>6. ASSUME NEW q \in DOMAIN nodes, q # <<>>, Front(q) = D PROVE Folds[Last(q)] # Folds[e.name]
  <2>1. PICK i \in 1 .. Visited(D) : ListOf(D)[i].name = Last(q)
      BY <1>2, <1>6 DEF NodesAreEntries
  <2>2. Folds[Last(q)] \in folded
      BY <1>2, <2>1 DEF InHand
  <2> QED
      BY <1>1, <2>2
<1>7. P \notin DOMAIN nodes /\ P \notin Waiting
    BY <1>2, <1>5, <1>6 DEF Shape
<1>8. /\ DOMAIN nodes' = DOMAIN nodes \cup {P} /\ nodes'[P] = e.icb
      /\ \A p \in DOMAIN nodes : nodes'[p] = nodes[p]
    BY <1>1, <1>7 DEF WithNode
<1>9. /\ Waiting' = IF e.dir THEN Waiting \cup {P} ELSE Waiting
      /\ pending' \in Seq(Seq(Names))
      /\ \A k, l \in 1 .. Len(pending') : pending'[k] = pending'[l] => k = l
  <2>1. /\ pending \in Seq(Seq(Names)) /\ Len(pending) \in Nat
        /\ \A k, l \in 1 .. Len(pending) : pending[k] = pending[l] => k = l
        /\ \A k \in 1 .. Len(pending) : pending[k] # P
      BY <1>2, <1>7, LenProperties DEF Shape, Queue, Waiting
  <2>2. CASE e.dir
    <3>1. /\ pending' \in Seq(Seq(Names)) /\ Len(pending') = Len(pending) + 1
          /\ \A k \in 1 .. Len(pending) : pending'[k] = pending[k]
          /\ pending'[Len(pending) + 1] = P
        BY <1>1, <1>5, <2>1, <2>2, AppendProperties
    <3>2. \A k \in 1 .. Len(pending) + 1 : k \in 1 .. Len(pending) \/ k = Len(pending) + 1
        BY <2>1
    <3>3. \A k \in 1 .. Len(pending) : k \in 1 .. Len(pending) + 1
        BY <2>1
    <3>4. Len(pending) + 1 \in 1 .. Len(pending) + 1
        BY <2>1
    <3>5. Waiting' = Waiting \cup {P}
        BY <3>1, <3>2, <3>3, <3>4 DEF Waiting
    <3> QED
        BY <2>1, <2>2, <3>1, <3>2, <3>5
  <2>3. CASE ~e.dir
      BY <1>1, <2>1, <2>3 DEF Waiting
  <2> QED
      BY <2>2, <2>3
<1>10. /\ \A p \in DOMAIN nodes : ListOf(p)' = ListOf(p) /\ (IsDir(p)' <=> IsDir(p))
       /\ IsDir(P)' <=> e.dir
    BY <1>1, <1>8 DEF ListOf, IsDir, Type
<1>11. /\ \A p \in DOMAIN nodes : p # D => Visited(p)' = Visited(p)
       /\ Visited(D)' = Visited(D) + 1 /\ Visited(D) \in Nat
       /\ e.dir => Visited(P)' = 0
  <2>1. ASSUME NEW p \in DOMAIN nodes, p # D PROVE Visited(p)' = Visited(p)
    <3>1. ListOf(p)' = ListOf(p) /\ p # P /\ (p \in Waiting' <=> p \in Waiting) /\ p # dirPath'
        BY <1>1, <1>7, <1>9, <1>10, <2>1
    <3> QED
        BY <1>1, <2>1, <3>1 DEF Visited
  <2>2. Visited(D)' = Visited(D) + 1
    <3>1. ListOf(D)' = ListOf(D) /\ D \notin Waiting' /\ D = dirPath'
        BY <1>1, <1>4, <1>5, <1>9, <1>10
    <3>2. Visited(D)' = Len(ListOf(D)) - Len(list')
        BY <3>1 DEF Visited
    <3> QED
        BY <1>3, <1>4, <3>2
  <2>3. e.dir => Visited(P)' = 0
      BY <1>9 DEF Visited
  <2> QED
      BY <1>3, <1>4, <2>1, <2>2, <2>3
<1>12. Shape'
  <2>1. e.icb \in Icbs
      BY <1>3 DEF DirItems
  <2>2. IsFiniteSet(DOMAIN nodes')
    <3>1. IsFiniteSet(DOMAIN nodes)
        BY <1>2 DEF Shape
    <3>2. IsFiniteSet(DOMAIN nodes \cup {P})
        BY <3>1, FS_AddElement
    <3> QED
        BY <1>8, <3>2
  <2>3. nodes' \in [DOMAIN nodes' -> Icbs]
    <3>1. nodes' = [q \in DOMAIN nodes \cup {P} |-> IF q = P THEN e.icb ELSE nodes[q]]
        BY <1>1 DEF WithNode
    <3>2. \A q \in DOMAIN nodes : nodes[q] \in Icbs
        BY <1>2 DEF Shape
    <3> QED
        BY <2>1, <3>1, <3>2
  <2>4. seen' = {nodes'[p] : p \in DOMAIN nodes'}
    <3>1. seen = {nodes[p] : p \in DOMAIN nodes}
        BY <1>2 DEF Shape
    <3>2. seen = {nodes'[p] : p \in DOMAIN nodes}
        BY <1>8, <3>1
    <3>3. seen' = seen \cup {e.icb} /\ DOMAIN nodes' = DOMAIN nodes \cup {P}
        BY <1>1, <1>8
    <3>4. nodes'[P] = e.icb
        BY <1>8
    <3>5. \A x : x \in seen' <=> \E p \in DOMAIN nodes \cup {P} : x = nodes'[p]
        BY <3>2, <3>3, <3>4
    <3> QED
        BY <3>3, <3>5
  <2>5. Waiting' \subseteq DOMAIN nodes'
      BY <1>2, <1>8, <1>9 DEF Shape
  <2> QED
      BY <1>1, <1>2, <1>3, <1>5, <1>7, <1>8, <1>9, <2>2, <2>3, <2>4, <2>5 DEF Shape
<1>13. Queue'
  <2>1. \A p \in DOMAIN nodes : Type(nodes[p])' = Type(nodes[p])
      BY <1>1, <1>8 DEF Type
  <2>2. Type(nodes[P])' \in {"dir", "file"} /\ (P \in Waiting' => IsDir(P)')
    <3>1. Type(nodes[P])' = Type(e.icb)
        BY <1>1, <1>8 DEF Type
    <3>2. P \in Waiting' => e.dir
        BY <1>7, <1>9
    <3> QED
        BY <1>1, <1>10, <3>1, <3>2
  <2>3. ASSUME NEW p \in DOMAIN nodes'
        PROVE  /\ p # <<>> /\ p \in Waiting' => IsDir(p)'
               /\ p \notin Waiting' => Type(nodes[p])' \in {"dir", "file"}
    <3>1. CASE p = P
        BY <2>2, <3>1
    <3>2. CASE p # P
      <4>1. p \in DOMAIN nodes /\ (p \in Waiting' <=> p \in Waiting)
          BY <1>8, <1>9, <3>2
      <4> QED
          BY <1>2, <1>10, <2>1, <4>1 DEF Queue
    <3> QED
        BY <3>1, <3>2
  <2>4. <<>> \notin Waiting' => IsDir(<<>>)'
    <3>1. <<>> \in DOMAIN nodes /\ (<<>> \in Waiting' <=> <<>> \in Waiting)
        BY <1>2, <1>5, <1>9 DEF Shape
    <3> QED
        BY <1>2, <1>10, <3>1 DEF Queue
  <2> QED
      BY <1>1, <1>9, <2>3, <2>4 DEF Queue
<1>14. InHand'
  <2>1. ListOf(D)' = ListOf(D) /\ D \notin Waiting' /\ IsDir(D)' /\ dirPath' = D
      BY <1>1, <1>4, <1>5, <1>9, <1>10
  <2>2. \A k \in 1 .. Len(list') :
           list'[k] = ListOf(D)[Len(ListOf(D)) - Len(list') + k]
    <3> SUFFICES ASSUME NEW k \in 1 .. Len(list')
                 PROVE  list'[k] = ListOf(D)[Len(ListOf(D)) - Len(list') + k]
        OBVIOUS
    <3>1. k + 1 \in 1 .. Len(list) /\ list'[k] = list[k + 1]
        BY <1>3
    <3>2. list[k + 1] = ListOf(D)[Len(ListOf(D)) - Len(list) + (k + 1)]
        BY <1>2, <3>1 DEF InHand
    <3>3. Len(ListOf(D)) - Len(list) + (k + 1) = Len(ListOf(D)) - Len(list') + k
        BY <1>3, <1>4
    <3> QED
        BY <3>1, <3>2, <3>3
  <2>3. folded' = {Folds[ListOf(D)[i].name] : i \in 1 .. Visited(D)'}
    <3>1. folded = {Folds[ListOf(D)[i].name] : i \in 1 .. Visited(D)}
        BY <1>2 DEF InHand
    <3>2. 1 .. Visited(D)' = (1 .. Visited(D)) \cup {Visited(D) + 1}
        BY <1>11
    <3>3. {Folds[ListOf(D)[i].name] : i \in 1 .. Visited(D)'}
            = {Folds[ListOf(D)[i].name] : i \in 1 .. Visited(D)}
              \cup {Folds[ListOf(D)[Visited(D) + 1].name]}
        BY <3>2
    <3> QED
        BY <1>1, <1>4, <3>1, <3>3
  <2>4. Len(list') <= Len(ListOf(D))
      BY <1>3, <1>4
  <2>5. ListOf(dirPath)' = ListOf(D)
      BY <1>1, <2>1 DEF ListOf
  <2>6. Visited(dirPath)' = Visited(D)' /\ IsDir(dirPath)'
      BY <2>1 DEF Visited, ListOf, IsDir
  <2> QED
      BY <2>1, <2>2, <2>3, <2>4, <2>5, <2>6 DEF InHand
<1>15. EntriesAreNodes'
  <2> SUFFICES ASSUME NEW p \in DOMAIN nodes', IsDir(p)', NEW i \in 1 .. Visited(p)'
               PROVE  /\ Append(p, ListOf(p)'[i].name) \in DOMAIN nodes'
                      /\ nodes'[Append(p, ListOf(p)'[i].name)] = ListOf(p)'[i].icb
      BY DEF EntriesAreNodes
  <2>1. CASE p = P
      BY <1>10, <1>11, <2>1
  <2>2. CASE p # P /\ ~(p = D /\ i = Visited(D) + 1)
    <3>1. p \in DOMAIN nodes /\ IsDir(p) /\ i \in 1 .. Visited(p) /\ ListOf(p)' = ListOf(p)
        BY <1>8, <1>10, <1>11, <2>2
    <3>2. /\ Append(p, ListOf(p)[i].name) \in DOMAIN nodes
          /\ nodes[Append(p, ListOf(p)[i].name)] = ListOf(p)[i].icb
        BY <1>2, <3>1 DEF EntriesAreNodes
    <3> QED
        BY <1>8, <3>1, <3>2
  <2>3. CASE p = D /\ i = Visited(D) + 1
      BY <1>4, <1>8, <1>10, <2>3
  <2> QED
      BY <2>1, <2>2, <2>3
<1>16. NodesAreEntries'
  <2> SUFFICES ASSUME NEW q \in DOMAIN nodes', q # <<>>
               PROVE  /\ Front(q) \in DOMAIN nodes' /\ IsDir(Front(q))'
                      /\ \E i \in 1 .. Visited(Front(q))' :
                            /\ ListOf(Front(q))'[i].name = Last(q)
                            /\ ListOf(Front(q))'[i].icb = nodes'[q]
      BY DEF NodesAreEntries
  <2>1. CASE q = P
    <3>1. /\ Visited(D) + 1 \in 1 .. Visited(D)' /\ ListOf(D)' = ListOf(D) /\ IsDir(D)'
          /\ D \in DOMAIN nodes'
        BY <1>4, <1>8, <1>10, <1>11
    <3>2. /\ ListOf(D)'[Visited(D) + 1].name = Last(q)
          /\ ListOf(D)'[Visited(D) + 1].icb = nodes'[q]
        BY <1>4, <1>5, <1>8, <2>1, <3>1
    <3>3. Front(q) = D
        BY <1>5, <2>1
    <3>4. \E i \in 1 .. Visited(D)' :
             ListOf(D)'[i].name = Last(q) /\ ListOf(D)'[i].icb = nodes'[q]
        BY <3>1, <3>2
    <3> QED
        BY <3>1, <3>3, <3>4
  <2>2. CASE q # P
    <3>1. PICK f : f = Front(q)
        OBVIOUS
    <3>2. q \in DOMAIN nodes /\ nodes'[q] = nodes[q]
        BY <1>8, <2>2
    <3>3. f \in DOMAIN nodes /\ IsDir(f)
        BY <1>2, <3>1, <3>2 DEF NodesAreEntries
    <3>4. PICK i \in 1 .. Visited(f) :
             ListOf(f)[i].name = Last(q) /\ ListOf(f)[i].icb = nodes[q]
        BY <1>2, <3>1, <3>2 DEF NodesAreEntries
    <3>5. ListOf(f)' = ListOf(f) /\ IsDir(f)' /\ f \in DOMAIN nodes' /\ i \in 1 .. Visited(f)'
        BY <1>8, <1>10, <1>11, <3>3
    <3> QED
        BY <3>1, <3>2, <3>4, <3>5
  <2> QED
      BY <2>1, <2>2
<1>17. Distinct'
  <2>1. ASSUME NEW q \in DOMAIN nodes PROVE nodes[q] # e.icb /\ FoldPath(q) # FoldPath(P)
    <3>1. nodes[q] # e.icb
        BY <1>1, <1>2 DEF Shape
    <3>2. ASSUME FoldPath(q) = FoldPath(P) PROVE FALSE
      <4>1. q \in Seq(Names)
          BY <1>2 DEF Shape
      <4>2. /\ q # <<>> /\ FoldPath(D) = FoldPath(Front(q))
            /\ Folds[e.name] = Folds[Last(q)]
          BY <1>5, <3>2, <4>1, FoldLevels
      <4>3. Front(q) \in DOMAIN nodes
          BY <1>2, <4>2 DEF NodesAreEntries
      <4>4. Front(q) = D
          BY <1>2, <1>4, <4>2, <4>3 DEF Distinct
      <4> QED
          BY <1>6, <4>2, <4>4
    <3> QED
        BY <3>1, <3>2
  <2> SUFFICES ASSUME NEW p \in DOMAIN nodes', NEW q \in DOMAIN nodes', p # q
               PROVE  nodes'[p] # nodes'[q] /\ FoldPath(p) # FoldPath(q)
      BY DEF Distinct, FoldPath
  <2>2. CASE p \in DOMAIN nodes /\ q \in DOMAIN nodes
      BY <1>2, <1>8, <2>2 DEF Distinct
  <2>3. CASE p = P \/ q = P
      BY <1>8, <2>1, <2>3
  <2> QED
      BY <1>8, <2>2, <2>3
<1>18. Counts'
  <2>1. Done' = Done /\ Counting(Done)' = Counting(Done)
    <3>1. \A p \in DOMAIN nodes' : p \notin Waiting' /\ IsDir(p)'
              <=> p \in DOMAIN nodes /\ p \notin Waiting /\ IsDir(p)
      <4> SUFFICES ASSUME NEW p \in DOMAIN nodes'
                   PROVE  p \notin Waiting' /\ IsDir(p)'
                            <=> p \in DOMAIN nodes /\ p \notin Waiting /\ IsDir(p)
          OBVIOUS
      <4>1. CASE p = P
          BY <1>7, <1>9, <1>10, <4>1
      <4>2. CASE p # P
          BY <1>8, <1>9, <1>10, <4>2
      <4> QED
          BY <4>1, <4>2
    <3>2. Done' = Done
        BY <1>8, <3>1 DEF Done
    <3> QED
        BY <1>1, <3>2 DEF Counting
  <2>2. /\ Cardinality(DOMAIN nodes') = Cardinality(DOMAIN nodes) + 1
        /\ Cardinality(DOMAIN nodes) \in Nat
    <3>1. IsFiniteSet(DOMAIN nodes)
        BY <1>2 DEF Shape
    <3>2. Cardinality(DOMAIN nodes \cup {P}) = Cardinality(DOMAIN nodes) + 1
        BY <1>7, <3>1, FS_AddElement
    <3> QED
        BY <1>8, <3>1, <3>2, FS_CardinalityType
  <2>3. Cardinality(seen') = Cardinality(seen) + 1 /\ Cardinality(seen) \in Nat
    <3>1. IsFiniteSet(seen)
      <4>1. seen \subseteq Icbs
          BY <1>2 DEF Shape
      <4> QED
          BY <4>1, IcbsAssumption, FS_Subset
    <3> QED
        BY <1>1, <3>1, FS_AddElement, FS_CardinalityType
  <2>4. seen' \subseteq Reached'
    <3>1. Reached' = Reached
        BY <1>1 DEF Reached, ListsWithin, Type, EntriesOf
    <3>2. nodes[D] \in Reached
        BY <1>2, <1>4 DEF Counts, Shape
    <3>3. e.icb \in Reached
        BY <1>2, <1>4, <3>2, ReachedIsClosed DEF Shape, IsDir, ListOf
    <3> QED
        BY <1>1, <1>2, <3>1, <3>3 DEF Counts
  <2>5. ASSUME NEW p \in DOMAIN nodes'
        PROVE  Len(p) <= MaxDepth /\ Len(p) + 1 <= Cardinality(seen')
    <3>1. CASE p = P
      <4>1. Len(D) + 1 <= Cardinality(seen)
          BY <1>2, <1>4 DEF Counts
      <4> QED
          BY <1>1, <1>5, <2>3, <3>1, <4>1, LimitsAssumption
    <3>2. CASE p \in DOMAIN nodes
      <4>1. Len(p) <= MaxDepth /\ Len(p) + 1 <= Cardinality(seen) /\ Len(p) \in Nat
          BY <1>2, <3>2, LenProperties DEF Counts, Shape
      <4> QED
          BY <2>3, <4>1
    <3> QED
        BY <1>8, <3>1, <3>2
  <2>6. Cardinality(DOMAIN nodes') + Len(list') <= entries' + 1
    <3>1. Cardinality(DOMAIN nodes) + Len(list) <= entries + 1 /\ entries \in Nat
        BY <1>2 DEF Counts, Shape
    <3> QED
        BY <1>1, <1>3, <2>2, <3>1
  <2> QED
      BY <1>1, <1>2, <2>1, <2>4, <2>5, <2>6 DEF Counts
<1> QED
    BY <1>1, <1>12, <1>13, <1>14, <1>15, <1>16, <1>17, <1>18 DEF WalkInv, Refusal


(* An entry of a proper tree, by its directory's node.                     *)
LEMMA InListed ==
    ASSUME Shape, Counts, ProperTree,
           NEW p \in DOMAIN nodes, IsDir(p), NEW i \in 1 .. Len(ListOf(p))
    PROVE  <<nodes[p], i>> \in Listed /\ EntryAt(<<nodes[p], i>>) = ListOf(p)[i]
<1>1. nodes[p] \in Reached /\ Type(nodes[p]) = "dir"
    BY DEF Shape, Counts, IsDir
<1>2. Len(ListOf(p)) <= MaxEntries /\ Len(ListOf(p)) \in Nat
    BY <1>1, Listing DEF ProperTree, ListOf
<1>3. i \in 1 .. MaxEntries
    BY <1>2, LimitsAssumption
<1>4. i \in DOMAIN image[nodes[p]].list
    BY Listing DEF ListOf
<1>5. <<nodes[p], i>> \in Listings
    BY <1>1, <1>3 DEF Listings
<1> QED
    BY <1>4, <1>5 DEF Listed, EntryAt, ListOf

(* What a proper tree lists can be counted.                                *)
LEMMA ListedIsFinite ==
    ASSUME Shape
    PROVE  IsFiniteSet(Listed)
<1>1. IsFiniteSet(Reached) /\ IsFiniteSet(1 .. MaxEntries)
  <2>1. IsFiniteSet(1 .. MaxEntries)
      BY FS_Interval, LimitsAssumption
  <2> QED
      BY <2>1, ReachedIsClosed DEF Shape
<1>2. IsFiniteSet(Reached \X (1 .. MaxEntries))
    BY <1>1, FS_Product
<1>3. Listed \subseteq Reached \X (1 .. MaxEntries)
    BY DEF Listed, Listings
<1> QED
    BY <1>2, <1>3, FS_Subset

(* A listing is refused if the root is no directory, or there is too much. *)
LEMMA ListingRefusedRightly ==
    ASSUME WalkInv, ListDirectory, walked' = "refused"
    PROVE  ~ProperTree
<1> SUFFICES ASSUME ProperTree PROVE FALSE
    OBVIOUS
<1> PICK d : d = Head(pending)
    OBVIOUS
<1>1. /\ pending # <<>>
      /\ Type(nodes[d]) # "dir" \/ ~(entries + Len(ListOf(d)) <= MaxEntries)
    BY DEF ListDirectory, ListOf
<1>2. Shape /\ Queue /\ InHand /\ Distinct /\ Counts
    BY DEF WalkInv
<1>3. d \in Waiting /\ d \in DOMAIN nodes
  <2>1. 1 \in 1 .. Len(pending) /\ d = pending[1]
      BY <1>1, <1>2, LenProperties, HeadTailProperties, EmptySeq DEF Shape
  <2>2. d \in Waiting
      BY <2>1 DEF Waiting
  <2> QED
      BY <1>2, <2>2 DEF Shape
<1>4. Type(nodes[d]) = "dir"
  <2>1. CASE d = <<>>
      BY <1>2, <2>1 DEF Shape, ProperTree
  <2>2. CASE d # <<>>
      BY <1>2, <1>3, <2>2 DEF Queue, IsDir
  <2> QED
      BY <2>1, <2>2
<1> DEFINE T == {nodes[d]} \X (1 .. Len(ListOf(d)))
           C == Counting(Done)
<1>5. Len(ListOf(d)) \in Nat /\ entries \in Nat
    BY <1>2, <1>3, Listing DEF Shape
<1>6. /\ IsFiniteSet(C \cup T)
      /\ Cardinality(C \cup T) = entries + Len(ListOf(d))
  <2>1. IsFiniteSet(T) /\ Cardinality(T) = Len(ListOf(d))
      BY <1>5, CountOne
  <2>2. nodes[d] \notin Done
      BY <1>2, <1>3 DEF Done, Distinct
  <2>3. C \cap T = {}
      BY <2>2 DEF Counting
  <2>4. IsFiniteSet(C) /\ Cardinality(C) = entries
      BY <1>2 DEF Counts
  <2> HIDE DEF C, T
  <2> QED
      BY <2>1, <2>3, <2>4, CountMore
<1>7. C \cup T \subseteq Listed
  <2>1. ASSUME NEW l \in T PROVE l \in Listed
    <3>1. PICK i \in 1 .. Len(ListOf(d)) : l = <<nodes[d], i>>
        OBVIOUS
    <3>2. IsDir(d)
        BY <1>4 DEF IsDir
    <3> QED
        BY <1>2, <1>3, <3>1, <3>2, InListed
  <2>2. ASSUME NEW l \in C PROVE l \in Listed
    <3>1. PICK p \in DOMAIN nodes : IsDir(p) /\ l \in {nodes[p]} \X (1 .. Len(ListOf(p)))
        BY DEF Counting, Done, ListOf
    <3>2. PICK i \in 1 .. Len(ListOf(p)) : l = <<nodes[p], i>>
        BY <3>1
    <3> QED
        BY <1>2, <3>1, <3>2, InListed
  <2> QED
      BY <2>1, <2>2
<1>8. IsFiniteSet(Listed) /\ Cardinality(Listed) \in Nat /\ Cardinality(Listed) <= MaxEntries
    BY <1>2, ListedIsFinite, FS_CardinalityType DEF ProperTree
<1>9. Cardinality(C \cup T) <= Cardinality(Listed)
  <2> HIDE DEF C, T
  <2> QED
      BY <1>7, <1>8, FS_Subset
<1> HIDE DEF C, T
<1> QED
    BY <1>1, <1>4, <1>5, <1>6, <1>8, <1>9, LimitsAssumption

(* An entry is refused for what it is: for its name, its place, or because *)
(* what it points to has been met or is not what it says.                  *)
LEMMA EntryRefusedRightly ==
    ASSUME WalkInv, VisitEntry, walked' = "refused"
    PROVE  ~ProperTree
<1> SUFFICES ASSUME ProperTree PROVE FALSE
    OBVIOUS
<1> PICK e : e = Head(list)
    OBVIOUS
<1> PICK D : D = dirPath
    OBVIOUS
<1>1. /\ walked = "no" /\ list # <<>>
      /\ \/ e.name \in BadNames
         \/ Folds[e.name] \in folded
         \/ ~(Len(Append(D, e.name)) - 1 < MaxDepth)
         \/ e.icb \in seen
         \/ ~EntryReads(e)
    BY DEF VisitEntry, NameFits, DepthFits, PathTo
<1>2. Shape /\ Queue /\ InHand /\ EntriesAreNodes /\ NodesAreEntries /\ Distinct /\ Counts
    BY DEF WalkInv
<1>3. Len(list) \in Nat \ {0} /\ e = list[1] /\ e \in DirItems
    BY <1>1, <1>2, LenProperties, HeadTailProperties, EmptySeq DEF Shape
<1>4. /\ D \in DOMAIN nodes /\ D \in Seq(Names) /\ IsDir(D)
      /\ Visited(D) \in Nat /\ Visited(D) + 1 \in 1 .. Len(ListOf(D))
      /\ ListOf(D)[Visited(D) + 1] = e
  <2>1. D \in DOMAIN nodes /\ D \in Seq(Names) /\ Len(ListOf(D)) \in Nat
      BY <1>2, Listing DEF Shape
  <2>2. D \notin Waiting /\ IsDir(D) /\ Len(list) <= Len(ListOf(D))
      BY <1>1, <1>2 DEF InHand
  <2>3. Visited(D) = Len(ListOf(D)) - Len(list)
      BY <2>2 DEF Visited
  <2>4. list[1] = ListOf(D)[Len(ListOf(D)) - Len(list) + 1]
      BY <1>2, <1>3 DEF InHand
  <2> QED
      BY <1>3, <2>1, <2>2, <2>3, <2>4
<1> PICK l : l = <<nodes[D], Visited(D) + 1>>
    OBVIOUS
<1>5. l \in Listed /\ EntryAt(l) = e
    BY <1>2, <1>4, InListed
<1>6. /\ e.name \notin BadNames /\ EntryReads(e) /\ e.icb # RootIcb
      /\ \A k \in Listed : k # l =>
           /\ EntryAt(k).icb # e.icb
           /\ k[1] = l[1] => Folds[EntryAt(k).name] # Folds[e.name]
    BY <1>5 DEF ProperTree
<1>7. ASSUME Folds[e.name] \in folded PROVE FALSE
  <2>1. PICK i \in 1 .. Visited(D) : Folds[ListOf(D)[i].name] = Folds[e.name]
      BY <1>2, <1>7 DEF InHand
  <2>2. i \in 1 .. Len(ListOf(D)) /\ i # Visited(D) + 1
      BY <1>2, <1>4, Listing
  <2>3. <<nodes[D], i>> \in Listed /\ EntryAt(<<nodes[D], i>>) = ListOf(D)[i]
      BY <1>2, <1>4, <2>2, InListed
  <2>4. <<nodes[D], i>> # l /\ <<nodes[D], i>>[1] = l[1]
      BY <2>2
  <2> QED
      BY <1>6, <2>1, <2>3, <2>4
<1>8. ASSUME e.icb \in seen PROVE FALSE
  <2>1. PICK q \in DOMAIN nodes : e.icb = nodes[q]
      BY <1>2, <1>8 DEF Shape
  <2>2. q # <<>>
      BY <1>2, <1>6, <2>1 DEF Shape
  <2>3. Front(q) \in DOMAIN nodes /\ IsDir(Front(q))
      BY <1>2, <2>2 DEF NodesAreEntries
  <2>4. PICK f \in DOMAIN nodes : f = Front(q)
      BY <2>3
  <2>5. PICK i \in 1 .. Visited(f) : ListOf(f)[i].icb = nodes[q]
      BY <1>2, <2>2, <2>4 DEF NodesAreEntries
  <2>6. i \in 1 .. Len(ListOf(f))
      BY <1>2, Seen, Listing
  <2>7. <<nodes[f], i>> \in Listed /\ EntryAt(<<nodes[f], i>>) = ListOf(f)[i]
      BY <1>2, <2>3, <2>4, <2>6, InListed
  <2>8. <<nodes[f], i>> # l
    <3>1. CASE f = D
      <4>1. i # Visited(D) + 1
          BY <1>4, <3>1
      <4> QED
          BY <4>1
    <3>2. CASE f # D
      <4>1. nodes[f] # nodes[D]
          BY <1>2, <1>4, <3>2 DEF Distinct
      <4> QED
          BY <4>1
    <3> QED
        BY <3>1, <3>2
  <2> QED
      BY <1>6, <2>1, <2>5, <2>7, <2>8
<1>9. ASSUME ~(Len(Append(D, e.name)) - 1 < MaxDepth), e.icb \notin seen PROVE FALSE
  <2>1. Len(Append(D, e.name)) = Len(D) + 1 /\ Len(D) \in Nat
      BY <1>3, <1>4, Deeper DEF DirItems
  <2>2. Len(D) >= MaxDepth /\ Len(D) + 1 <= Cardinality(seen)
      BY <1>2, <1>4, <1>9, <2>1, LimitsAssumption DEF Counts
  <2>3. nodes[D] \in Reached
      BY <1>2, <1>4 DEF Counts, Shape
  <2>4. e.icb \in Reached /\ IsFiniteSet(Reached)
      BY <1>2, <1>4, <2>3, ReachedIsClosed DEF Shape, IsDir, ListOf
  <2>5. seen \cup {e.icb} \subseteq Reached
      BY <1>2, <2>4 DEF Counts
  <2>6. IsFiniteSet(seen) /\ Cardinality(seen \cup {e.icb}) <= Cardinality(Reached)
      BY <2>4, <2>5, FS_Subset
  <2>7. Cardinality(seen \cup {e.icb}) = Cardinality(seen) + 1
      BY <1>9, <2>6, FS_AddElement
  <2>8. Cardinality(Reached) <= MaxDepth + 1
      BY DEF ProperTree
  <2>9. Cardinality(seen) \in Nat /\ Cardinality(Reached) \in Nat
      BY <2>4, <2>6, FS_CardinalityType
  <2> QED
      BY <2>1, <2>2, <2>6, <2>7, <2>8, <2>9, LimitsAssumption
<1> QED
    BY <1>1, <1>6, <1>7, <1>8, <1>9


(* The walk ends, or is not at work.                                       *)
LEMMA WalkRestsOrEnds ==
    ASSUME WalkInv, image' = image, UNCHANGED <<nodes, seen, entries, pending, list>>,
           UNCHANGED <<dirPath, folded>>,
           \/ walked' = walked
           \/ walked' = "refused" /\ ~ProperTree
           \/ walked' = "accepted" /\ list = <<>> /\ pending = <<>>
    PROVE  WalkInv'
<1>1. /\ Waiting' = Waiting /\ \A p : ListOf(p)' = ListOf(p) /\ IsDir(p)' = IsDir(p)
      /\ \A p : Visited(p)' = Visited(p) /\ Type(nodes[p])' = Type(nodes[p])
    BY DEF Waiting, ListOf, IsDir, Type, Visited
<1>2. Shape /\ Queue /\ InHand /\ EntriesAreNodes /\ NodesAreEntries /\ Distinct /\ Counts
    BY DEF WalkInv
<1>3. Reached' = Reached /\ (ProperTree' <=> ProperTree)
  <2>1. Reached' = Reached
      BY DEF Reached, ListsWithin, Type, EntriesOf
  <2>2. Listed' = Listed
      BY <2>1 DEF Listed, Listings, Type
  <2>3. \A l : EntryAt(l)' = EntryAt(l)
      BY DEF EntryAt
  <2>4. \A x : (EntryReads(x)' <=> EntryReads(x)) /\ Type(x)' = Type(x)
      BY DEF EntryReads, Type
  <2>5. \A d : Len(image[d].list)' = Len(image[d].list)
      OBVIOUS
  <2>6. ProperTree' <=> ProperTree
    <3>1. (Type(RootIcb) = "dir")' <=> Type(RootIcb) = "dir"
        BY DEF Type, RootIcb
    <3> QED
        BY <2>1, <2>2, <2>3, <2>4, <2>5, <3>1, ZenonT(30) DEF ProperTree
  <2> QED
      BY <2>1, <2>6
<1>4. Shape'
    BY <1>1, <1>2 DEF Shape
<1>5. Queue'
    BY <1>1, <1>2 DEF Queue, WalkInv
<1>6. InHand'
    BY <1>2 DEF InHand, Visited, Waiting, ListOf, IsDir, Type
<1>7. EntriesAreNodes'
    BY <1>1, <1>2 DEF EntriesAreNodes
<1>8. NodesAreEntries'
    BY <1>1, <1>2 DEF NodesAreEntries
<1>9. Distinct'
    BY <1>2 DEF Distinct, FoldPath
<1>10. Counts'
  <2>1. Done' = Done /\ Counting(Done)' = Counting(Done)
      BY <1>1 DEF Done, Counting
  <2> QED
      BY <1>2, <1>3, <2>1 DEF Counts
<1>11. Refusal'
    BY <1>3 DEF Refusal, WalkInv
<1> QED
    BY <1>4, <1>5, <1>6, <1>7, <1>8, <1>9, <1>10, <1>11 DEF WalkInv

(* Every step of the walk, refusals included, and every use of the image.  *)
LEMMA WalkGoes ==
    ASSUME WalkInv, [WalkStep \/ HandleStep]_isoVars
    PROVE  WalkInv'
<1>1. CASE ListDirectory
  <2>1. CASE walked' = "refused"
    <3>1. image' = image /\ UNCHANGED <<nodes, seen, entries, pending, list, dirPath, folded>>
        BY <1>1, <2>1 DEF ListDirectory, Refuse
    <3> QED
        BY <1>1, <2>1, <3>1, ListingRefusedRightly, WalkRestsOrEnds
  <2> QED
      BY <1>1, <2>1, ListGoes
<1>2. CASE VisitEntry
  <2>1. CASE walked' = "refused"
    <3>1. image' = image /\ UNCHANGED <<nodes, seen, entries, pending, list, dirPath, folded>>
        BY <1>2, <2>1 DEF VisitEntry, Refuse
    <3> QED
        BY <1>2, <2>1, <3>1, EntryRefusedRightly, WalkRestsOrEnds
  <2> QED
      BY <1>2, <2>1, VisitGoes
<1>3. CASE AcceptImage
    BY <1>3, WalkRestsOrEnds DEF AcceptImage
<1>4. CASE HandleStep \/ UNCHANGED isoVars
  <2>1. UNCHANGED <<image, walkVars>>
      BY <1>4 DEF HandleStep, OpenDirectory, ReadDir, isoVars
  <2> QED
      BY <2>1, WalkRestsOrEnds DEF walkVars
<1> QED
    BY <1>1, <1>2, <1>3, <1>4 DEF WalkStep

(* What is accepted is a tree.                                             *)
LEMMA AcceptedIsATree == WalkInv => TreeOrNothing
<1> SUFFICES ASSUME WalkInv PROVE TreeOrNothing
    OBVIOUS
<1>1. Shape /\ Queue /\ InHand /\ EntriesAreNodes /\ NodesAreEntries /\ Distinct /\ Counts
    BY DEF WalkInv
<1>2. walked = "refused" => ~ProperTree
    BY DEF WalkInv, Refusal
<1>3. SUFFICES ASSUME walked = "accepted"
               PROVE  /\ \A p, q \in DOMAIN nodes :
                           p # q => nodes[p] # nodes[q] /\ FoldPath(p) # FoldPath(q)
                      /\ \A p \in DOMAIN nodes :
                           /\ Len(p) <= MaxDepth /\ Type(nodes[p]) \in {"dir", "file"}
                           /\ p # <<>> => /\ Front(p) \in DOMAIN nodes
                                          /\ Type(nodes[Front(p)]) = "dir"
                           /\ Type(nodes[p]) = "dir" =>
                                \A e \in EntriesOf(nodes[p]) :
                                    /\ Append(p, e.name) \in DOMAIN nodes
                                    /\ nodes[Append(p, e.name)] = e.icb
                      /\ Cardinality(DOMAIN nodes) <= MaxEntries + 1
    BY <1>2 DEF TreeOrNothing
<1>4. list = <<>> /\ pending = <<>> /\ Len(list) = 0 /\ Waiting = {}
  <2>1. list = <<>> /\ pending = <<>>
      BY <1>1, <1>3 DEF Queue
  <2>2. 1 .. Len(pending) = {}
      BY <2>1, EmptySeq
  <2> QED
      BY <2>1, <2>2, EmptySeq DEF Waiting
<1>5. \A p \in DOMAIN nodes : Visited(p) = Len(ListOf(p))
    BY <1>1, <1>4, Listing DEF Visited
<1>6. Cardinality(DOMAIN nodes) <= MaxEntries + 1
  <2>1. Cardinality(DOMAIN nodes) \in Nat
      BY <1>1, FS_CardinalityType DEF Shape
  <2> QED
      BY <1>1, <1>4, <2>1, LimitsAssumption DEF Counts, Shape
<1>7. ASSUME NEW p \in DOMAIN nodes, Type(nodes[p]) = "dir", NEW e \in EntriesOf(nodes[p])
      PROVE  Append(p, e.name) \in DOMAIN nodes /\ nodes[Append(p, e.name)] = e.icb
  <2>1. PICK i \in DOMAIN ListOf(p) : e = ListOf(p)[i]
      BY DEF EntriesOf, ListOf
  <2>2. i \in 1 .. Visited(p)
      BY <1>1, <1>5, Listing
  <2> QED
      BY <1>1, <1>7, <2>1, <2>2 DEF EntriesAreNodes, IsDir
<1>8. \A p \in DOMAIN nodes :
         /\ Len(p) <= MaxDepth /\ Type(nodes[p]) \in {"dir", "file"}
         /\ p # <<>> => Front(p) \in DOMAIN nodes /\ Type(nodes[Front(p)]) = "dir"
    BY <1>1, <1>4 DEF Counts, Queue, NodesAreEntries, IsDir
<1> QED
    BY <1>1, <1>6, <1>7, <1>8 DEF Distinct

(* A finite set as a sequence.                                             *)
LEMMA SetAsSequence ==
    ASSUME NEW S, IsFiniteSet(S)
    PROVE  /\ SetToSeq(S) \in Seq(S) /\ Len(SetToSeq(S)) \in Nat
           /\ \A i, j \in 1 .. Len(SetToSeq(S)) : SetToSeq(S)[i] = SetToSeq(S)[j] => i = j
<1> DEFINE n == Cardinality(S)
<1>1. n \in Nat /\ \E f : f \in [1 .. n -> S] /\ IsInjective(f)
  <2>1. n \in Nat /\ ExistsBijection(1 .. n, S)
      BY FS_CardinalityType
  <2> QED
      BY <2>1 DEF ExistsBijection, Bijection, Injection
<1>2. SetToSeq(S) \in [1 .. n -> S] /\ IsInjective(SetToSeq(S))
  <2> HIDE DEF n
  <2> QED
      BY <1>1 DEF SetToSeq, n
<1>3. SetToSeq(S) \in Seq(S) /\ Len(SetToSeq(S)) = n
  <2> HIDE DEF n
  <2> QED
      BY <1>1, <1>2
<1>4. \A i, j \in 1 .. n : SetToSeq(S)[i] = SetToSeq(S)[j] => i = j
    BY <1>2 DEF IsInjective
<1> QED
    BY <1>1, <1>3, <1>4

(* The names of a directory in order, each once.                           *)
LEMMA SortedIsASequence ==
    ASSUME Shape, NEW dir
    PROVE  /\ Sorted(dir) \in Seq(Names) /\ Len(Sorted(dir)) \in Nat
           /\ \A i, j \in 1 .. Len(Sorted(dir)) : Sorted(dir)[i] = Sorted(dir)[j] => i = j
<1> DEFINE K == Kids(dir)
           S == {Last(p) : p \in K}
           f == [p \in K |-> Last(p)]
<1>1. K \subseteq DOMAIN nodes /\ IsFiniteSet(K)
  <2>1. K \subseteq DOMAIN nodes
      BY DEF Kids
  <2> QED
      BY <2>1, FS_Subset DEF Shape
<1>2. S \subseteq Names
  <2> SUFFICES ASSUME NEW p \in K PROVE Last(p) \in Names
      OBVIOUS
  <2>1. p \in Seq(Names) /\ p # <<>>
      BY DEF Kids, Shape
  <2> QED
      BY <2>1, Higher
<1>3. IsFiniteSet(S)
  <2>1. f \in Surjection(K, S)
      BY DEF Surjection
  <2> HIDE DEF K, S, f
  <2> QED
      BY <1>1, <2>1, FS_Surjection
<1>4. Sorted(dir) = SetToSeq(S)
    BY DEF Sorted
<1> HIDE DEF S
<1> QED
    BY <1>2, <1>3, <1>4, SetAsSequence


(* An open directory is listed up to its position.                         *)
Reading ==
    /\ handle # <<"none">> =>
         /\ walked = "accepted" /\ pos \in 0 .. Len(Sorted(handle))
         /\ pages = SubSeq(Sorted(handle), 1, pos)
         /\ atEnd => pos = Len(Sorted(handle))
    /\ handle = <<"none">> => pos = 0 /\ pages = <<>> /\ ~atEnd
OpenInv == WalkInv /\ Reading

(* Opening a directory and reading a page of it (isofs.go:464).            *)
LEMMA ReadingGoes ==
    ASSUME WalkInv, Reading, [WalkStep \/ HandleStep]_isoVars
    PROVE  Reading'
<1>1. CASE WalkStep
  <2>1. UNCHANGED handleVars /\ walked = "no"
      BY <1>1 DEF WalkStep, ListDirectory, VisitEntry, AcceptImage
  <2> QED
      BY <2>1 DEF Reading, handleVars
<1>2. CASE UNCHANGED isoVars
  <2>1. UNCHANGED <<handleVars, walked>> /\ \A dir : Sorted(dir)' = Sorted(dir)
      BY <1>2 DEF isoVars, walkVars, Sorted, Kids
  <2> QED
      BY <2>1 DEF Reading, handleVars
<1>3. CASE OpenDirectory
  <2>1. /\ walked' = "accepted" /\ pos' = 0 /\ pages' = <<>> /\ ~atEnd'
        /\ Shape'
      BY <1>3, WalkGoes DEF OpenDirectory, walkVars, Reading, HandleStep, WalkInv
  <2>2. PICK dir : dir = handle'
      OBVIOUS
  <2>3. Len(Sorted(dir)') \in Nat /\ SubSeq(Sorted(dir)', 1, 0) = <<>>
    <3>1. Sorted(dir)' = Sorted(dir)
        BY <1>3 DEF OpenDirectory, walkVars, Sorted, Kids
    <3>2. Len(Sorted(dir)) \in Nat /\ SubSeq(Sorted(dir), 1, 0) = <<>>
        BY SortedIsASequence, SubSeqEmpty DEF WalkInv
    <3> QED
        BY <3>1, <3>2
  <2>4. Sorted(handle)' = Sorted(dir)'
      BY <2>2 DEF Sorted, Kids
  <2> QED
      BY <2>1, <2>3, <2>4 DEF Reading
<1>4. ASSUME NEW count \in 0 .. 2, ReadDir(count) PROVE Reading'
  <2> PICK all : all = Sorted(handle)
      OBVIOUS
  <2> PICK n : n = PageEnd(count, all)
      OBVIOUS
  <2>1. /\ handle # <<"none">> /\ handle' = handle /\ walked' = walked
        /\ pages' = pages \o SubSeq(all, pos + 1, n) /\ pos' = n
        /\ atEnd' = (count > 0 /\ pos = Len(all)) /\ Sorted(handle)' = all
    <3>1. UNCHANGED <<nodes, walked, handle>>
        BY <1>4 DEF ReadDir, walkVars
    <3>2. Sorted(handle)' = Sorted(handle)
        BY <3>1 DEF Sorted, Kids
    <3> QED
        BY <1>4, <3>1, <3>2 DEF ReadDir
  <2>2. /\ walked = "accepted" /\ pos \in 0 .. Len(all) /\ pages = SubSeq(all, 1, pos)
      BY <2>1 DEF Reading
  <2>3. all \in Seq(Names) /\ Len(all) \in Nat
      BY SortedIsASequence DEF WalkInv
  <2>4. n \in pos .. Len(all) /\ (count > 0 /\ pos = Len(all) => n = Len(all))
      BY <1>4, <2>2, <2>3 DEF PageEnd
  <2>5. pages' = SubSeq(all, 1, n)
    <3>1. 1 \in 1 .. Len(all) + 1 /\ pos \in 1 - 1 .. Len(all)
        BY <2>2, <2>3
    <3> QED
        BY <2>1, <2>2, <2>3, <2>4, <3>1, ConcatAdjacentSubSeq
  <2>6. n \in 0 .. Len(all)
      BY <2>2, <2>3, <2>4
  <2> QED
      BY <2>1, <2>2, <2>4, <2>5, <2>6 DEF Reading
<1> QED
    BY <1>1, <1>2, <1>3, <1>4 DEF HandleStep

(* What is read of a directory is its listing, in order, once.             *)
LEMMA PagesAreInOrder ==
    ASSUME WalkInv, Reading
    PROVE  PagesAreTheListing
<1> DEFINE all == Sorted(handle)
<1>1. CASE handle = <<"none">>
    BY <1>1 DEF Reading, PagesAreTheListing
<1>2. CASE handle # <<"none">>
  <2>1. /\ all \in Seq(Names) /\ Len(all) \in Nat
        /\ \A i, j \in 1 .. Len(all) : all[i] = all[j] => i = j
      BY SortedIsASequence DEF WalkInv
  <2>2. /\ pos \in 0 .. Len(all) /\ pages = SubSeq(all, 1, pos)
        /\ atEnd => pos = Len(all)
      BY <1>2 DEF Reading
  <2> HIDE DEF all
  <2>3. /\ pages \in Seq(Names) /\ Len(pages) = pos
        /\ \A i \in 1 .. pos : pages[i] = all[i]
    <3>1. \A i \in 1 .. pos : i \in 1 .. Len(all) /\ all[i] \in Names
        BY <2>1, <2>2, ElementOfSeq
    <3>2. pages \in Seq(Names) /\ Len(pages) = (IF 1 <= pos THEN pos - 1 + 1 ELSE 0)
        BY <2>2, <3>1, SubSeqProperties
    <3>3. \A i \in 1 .. pos - 1 + 1 : pages[i] = all[1 + i - 1]
        BY <2>2, <3>1, SubSeqProperties
    <3> QED
        BY <2>2, <3>2, <3>3
  <2>4. DOMAIN pages = 1 .. pos
      BY <2>3, LenProperties
  <2>5. \A i, j \in DOMAIN pages : pages[i] = pages[j] => i = j
    <3> SUFFICES ASSUME NEW i \in 1 .. pos, NEW j \in 1 .. pos, pages[i] = pages[j]
                 PROVE  i = j
        BY <2>4
    <3>1. i \in 1 .. Len(all) /\ j \in 1 .. Len(all)
        BY <2>1, <2>2
    <3>2. all[i] = all[j]
        BY <2>3
    <3> QED
        BY <2>1, <3>1, <3>2
  <2>6. atEnd => pages = all
      BY <2>1, <2>2, SubSeqFull
  <2> QED
      BY <2>5, <2>6 DEF PagesAreTheListing, all
<1> QED
    BY <1>1, <1>2

(* ImageIsATree (isofs.go:164, :150, :464): for every image with any       *)
(* number of entries, and any limits, what is accepted is a tree of all it *)
(* lists, within the limits and without two names that FAT32 confuses; a   *)
(* proper tree is not refused; and a directory reads as its listing.       *)
THEOREM ImagesAreTrees ==
    ASSUME NEW Images, Images \subseteq [Icbs -> Inodes]
    PROVE  WalkSpec(Images) => []ImageIsATree
<1>1. WalkInit(Images) => OpenInv
  <2> SUFFICES ASSUME WalkInit(Images) PROVE OpenInv
      OBVIOUS
  <2>1. WalkInv
      BY WalkStarts
  <2> QED
      BY <2>1 DEF OpenInv, Reading, WalkInit
<1>2. OpenInv /\ [WalkStep \/ HandleStep]_isoVars => OpenInv'
    BY WalkGoes, ReadingGoes DEF OpenInv
<1>3. OpenInv => ImageIsATree
    BY AcceptedIsATree, PagesAreInOrder DEF OpenInv, ImageIsATree
<1> QED
    BY <1>1, <1>2, <1>3, PTL DEF WalkSpec

-----------------------------------------------------------------------------
(* What an image is.                                                       *)

(* The least of a set of numbers.                                          *)
LEMMA FirstInIs ==
    ASSUME NEW at \in SUBSET Nat, at # {}
    PROVE  FirstIn(at) \in at /\ \A j \in at : FirstIn(at) <= j
<1> DEFINE R == {ss \in Nat \X Nat : ss[1] < ss[2]}
<1>1. IsWellFoundedOn(R, Nat)
    BY NatLessThanWellFounded, Zenon DEF OpToRel
<1>2. PICK i \in at : \A j \in at : ~ (<<j, i>> \in R)
    BY <1>1, WFMin
<1>3. \A j \in at : i <= j
  <2> SUFFICES ASSUME NEW j \in at PROVE i <= j
      OBVIOUS
  <2>1. <<j, i>> \in Nat \X Nat /\ <<j, i>>[1] = j /\ <<j, i>>[2] = i
      OBVIOUS
  <2>2. ~(j < i)
      BY <1>2, <2>1
  <2> QED
      BY <2>2
<1> QED
    BY <1>3 DEF FirstIn

(* Where all anchors found agree, whoever looks in whatever order finds    *)
(* the same.                                                               *)
LEMMA AnyOrder ==
    ASSUME Parsed(iso), NEW order \in [1 .. 3 -> {"256", "last-256", "last"}],
           NEW a, \A s \in DOMAIN iso.anchors : iso.anchors[s] \in {None, a}
    PROVE  FirstAnchor(order) \in {None, a}
<1> DEFINE there == {i \in DOMAIN order : iso.anchors[order[i]] # None}
<1>1. there \in SUBSET Nat
    OBVIOUS
<1>2. CASE there = {}
    BY <1>2 DEF FirstAnchor
<1>3. CASE there # {}
  <2>1. FirstIn(there) \in there
    <3> HIDE DEF there
    <3> QED
        BY <1>1, <1>3, FirstInIs
  <2>2. order[FirstIn(there)] \in DOMAIN iso.anchors
      BY <2>1 DEF Parsed
  <2>3. FirstAnchor(order) = iso.anchors[order[FirstIn(there)]]
      BY <1>3 DEF FirstAnchor
  <2> HIDE DEF there
  <2> QED
      BY <2>2, <2>3
<1> QED
    BY <1>2, <1>3

(* With one partition descriptor there is one root to start from.          *)
LEMMA OnePartition ==
    ASSUME NEW ds \in Seq(UdfDescriptorRecords), ReadUdf(ds) # None, RootIcbOf(ds) # None
    PROVE  ReadUdf(ds) = RootIcbOf(ds)
<1> DEFINE before == UpTo(ds, "end")
           lvds == Tagged(before, "volume")
           parts == Tagged(before, "partition")
           numbered(n) == {i \in parts : before[i].number = n}
<1>1. Cardinality(parts) = 1 /\ RootIcbOf(ds) = before[FirstIn(parts)].start
    BY DEF RootIcbOf
<1>2. /\ lvds # {} /\ \A i \in lvds : numbered(before[i].number) # {}
      /\ ReadUdf(ds) = before[LastIn(numbered(before[FirstIn(lvds)].number))].start
    BY DEF ReadUdf, UdfDescriptors
<1>3. before \in Seq(UdfDescriptorRecords)
  <2>1. CASE Tagged(ds, "end") = {}
      BY <2>1 DEF UpTo
  <2>2. CASE Tagged(ds, "end") # {}
    <3>1. DOMAIN ds = 1 .. Len(ds) /\ Len(ds) \in Nat
        OBVIOUS
    <3>2. FirstIn(Tagged(ds, "end")) \in 1 .. Len(ds)
      <4>1. Tagged(ds, "end") \subseteq 1 .. Len(ds) /\ 1 .. Len(ds) \subseteq Nat
          BY <3>1 DEF Tagged
      <4>2. FirstIn(Tagged(ds, "end")) \in Tagged(ds, "end")
          BY <2>2, <4>1, FirstInIs
      <4> QED
          BY <4>1, <4>2
    <3>3. before = SubSeq(ds, 1, FirstIn(Tagged(ds, "end")) - 1)
        BY <2>2 DEF UpTo
    <3>4. PICK k \in 1 .. Len(ds) : before = SubSeq(ds, 1, k - 1)
        BY <3>2, <3>3
    <3>5. \A i \in 1 .. k - 1 : i \in 1 .. Len(ds)
        BY <3>1
    <3> HIDE DEF before
    <3> QED
        BY <3>1, <3>4, <3>5, SubSeqProperties
  <2> QED
      BY <2>1, <2>2
<1>4. lvds \in SUBSET Nat /\ parts \in SUBSET Nat /\ IsFiniteSet(parts)
  <2>1. DOMAIN before = 1 .. Len(before) /\ Len(before) \in Nat
      BY <1>3
  <2>2. IsFiniteSet(1 .. Len(before))
      BY <2>1, FS_Interval
  <2> QED
      BY <2>1, <2>2, FS_Subset DEF Tagged
<1>5. FirstIn(lvds) \in lvds
  <2> HIDE DEF lvds
  <2> QED
      BY <1>2, <1>4, FirstInIs
<1>6. PICK p : parts = {p}
    BY <1>1, <1>4, FS_Singleton
<1>7. FirstIn(parts) = p
    BY <1>4, <1>6, FirstInIs
<1>8. numbered(before[FirstIn(lvds)].number) = {p}
    BY <1>2, <1>5, <1>6
<1>9. LastIn({p}) = p
    BY <1>4, <1>6 DEF LastIn
<1> QED
    BY <1>1, <1>2, <1>7, <1>8, <1>9

(* An image as the parsers see it has one root for both.                   *)
LEMMA ParsedHasOneRoot == ASSUME Parsed(iso) PROVE SameRoot
<1> SUFFICES ASSUME \A x, y \in {iso.anchors[s] : s \in DOMAIN iso.anchors} \ {None} : x = y,
                    UdfRoot # None, InstallerRoot # None
             PROVE  UdfRoot = InstallerRoot
    BY DEF SameRoot
<1> DEFINE a == FirstAnchor(AnchorOrder)
           b == FirstAnchor(<<"256", "last", "last-256">>)
<1>1. /\ a # None /\ UdfRoot = ReadUdf(iso.vds[a])
      /\ b # None /\ InstallerRoot = RootIcbOf(iso.vds[b])
    BY DEF UdfRoot, Pointed, InstallerRoot
<1>2. DOMAIN iso.anchors = {"256", "last-256", "last"}
    BY DEF Parsed
<1>3. PICK c \in DOMAIN iso.vds : \A s \in DOMAIN iso.anchors : iso.anchors[s] \in {None, c}
  <2>1. CASE \A s \in DOMAIN iso.anchors : iso.anchors[s] = None
    <3>1. a \in {None, None}
        BY <2>1, AnyOrder DEF AnchorOrder
    <3> QED
        BY <1>1, <3>1
  <2>2. CASE \E s \in DOMAIN iso.anchors : iso.anchors[s] # None
    <3>1. PICK s \in DOMAIN iso.anchors : iso.anchors[s] # None
        BY <2>2
    <3>2. iso.anchors[s] \in DOMAIN iso.vds
        BY <3>1 DEF Parsed
    <3> QED
        BY <3>1, <3>2
  <2> QED
      BY <2>1, <2>2
<1>4. a \in {None, c} /\ b \in {None, c}
    BY <1>3, AnyOrder DEF AnchorOrder
<1>5. a = c /\ b = c /\ iso.vds[c] \in Seq(UdfDescriptorRecords)
    BY <1>1, <1>3, <1>4 DEF Parsed
<1> HIDE DEF a, b
<1> QED
    BY <1>1, <1>5, OnePartition

(* One record more: it is summed into the last entry or is an entry of its *)
(* own.                                                                    *)
LEMMA AddRecordIs ==
    ASSUME NEW rec \in FileRecords, NEW es \in Seq(FileRecords)
    PROVE  /\ AddRecord(rec, es) \in Seq(FileRecords)
           /\ \/ /\ Len(es) > 0 /\ Len(AddRecord(rec, es)) = Len(es)
                 /\ es[Len(es)].multi /\ ~rec.dir /\ es[Len(es)].name = rec.name
                 /\ \A i \in 1 .. Len(es) - 1 : AddRecord(rec, es)[i] = es[i]
                 /\ AddRecord(rec, es)[Len(es)] =
                        [es[Len(es)] EXCEPT !.size = @ + rec.size, !.multi = rec.multi]
              \/ /\ ~Continues(es, rec)
                 /\ AddRecord(rec, es) = Append(es, rec)
<1>1. CASE Continues(es, rec)
  <2>1. /\ es # <<>> /\ Len(es) \in Nat /\ Len(es) > 0
        /\ es[Len(es)].multi /\ ~rec.dir /\ es[Len(es)].name = rec.name
      BY <1>1 DEF Continues, Last
  <2>2. PICK f : f = SubSeq(es, 1, Len(es) - 1)
      OBVIOUS
  <2>3. /\ f \in Seq(FileRecords) /\ Len(f) = Len(es) - 1
        /\ \A i \in 1 .. Len(es) - 1 : f[i] = es[i]
    <3> DEFINE m == Len(es) - 1
    <3>1. /\ 1 \in 1 .. Len(es) + 1 /\ m \in 1 - 1 .. Len(es) /\ m - 1 + 1 = m
          /\ \A i \in 1 .. m : 1 + i - 1 = i
        BY <2>1
    <3> HIDE DEF m
    <3>2. f = SubSeq(es, 1, m)
        BY <2>2 DEF m
    <3>3. /\ f \in Seq(FileRecords) /\ Len(f) = m
          /\ \A i \in 1 .. m : f[i] = es[i]
        BY <3>1, <3>2, SubSeqProperties
    <3> QED
        BY <3>3 DEF m
  <2> DEFINE e == [es[Len(es)] EXCEPT !.size = @ + rec.size, !.multi = rec.multi]
  <2>4. e \in FileRecords
    <3>1. PICK x \in FileRecords : x = es[Len(es)]
        BY <2>1
    <3>2. x.size + rec.size \in Nat /\ rec.multi \in BOOLEAN
        BY DEF FileRecords
    <3>3. e = [x EXCEPT !.size = x.size + rec.size, !.multi = rec.multi]
        BY <3>1
    <3> HIDE DEF e
    <3> QED
        BY <3>2, <3>3 DEF FileRecords
  <2>5. AddRecord(rec, es) = Append(f, e)
      BY <1>1, <2>2 DEF AddRecord, Front, Last
  <2> HIDE DEF e
  <2>6. /\ Append(f, e) \in Seq(FileRecords) /\ Len(Append(f, e)) = Len(es)
        /\ \A i \in 1 .. Len(es) - 1 : Append(f, e)[i] = f[i]
        /\ Append(f, e)[Len(es)] = e
      BY <2>1, <2>3, <2>4
  <2> QED
      BY <2>1, <2>3, <2>5, <2>6 DEF e
<1>2. CASE ~Continues(es, rec)
    BY <1>2 DEF AddRecord
<1> QED
    BY <1>1, <1>2

(* The entries after each record of a listing.                             *)
Entered(after, records) ==
    /\ after \in [0 .. Len(records) -> Seq(FileRecords)] /\ after[0] = <<>>
    /\ \A k \in 1 .. Len(records) : after[k] = AddRecord(records[k], after[k - 1])
EntriesTable(after, records) ==
    after = [k \in 0 .. Len(records) |->
                IF k = 0 THEN <<>> ELSE AddRecord(records[k], after[k - 1])]

(* DirEntries reads the last value of such a table.                        *)
LEMMA EntriesAreListed ==
    ASSUME NEW records \in Seq(FileRecords)
    PROVE  \E after : Entered(after, records) /\ DirEntries(records) = after[Len(records)]
<1> DEFINE A == Seq(FileRecords)
           n == Len(records)
           g == [k \in 1 .. n |-> [es \in A |-> AddRecord(records[k], es)]]
           T == CHOOSE after : EntriesTable(after, records)
<1>1. n \in Nat /\ <<>> \in A /\ \A k \in 1 .. n : records[k] \in FileRecords
    OBVIOUS
<1>2. g \in StepsTo(n, A)
    BY <1>1, AddRecordIs DEF StepsTo
<1>3. PICK f : FollowsTo(n, f, A, <<>>, g)
  <2> HIDE DEF n, A, g
  <2> QED
      BY <1>1, <1>2, RecursionTo
<1>4. /\ f \in [0 .. n -> A] /\ f[0] = <<>>
      /\ \A k \in 1 .. n : f[k] = AddRecord(records[k], f[k - 1])
  <2>1. f \in [0 .. n -> A] /\ f[0] = <<>> /\ \A k \in 1 .. n : f[k] = g[k][f[k - 1]]
    <3> HIDE DEF n, A, g
    <3> QED
        BY <1>3 DEF FollowsTo
  <2>2. \A k \in 1 .. n : f[k - 1] \in A
    <3>1. \A k \in 1 .. n : k - 1 \in 0 .. n
        BY <1>1
    <3> HIDE DEF n, A, g
    <3> QED
        BY <2>1, <3>1
  <2> QED
      BY <2>1, <2>2
<1>5. EntriesTable(f, records)
  <2>1. \A k \in 0 .. n : f[k] = IF k = 0 THEN <<>> ELSE AddRecord(records[k], f[k - 1])
    <3>1. \A k \in 0 .. n : k = 0 \/ k \in 1 .. n
        BY <1>1
    <3> HIDE DEF n, A, g
    <3> QED
        BY <1>4, <3>1
  <2>2. f = [k \in 0 .. n |-> f[k]]
      BY <1>4
  <2>3. f = [k \in 0 .. n |-> IF k = 0 THEN <<>> ELSE AddRecord(records[k], f[k - 1])]
    <3> HIDE DEF n, A, g
    <3> QED
        BY <2>1, <2>2
  <2> QED
      BY <2>3 DEF EntriesTable
<1>6. EntriesTable(T, records)
    BY <1>5
<1>7. DirEntries(records) = T[n]
    BY Zenon DEF DirEntries, EntriesTable
<1>8. T[0] = <<>> /\ \A k \in 1 .. n : T[k] = AddRecord(records[k], T[k - 1])
  <2>1. \A k \in 0 .. n : T[k] = IF k = 0 THEN <<>> ELSE AddRecord(records[k], T[k - 1])
    <3> HIDE DEF T
    <3> QED
        BY <1>6 DEF EntriesTable
  <2>2. 0 \in 0 .. n /\ \A k \in 1 .. n : k \in 0 .. n /\ k # 0
      BY <1>1
  <2> HIDE DEF T, n
  <2> QED
      BY <2>1, <2>2
<1>9. T \in [0 .. n -> A]
  <2> DEFINE S == {k \in 0 .. n : T[k] \in A}
  <2>1. 0 \in S
    <3> HIDE DEF T, A, n
    <3> QED
        BY <1>1, <1>8
  <2>2. ASSUME NEW k \in 1 .. n, k - 1 \in S PROVE k \in S
    <3> SUFFICES T[k] \in A
        OBVIOUS
    <3>1. T[k - 1] \in A
        BY <2>2
    <3> HIDE DEF T
    <3> QED
        BY <1>1, <1>8, <3>1, AddRecordIs
  <2>3. \A k \in 0 .. n : k \in S
    <3> HIDE DEF S, n
    <3> QED
        BY <1>1, <2>1, <2>2, AllUpTo
  <2>4. \A k \in 0 .. n : T[k] \in A
      BY <1>1, <2>3
  <2>5. T = [k \in 0 .. n |-> T[k]]
    <3> HIDE DEF T
    <3> QED
        BY <1>6 DEF EntriesTable
  <2> HIDE DEF T, A
  <2> QED
      BY <2>4, <2>5
<1>10. Entered(T, records)
  <2> HIDE DEF T
  <2> QED
      BY <1>8, <1>9 DEF Entered
<1> QED
    BY <1>7, <1>10

(* The running sum of the records of one name.                             *)
Summed(upTo, records, name) ==
    /\ upTo \in [0 .. Len(records) -> Nat] /\ upTo[0] = 0
    /\ \A k \in 1 .. Len(records) :
          upTo[k] = upTo[k - 1] + (IF records[k].name = name THEN records[k].size ELSE 0)
SumTable(upTo, records, name) ==
    upTo = [k \in 0 .. Len(records) |->
               IF k = 0 THEN 0
               ELSE upTo[k - 1] + (IF records[k].name = name THEN records[k].size ELSE 0)]

(* SizeOf reads the last value of such a sum.                              *)
LEMMA SizesAreSummed ==
    ASSUME NEW records \in Seq(FileRecords), NEW name
    PROVE  \E upTo : Summed(upTo, records, name) /\ SizeOf(records, name) = upTo[Len(records)]
<1> DEFINE n == Len(records)
           more(k) == IF records[k].name = name THEN records[k].size ELSE 0
           g == [k \in 1 .. n |-> [x \in Nat |-> x + more(k)]]
           T == CHOOSE upTo : SumTable(upTo, records, name)
<1>1. n \in Nat /\ \A k \in 1 .. n : records[k] \in FileRecords
    OBVIOUS
<1>2. \A k \in 1 .. n : more(k) \in Nat
    BY <1>1 DEF FileRecords
<1>3. g \in StepsTo(n, Nat)
  <2> HIDE DEF more, n
  <2> QED
      BY <1>2 DEF StepsTo
<1>4. PICK f : FollowsTo(n, f, Nat, 0, g)
  <2> HIDE DEF n, g
  <2>1. 0 \in Nat
      OBVIOUS
  <2> QED
      BY <1>1, <1>3, <2>1, RecursionTo
<1>5. /\ f \in [0 .. n -> Nat] /\ f[0] = 0
      /\ \A k \in 1 .. n : f[k] = f[k - 1] + more(k)
  <2>1. f \in [0 .. n -> Nat] /\ f[0] = 0 /\ \A k \in 1 .. n : f[k] = g[k][f[k - 1]]
    <3> HIDE DEF n, g
    <3> QED
        BY <1>4 DEF FollowsTo
  <2>2. \A k \in 1 .. n : f[k - 1] \in Nat
    <3>1. \A k \in 1 .. n : k - 1 \in 0 .. n
        BY <1>1
    <3> HIDE DEF n, g
    <3> QED
        BY <2>1, <3>1
  <2> HIDE DEF more, n
  <2> QED
      BY <2>1, <2>2
<1>6. SumTable(f, records, name)
  <2>1. \A k \in 0 .. n : f[k] = IF k = 0 THEN 0 ELSE f[k - 1] + more(k)
    <3>1. \A k \in 0 .. n : k = 0 \/ k \in 1 .. n
        BY <1>1
    <3> HIDE DEF n, more
    <3> QED
        BY <1>5, <3>1
  <2>2. f = [k \in 0 .. n |-> f[k]]
      BY <1>5
  <2>3. f = [k \in 0 .. n |-> IF k = 0 THEN 0 ELSE f[k - 1] + more(k)]
    <3> HIDE DEF n, more
    <3> QED
        BY <2>1, <2>2
  <2> QED
      BY <2>3 DEF SumTable
<1>7. SumTable(T, records, name)
    BY <1>6
<1>8. SizeOf(records, name) = T[n]
    BY Zenon DEF SizeOf, SumTable
<1>9. T[0] = 0 /\ \A k \in 1 .. n : T[k] = T[k - 1] + more(k)
  <2>1. \A k \in 0 .. n : T[k] = IF k = 0 THEN 0 ELSE T[k - 1] + more(k)
    <3> HIDE DEF T
    <3> QED
        BY <1>7 DEF SumTable
  <2>2. 0 \in 0 .. n /\ \A k \in 1 .. n : k \in 0 .. n /\ k # 0
      BY <1>1
  <2> HIDE DEF T, n, more
  <2> QED
      BY <2>1, <2>2
<1>10. T \in [0 .. n -> Nat]
  <2> DEFINE S == {k \in 0 .. n : T[k] \in Nat}
  <2>1. 0 \in S
    <3> HIDE DEF T, more, n
    <3> QED
        BY <1>1, <1>9
  <2>2. ASSUME NEW k \in 1 .. n, k - 1 \in S PROVE k \in S
    <3> SUFFICES T[k] \in Nat
        OBVIOUS
    <3>1. T[k - 1] \in Nat
        BY <2>2
    <3>2. T[k] = T[k - 1] + more(k) /\ more(k) \in Nat
      <4> HIDE DEF T, more, n
      <4> QED
          BY <1>2, <1>9
    <3> HIDE DEF T, more, n
    <3> QED
        BY <3>1, <3>2
  <2>3. \A k \in 0 .. n : k \in S
    <3> HIDE DEF S, n
    <3> QED
        BY <1>1, <2>1, <2>2, AllUpTo
  <2>4. \A k \in 0 .. n : T[k] \in Nat
      BY <1>1, <2>3
  <2>5. T = [k \in 0 .. n |-> T[k]]
    <3> HIDE DEF T
    <3> QED
        BY <1>7 DEF SumTable
  <2> HIDE DEF T
  <2> QED
      BY <2>4, <2>5
<1>11. Summed(T, records, name)
  <2> HIDE DEF T
  <2> QED
      BY <1>9, <1>10 DEF Summed
<1> QED
    BY <1>8, <1>11

Named(records, name) == {i \in DOMAIN records : records[i].name = name}

(* The records of one name, where they are no directories and follow one   *)
(* another with all but the last continued, make one entry of their whole  *)
(* size.                                                                   *)
LEMMA WholeFile ==
    ASSUME NEW records \in Seq(FileRecords), NEW name,
           Named(records, name) = {} \/ OneFile(records, name)
    PROVE  FirstOf(DirEntries(records), name) =
               IF Named(records, name) = {} THEN NoWim ELSE Found(SizeOf(records, name))
<1> DEFINE n == Len(records)
           at == Named(records, name)
<1>1. n \in Nat /\ at \subseteq 1 .. n
    BY DEF Named
<1>2. \A k \in 1 .. n : records[k] \in FileRecords /\ (k \in at <=> records[k].name = name)
    BY DEF Named
<1>3. \A i \in at : ~records[i].dir /\ \A j \in at : i < j => records[i].multi /\ i + 1 \in at
    BY DEF OneFile, Named
<1>4. PICK after : Entered(after, records) /\ DirEntries(records) = after[n]
    BY EntriesAreListed
<1>5. PICK sum : Summed(sum, records, name) /\ SizeOf(records, name) = sum[n]
    BY SizesAreSummed
<1> DEFINE NoEntry(es, s, k) ==
             /\ \A i \in at : i > k
             /\ \A p \in 1 .. Len(es) : es[p].name # name
             /\ s = 0
           OneEntry(es, s, k) == at # {} /\ \E p \in 1 .. Len(es) :
             /\ \A q \in 1 .. Len(es) : es[q].name = name <=> q = p
             /\ ~es[p].dir /\ es[p].size = s
             /\ \/ k \in at /\ p = Len(es) /\ es[p].multi = records[k].multi
                \/ k \notin at /\ \A i \in at : i < k
           S == {k \in 0 .. n : NoEntry(after[k], sum[k], k) \/ OneEntry(after[k], sum[k], k)}
<1> HIDE DEF at
<1>6. 0 \in S
    BY <1>1, <1>4, <1>5 DEF Entered, Summed
<1>7. ASSUME NEW k \in Nat, k + 1 <= n,
             NoEntry(after[k], sum[k], k) \/ OneEntry(after[k], sum[k], k)
      PROVE  \/ NoEntry(after[k + 1], sum[k + 1], k + 1)
             \/ OneEntry(after[k + 1], sum[k + 1], k + 1)
  <2>1. k \in 0 .. n /\ k + 1 \in 1 .. n /\ (k + 1) - 1 = k
      BY <1>1, <1>7
  <2>2. PICK es \in Seq(FileRecords) : es = after[k]
      BY <1>4, <2>1 DEF Entered
  <2>3. PICK rec \in FileRecords : rec = records[k + 1]
      BY <1>2, <2>1
  <2>4. PICK fs : fs = after[k + 1]
      OBVIOUS
  <2>5. fs = AddRecord(rec, es)
      BY <1>4, <2>1, <2>2, <2>3, <2>4 DEF Entered
  <2>6. PICK s \in Nat : s = sum[k]
      BY <1>5, <2>1 DEF Summed
  <2>7. /\ rec.size \in Nat
        /\ sum[k + 1] = IF k + 1 \in at THEN s + rec.size ELSE s
    <3>1. sum[k + 1] = s + (IF rec.name = name THEN rec.size ELSE 0)
        BY <1>5, <2>1, <2>3, <2>6 DEF Summed
    <3>2. rec.name = name <=> k + 1 \in at
        BY <1>2, <2>1, <2>3
    <3>3. rec.size \in Nat
        BY DEF FileRecords
    <3> QED
        BY <3>1, <3>2, <3>3
  <2>8. NoEntry(es, s, k) \/ OneEntry(es, s, k)
      BY <1>7, <2>2, <2>6
  <2> SUFFICES NoEntry(fs, sum[k + 1], k + 1) \/ OneEntry(fs, sum[k + 1], k + 1)
      BY <2>4
  <2>9. Len(es) \in Nat /\ fs \in Seq(FileRecords)
    <3>1. AddRecord(rec, es) \in Seq(FileRecords)
        BY AddRecordIs
    <3> QED
        BY <2>5, <3>1
  <2>10. \/ /\ Len(es) > 0 /\ Len(fs) = Len(es)
            /\ es[Len(es)].multi /\ ~rec.dir /\ es[Len(es)].name = rec.name
            /\ \A i \in 1 .. Len(es) - 1 : fs[i] = es[i]
            /\ fs[Len(es)] = [es[Len(es)] EXCEPT !.size = @ + rec.size, !.multi = rec.multi]
         \/ /\ ~Continues(es, rec)
            /\ fs = Append(es, rec)
      BY <2>5, AddRecordIs
  <2>11. ASSUME Len(es) > 0,
                fs[Len(es)] = [es[Len(es)] EXCEPT !.size = @ + rec.size, !.multi = rec.multi]
         PROVE  /\ fs[Len(es)].name = es[Len(es)].name /\ fs[Len(es)].dir = es[Len(es)].dir
                /\ fs[Len(es)].size = es[Len(es)].size + rec.size
                /\ fs[Len(es)].multi = rec.multi
    <3>1. PICK x \in FileRecords : x = es[Len(es)]
        BY <2>9, <2>11
    <3> QED
        BY <2>11, <3>1 DEF FileRecords
  <2>12. CASE k + 1 \notin at
    <3>1. rec.name # name /\ sum[k + 1] = s
        BY <1>2, <2>1, <2>3, <2>7, <2>12
    <3>2. /\ Len(fs) >= Len(es)
          /\ \A q \in 1 .. Len(fs) :
                \/ q \in 1 .. Len(es) /\ fs[q] = es[q]
                \/ fs[q].name # name /\ (q \in 1 .. Len(es) => es[q].name # name)
      <4>1. CASE ~Continues(es, rec) /\ fs = Append(es, rec)
        <5>1. /\ Len(fs) = Len(es) + 1 /\ fs[Len(es) + 1] = rec
              /\ \A q \in 1 .. Len(es) : fs[q] = es[q]
            BY <4>1
        <5>2. \A q \in 1 .. Len(fs) : q \in 1 .. Len(es) \/ q = Len(es) + 1
            BY <2>9, <5>1
        <5> QED
            BY <2>9, <3>1, <5>1, <5>2
      <4>2. CASE ~(~Continues(es, rec) /\ fs = Append(es, rec))
        <5>1. /\ Len(es) > 0 /\ Len(fs) = Len(es) /\ es[Len(es)].name = rec.name
              /\ \A q \in 1 .. Len(es) - 1 : fs[q] = es[q]
              /\ fs[Len(es)].name = es[Len(es)].name
            BY <2>10, <2>11, <4>2
        <5>2. \A q \in 1 .. Len(fs) : q \in 1 .. Len(es) - 1 \/ q = Len(es)
            BY <2>9, <5>1
        <5> QED
            BY <2>9, <3>1, <5>1, <5>2
      <4> QED
          BY <4>1, <4>2
    <3>3. CASE NoEntry(es, s, k)
      <4>1. \A i \in at : i > k + 1
          BY <1>1, <2>12, <3>3
      <4> QED
          BY <3>1, <3>2, <3>3, <4>1
    <3>4. CASE OneEntry(es, s, k)
      <4>1. PICK p \in 1 .. Len(es) :
               /\ \A q \in 1 .. Len(es) : es[q].name = name <=> q = p
               /\ ~es[p].dir /\ es[p].size = s
               /\ \/ k \in at /\ p = Len(es) /\ es[p].multi = records[k].multi
                  \/ k \notin at /\ \A i \in at : i < k
          BY <3>4
      <4>2. p \in 1 .. Len(fs) /\ fs[p] = es[p]
        <5>1. p \in 1 .. Len(fs) /\ es[p].name = name
            BY <2>9, <3>2, <4>1
        <5> QED
            BY <3>2, <5>1
      <4>3. \A q \in 1 .. Len(fs) : fs[q].name = name <=> q = p
          BY <3>2, <4>1, <4>2
      <4>4. \A i \in at : i < k + 1
        <5>1. CASE k \in at
          <6> SUFFICES ASSUME NEW i \in at, ~(i < k + 1) PROVE FALSE
              OBVIOUS
          <6>1. i > k
              BY <1>1
          <6> QED
              BY <1>3, <2>12, <5>1, <6>1
        <5>2. CASE \A i \in at : i < k
            BY <1>1, <5>2
        <5> QED
            BY <4>1, <5>1, <5>2
      <4> QED
          BY <2>12, <3>1, <3>4, <4>1, <4>2, <4>3, <4>4
    <3> QED
        BY <2>8, <3>3, <3>4
  <2>13. CASE k + 1 \in at
    <3>1. rec.name = name /\ ~rec.dir /\ sum[k + 1] = s + rec.size /\ at # {}
        BY <1>2, <1>3, <2>1, <2>3, <2>7, <2>13
    <3>2. CASE NoEntry(es, s, k)
      <4>1. ~Continues(es, rec)
        <5> SUFFICES ASSUME es # <<>>, es[Len(es)].name = rec.name PROVE FALSE
            BY DEF Continues, Last
        <5>1. Len(es) \in 1 .. Len(es)
            BY <2>9
        <5> QED
            BY <3>1, <3>2, <5>1
      <4>2. fs = Append(es, rec)
          BY <2>5, <4>1 DEF AddRecord
      <4>3. /\ Len(fs) = Len(es) + 1 /\ fs[Len(es) + 1] = rec
            /\ \A q \in 1 .. Len(es) : fs[q] = es[q]
          BY <4>2
      <4>4. \A q \in 1 .. Len(fs) : q \in 1 .. Len(es) \/ q = Len(es) + 1
          BY <2>9, <4>3
      <4>5. \A q \in 1 .. Len(fs) : fs[q].name = name <=> q = Len(es) + 1
          BY <2>9, <3>1, <3>2, <4>3, <4>4
      <4>6. Len(es) + 1 \in 1 .. Len(fs) /\ sum[k + 1] = rec.size
          BY <2>7, <2>9, <3>1, <3>2, <4>3
      <4> QED
          BY <2>3, <2>13, <3>1, <4>3, <4>5, <4>6
    <3>3. CASE OneEntry(es, s, k)
      <4>1. PICK p \in 1 .. Len(es) :
               /\ \A q \in 1 .. Len(es) : es[q].name = name <=> q = p
               /\ ~es[p].dir /\ es[p].size = s
               /\ \/ k \in at /\ p = Len(es) /\ es[p].multi = records[k].multi
                  \/ k \notin at /\ \A i \in at : i < k
          BY <3>3
      <4>2. k \in at /\ p = Len(es) /\ es[p].multi = records[k].multi
          BY <1>1, <2>13, <4>1
      <4>3. records[k].multi
        <5>1. k < k + 1
            OBVIOUS
        <5> QED
            BY <1>3, <2>13, <4>2, <5>1
      <4>4. Continues(es, rec)
          BY <2>9, <3>1, <4>1, <4>2, <4>3 DEF Continues, Last
      <4>5. /\ Len(es) > 0 /\ Len(fs) = Len(es)
            /\ \A i \in 1 .. Len(es) - 1 : fs[i] = es[i]
            /\ fs[Len(es)].name = es[Len(es)].name /\ fs[Len(es)].dir = es[Len(es)].dir
            /\ fs[Len(es)].size = es[Len(es)].size + rec.size
            /\ fs[Len(es)].multi = rec.multi
          BY <2>10, <2>11, <4>4
      <4>6. \A q \in 1 .. Len(fs) : q \in 1 .. Len(es) - 1 \/ q = Len(es)
          BY <2>9, <4>5
      <4>7. \A q \in 1 .. Len(fs) : fs[q].name = name <=> q = p
          BY <2>9, <4>1, <4>2, <4>5, <4>6
      <4>8. /\ p \in 1 .. Len(fs) /\ ~fs[p].dir
            /\ fs[p].size = sum[k + 1] /\ fs[p].multi = rec.multi
          BY <3>1, <4>1, <4>2, <4>5
      <4> QED
          BY <2>3, <2>13, <3>1, <4>2, <4>5, <4>7, <4>8
    <3> QED
        BY <2>8, <3>2, <3>3
  <2> QED
      BY <2>12, <2>13
<1>8. ASSUME NEW k \in 1 .. n, k - 1 \in S PROVE k \in S
  <2> HIDE DEF NoEntry, OneEntry, n
  <2> DEFINE j == k - 1
  <2>1. j \in Nat /\ j + 1 <= n /\ j + 1 = k
      BY <1>1
  <2>2. NoEntry(after[j], sum[j], j) \/ OneEntry(after[j], sum[j], j)
      BY <1>8
  <2> HIDE DEF j
  <2>3. NoEntry(after[k], sum[k], k) \/ OneEntry(after[k], sum[k], k)
      BY <1>7, <2>1, <2>2
  <2> QED
      BY <1>1, <2>3
<1>9. n \in S
  <2> HIDE DEF S, n
  <2> QED
      BY <1>1, <1>6, <1>8, AllUpTo
<1>10. NoEntry(after[n], sum[n], n) \/ OneEntry(after[n], sum[n], n)
  <2> HIDE DEF NoEntry, OneEntry
  <2> QED
      BY <1>9
<1>11. PICK es \in Seq(FileRecords) : es = after[n]
    BY <1>1, <1>4 DEF Entered
<1> DEFINE there == {i \in DOMAIN es : es[i].name = name}
<1>12. FirstOf(DirEntries(records), name) = FirstAmong(es, there)
    BY <1>4, <1>11 DEF FirstOf
<1>13. CASE NoEntry(after[n], sum[n], n)
  <2>1. at = {}
      BY <1>1, <1>13
  <2>2. there = {}
      BY <1>11, <1>13
  <2> QED
      BY <1>12, <2>1, <2>2 DEF FirstAmong, at
<1>14. CASE OneEntry(after[n], sum[n], n)
  <2>1. PICK p \in 1 .. Len(es) :
           /\ \A q \in 1 .. Len(es) : es[q].name = name <=> q = p
           /\ ~es[p].dir /\ es[p].size = sum[n]
      BY <1>11, <1>14
  <2>2. there = {p} /\ p \in Nat
      BY <1>11, <2>1
  <2>3. FirstIn({p}) = p
      BY <2>2, FirstInIs
  <2>4. FirstAmong(es, there) = Found(es[p].size)
      BY <2>1, <2>2, <2>3 DEF FirstAmong
  <2>5. at # {}
      BY <1>14
  <2> QED
      BY <1>5, <1>12, <2>1, <2>4, <2>5 DEF at
<1> QED
    BY <1>10, <1>13, <1>14

(* The first answer that is not "not there".                               *)
LEMMA FirstAnswerIs ==
    ASSUME NEW n \in Nat, NEW answers, DOMAIN answers = 1 .. n
    PROVE  \/ FirstAnswer(answers) = NoWim /\ \A i \in 1 .. n : answers[i] = NoWim
           \/ \E i \in 1 .. n : answers[i] # NoWim /\ FirstAnswer(answers) = answers[i]
<1> DEFINE told == {i \in DOMAIN answers : answers[i] # NoWim}
<1>1. told \in SUBSET Nat
    OBVIOUS
<1>2. CASE told = {}
    BY <1>2 DEF FirstAnswer
<1>3. CASE told # {}
  <2>1. FirstIn(told) \in told
    <3> HIDE DEF told
    <3> QED
        BY <1>1, <1>3, FirstInIs
  <2>2. FirstAnswer(answers) = answers[FirstIn(told)]
      BY <1>3 DEF FirstAnswer
  <2> QED
      BY <2>1, <2>2
<1> QED
    BY <1>2, <1>3

(* What a tree that can be read answers.                                   *)
LEMMA TreeAnswers ==
    ASSUME NEW t \in ImageTrees, t.state # "broken", NEW name
    PROVE  /\ LookupIn(t, name) # NoWim =>
                t.state = "listed" /\ \E x : LookupIn(t, name) = Found(x)
           /\ Holds(t, name) => LookupIn(t, name) # NoWim
           /\ (/\ LookupIn(t, name) # NoWim
               /\ \A i \in DOMAIN t.records : OneFile(t.records, t.records[i].name))
              => LookupIn(t, name) = Found(SizeOf(t.records, name))
<1>1. t.state \in {"empty", "listed"} /\ t.records \in Seq(FileRecords)
    BY DEF ImageTrees
<1>2. CASE t.state = "empty"
    BY <1>2 DEF LookupIn, Holds
<1>3. CASE t.state = "listed"
  <2>1. LookupIn(t, name) = FirstOf(DirEntries(t.records), name)
      BY <1>3 DEF LookupIn
  <2>2. FirstOf(DirEntries(t.records), name) # NoWim =>
            \E x : FirstOf(DirEntries(t.records), name) = Found(x)
      BY DEF FirstOf, FirstAmong
  <2>3. Holds(t, name) => LookupIn(t, name) # NoWim
    <3> SUFFICES ASSUME OneFile(t.records, name) PROVE LookupIn(t, name) # NoWim
        BY DEF Holds
    <3>1. Named(t.records, name) # {}
        BY DEF OneFile, Named
    <3>2. LookupIn(t, name) = Found(SizeOf(t.records, name))
        BY <1>1, <2>1, <3>1, WholeFile
    <3> QED
        BY <3>2 DEF Found, NoWim
  <2>4. ASSUME LookupIn(t, name) # NoWim,
               \A i \in DOMAIN t.records : OneFile(t.records, t.records[i].name)
        PROVE  LookupIn(t, name) = Found(SizeOf(t.records, name))
    <3>1. Named(t.records, name) = {} \/ OneFile(t.records, name)
        BY <2>4 DEF Named
    <3> QED
        BY <1>1, <2>1, <2>4, <3>1, WholeFile
  <2> QED
      BY <1>3, <2>1, <2>2, <2>3, <2>4
<1> QED
    BY <1>1, <1>2, <1>3

(* What the ISO 9660 trees answer when asked for both names.               *)
Asked == FindWim(LookupIso("wim"), LookupIso("esd"))

(* An answer comes from a tree that lists the name; where there is no      *)
(* answer no tree holds it.                                                *)
LEMMA NameAnswered ==
    ASSUME Parsed(iso), TreesRead, NEW name
    PROVE  \/ LookupIso(name) = NoWim /\ \A t \in Trees : ~Holds(t, name)
           \/ /\ LookupIso(name) # NoWim
              /\ \E t \in Trees : t.state = "listed" /\ LookupIso(name) = LookupIn(t, name)
<1> DEFINE n == Len(iso.trees)
           answers == [i \in DOMAIN iso.trees |-> LookupIn(iso.trees[i], name)]
<1>1. n \in Nat /\ DOMAIN iso.trees = 1 .. n /\ \A i \in 1 .. n : iso.trees[i] \in ImageTrees
    BY DEF Parsed
<1>2. \A i \in 1 .. n : iso.trees[i] \in Trees /\ iso.trees[i].state # "broken"
    BY <1>1 DEF Trees, TreesRead
<1>3. DOMAIN answers = 1 .. n /\ \A i \in 1 .. n : answers[i] = LookupIn(iso.trees[i], name)
    BY <1>1
<1>4. LookupIso(name) = FirstAnswer(answers)
    BY DEF LookupIso
<1> HIDE DEF answers, n
<1>5. CASE FirstAnswer(answers) = NoWim /\ \A i \in 1 .. n : answers[i] = NoWim
  <2>1. \A i \in 1 .. n : ~Holds(iso.trees[i], name)
      BY <1>1, <1>2, <1>3, <1>5, TreeAnswers
  <2>2. \A t \in Trees : \E i \in 1 .. n : t = iso.trees[i]
      BY <1>1 DEF Trees
  <2> QED
      BY <1>4, <1>5, <2>1, <2>2
<1>6. CASE \E i \in 1 .. n : answers[i] # NoWim /\ FirstAnswer(answers) = answers[i]
  <2>1. PICK i \in 1 .. n : answers[i] # NoWim /\ FirstAnswer(answers) = answers[i]
      BY <1>6
  <2>2. iso.trees[i].state = "listed"
      BY <1>1, <1>2, <1>3, <2>1, TreeAnswers
  <2> QED
      BY <1>2, <1>3, <1>4, <2>1, <2>2
<1> QED
    BY <1>1, <1>3, <1>5, <1>6, FirstAnswerIs

(* Where the trees can be read, the install image of one of them is found, *)
(* with the whole size of it.                                              *)
LEMMA AskedIs ==
    ASSUME Parsed(iso), TreesRead
    PROVE  /\ ~IsError(Asked)
           /\ (\E t \in Trees, name \in {"wim", "esd"} : Holds(t, name)) => Asked.found
           /\ Asked.found /\ WellFormed => Asked.size \in TrueSizes
<1> DEFINE w == LookupIso("wim")
           e == LookupIso("esd")
           answers == <<w, e>>
<1>1. DOMAIN answers = 1 .. 2 /\ answers[1] = w /\ answers[2] = e
    OBVIOUS
<1>2. Asked = FirstAnswer(answers)
    BY DEF Asked, FindWim
<1>3. \A t \in Trees : t \in ImageTrees /\ t.state # "broken"
    BY DEF Parsed, Trees, TreesRead
<1>4. \/ Asked = NoWim /\ w = NoWim /\ e = NoWim
      \/ \E name \in {"wim", "esd"} : LookupIso(name) # NoWim /\ Asked = LookupIso(name)
  <2> HIDE DEF answers
  <2>1. \/ FirstAnswer(answers) = NoWim /\ \A i \in 1 .. 2 : answers[i] = NoWim
        \/ \E i \in 1 .. 2 : answers[i] # NoWim /\ FirstAnswer(answers) = answers[i]
      BY <1>1, FirstAnswerIs
  <2>2. 1 \in 1 .. 2 /\ 2 \in 1 .. 2 /\ \A i \in 1 .. 2 : i = 1 \/ i = 2
      OBVIOUS
  <2> QED
      BY <1>1, <1>2, <2>1, <2>2
<1>5. CASE Asked = NoWim /\ w = NoWim /\ e = NoWim
  <2>1. \A t \in Trees, name \in {"wim", "esd"} : ~Holds(t, name)
      BY <1>5, NameAnswered
  <2>2. ~IsError(Asked) /\ ~Asked.found
      BY <1>5 DEF IsError, Unreadable, NoWim
  <2> QED
      BY <2>1, <2>2
<1>6. ASSUME NEW name \in {"wim", "esd"}, LookupIso(name) # NoWim, Asked = LookupIso(name)
      PROVE  /\ Asked.found
             /\ WellFormed => Asked.size \in TrueSizes
  <2>1. PICK t \in Trees : t.state = "listed" /\ LookupIso(name) = LookupIn(t, name)
      BY <1>6, NameAnswered
  <2>2. \E x : Asked = Found(x)
      BY <1>3, <1>6, <2>1, TreeAnswers
  <2>3. ASSUME WellFormed PROVE Asked.size \in TrueSizes
    <3>1. Asked = Found(SizeOf(t.records, name))
        BY <1>3, <1>6, <2>1, <2>3, TreeAnswers DEF WellFormed
    <3>2. Asked.size = SizeOf(t.records, name)
        BY <3>1 DEF Found
    <3> QED
        BY <2>1, <3>2 DEF TrueSizes
  <2> QED
      BY <2>2, <2>3 DEF Found
<1>7. Asked.found => ~IsError(Asked)
    BY DEF IsError, Unreadable
<1> QED
    BY <1>4, <1>5, <1>6, <1>7

(* Where the probe stands, told by what the trees answer.                  *)
ProbeInv ==
    /\ Parsed(iso)
    /\ stage \in {"volume", "iso", "udf", "decide", "told"}
    /\ stage \in {"volume", "iso", "udf"} => udfFault = FALSE
    /\ stage = "udf" => ~Asked.found
    /\ stage = "decide" /\ Asked.found => wim = Asked /\ udfFault = FALSE
    /\ stage = "told" =>
         \/ ~iso.primary
         \/ IsError(Asked)
         \/ kind = Decide /\ (Asked.found => wim = Asked /\ udfFault = FALSE)

(* The probe reaches its verdict with the answer of the trees.             *)
LEMMA ProbeGoes ==
    ASSUME NEW Images, \A i \in Images : Parsed(i)
    PROVE  ProbeSpec(Images) => []ProbeInv
<1>1. ProbeInit(Images) => ProbeInv
    BY DEF ProbeInit, ProbeInv
<1>2. ProbeInv /\ [ProbeStep]_probeVars => ProbeInv'
  <2> SUFFICES ASSUME ProbeInv, [ProbeStep]_probeVars PROVE ProbeInv'
      OBVIOUS
  <2>1. iso' = iso
      BY DEF ProbeStep, ReadVolume, LookInIso, LookInUdf, DecideKind, probeVars
  <2>2. Asked' = Asked /\ (Parsed(iso) => Parsed(iso)')
      BY <2>1 DEF Asked, LookupIso, Parsed
  <2> USE DEF ProbeInv
  <2>3. CASE ReadVolume
      BY <2>1, <2>2, <2>3 DEF ReadVolume, Tell
  <2>4. CASE LookInIso
    <3>1. stage = "iso" /\ wim' = Asked /\ udfFault' = udfFault
        BY <2>4 DEF LookInIso, Asked
    <3>2. CASE IsError(Asked)
      <4>1. stage' = "told"
          BY <2>4, <3>1, <3>2 DEF LookInIso, Tell
      <4> QED
          BY <2>1, <2>2, <3>2, <4>1 DEF IsError
    <3>3. CASE ~IsError(Asked)
      <4>1. stage' = IF Asked.found THEN "decide" ELSE "udf"
          BY <2>4, <3>1, <3>3 DEF LookInIso
      <4> QED
          BY <2>1, <2>2, <3>1, <4>1
    <3> QED
        BY <3>2, <3>3
  <2>5. CASE LookInUdf
      BY <2>1, <2>2, <2>5 DEF LookInUdf
  <2>6. CASE DecideKind
    <3>1. /\ stage = "decide" /\ stage' = "told" /\ kind' = Decide
          /\ wim' = wim /\ udfFault' = udfFault
        BY <2>6 DEF DecideKind, Tell
    <3>2. Decide' = Decide
        BY <2>1, <3>1 DEF Decide
    <3> QED
        BY <2>1, <2>2, <3>1, <3>2
  <2>7. CASE UNCHANGED probeVars
    <3>1. /\ stage' = stage /\ kind' = kind /\ wim' = wim /\ udfFault' = udfFault
        BY <2>7 DEF probeVars
    <3>2. Decide' = Decide /\ IsError(Asked)' = IsError(Asked)
        BY <2>1, <2>2, <3>1 DEF Decide, IsError
    <3> QED
        BY <2>1, <2>2, <3>1, <3>2
  <2> QED
      BY <2>3, <2>4, <2>5, <2>6, <2>7 DEF ProbeStep
<1> QED
    BY <1>1, <1>2, PTL DEF ProbeSpec

(* An image is put to its use, however many trees and extents list its     *)
(* install image (sources.go:84, iso9660.go:206).                          *)
THEOREM ImagesArePutToUse ==
    ASSUME NEW Images, \A i \in Images : Parsed(i)
    PROVE  ProbeSpec(Images) => []ProbeTellsTheUse
<1>1. ProbeInv => ProbeTellsTheUse
  <2> SUFFICES ASSUME ProbeInv, stage = "told", iso.primary, TreesRead
               PROVE  /\ (\E t \in Trees, name \in {"wim", "esd"} : Holds(t, name)) =>
                            kind = "windows-iso"
                      /\ iso.hybrid => kind # "unknown"
                      /\ kind = "windows-iso" /\ WellFormed
                         /\ (\E t \in Trees, name \in {"wim", "esd"} : Holds(t, name))
                         => wim.size \in TrueSizes
      BY DEF ProbeTellsTheUse
  <2>1. kind = Decide /\ (Asked.found => wim = Asked /\ udfFault = FALSE)
      BY AskedIs DEF ProbeInv
  <2>2. (\E t \in Trees, name \in {"wim", "esd"} : Holds(t, name)) => Asked.found
      BY AskedIs DEF ProbeInv
  <2>3. Asked.found /\ WellFormed => Asked.size \in TrueSizes
      BY AskedIs DEF ProbeInv
  <2>4. /\ Asked.found => kind = "windows-iso"
        /\ iso.hybrid => kind # "unknown"
      BY <2>1 DEF Decide
  <2> QED
      BY <2>1, <2>2, <2>3, <2>4
<1> QED
    BY <1>1, ProbeGoes, PTL

(* The probe and the installer start from one root (udf.go:68,             *)
(* layout.go:40).                                                          *)
THEOREM RootsAgree ==
    ASSUME NEW Images, \A i \in Images : Parsed(i)
    PROVE  ProbeSpec(Images) => []SameRoot
<1>1. ProbeInv => SameRoot
    BY ParsedHasOneRoot DEF ProbeInv
<1> QED
    BY <1>1, ProbeGoes, PTL
=============================================================================
