----------------------------- MODULE MedianProofs -----------------------------
(***************************************************************************)
(* The selection of cudaMedianFilter stays in place and in order, and what *)
(* it selects is the median, for any image, kernel, block and interleaving *)
(* of its threads.                                                         *)
(***************************************************************************)
EXTENDS Median, FiniteSetTheorems, TLAPS

\* The arguments of the launch, as numbers.
LEMMA Sizes ==
  ASSUME MedianCall(call)
  PROVE  /\ KernelDims1 \in Nat \ {0}
         /\ call.length \in Nat \ {0} /\ call.radius \in Nat /\ call.threads \in Nat \ {0}
         /\ call.block \in Nat
         /\ \A t \in Lane : t \in Nat /\ threadCoordinate(t) \in Nat
<1>1. /\ call.length \in Nat \ {0} /\ call.radius \in Nat /\ call.threads \in Nat \ {0}
      /\ call.block \in Nat
  BY DEF MedianCall
<1>2. call.block * call.threads \in Nat
  BY <1>1
<1> QED
  BY <1>1, <1>2 DEF KernelDims1, Lane, threadCoordinate

\* The parts of two threads are apart, and each lies in the shared memory.
LEMMA PartsApart ==
  ASSUME MedianCall(call), NEW t \in Lane
  PROVE  /\ First(t) \in Nat
         /\ First(t) + KernelDims1 <= call.threads * KernelDims1
         /\ \A u \in Lane : \/ u = t
                            \/ First(t) + KernelDims1 <= First(u)
                            \/ First(u) + KernelDims1 <= First(t)
<1> DEFINE K == KernelDims1
           n == call.threads
<1>1. K \in Nat \ {0} /\ n \in Nat \ {0} /\ Lane = 0 .. n - 1
  BY Sizes DEF Lane
<1> HIDE DEF K, n
<1>2. \A p, q \in Nat : p < q => p * K + K <= q * K
  <2> SUFFICES ASSUME NEW p \in Nat, NEW q \in Nat, p < q PROVE p * K + K <= q * K
    OBVIOUS
  <2>1. (p + 1) * K <= q * K
    BY <1>1
  <2> QED
    BY <1>1, <2>1
<1>3. \A p \in Nat : p * K \in Nat
  BY <1>1
<1> QED
  BY <1>1, <1>2, <1>3 DEF First, K, n

\* A neighbourhood has no more places than the kernel.
LEMMA NeighbourhoodFits ==
  ASSUME MedianCall(call), NEW v \in 0 .. call.length - 1
  PROVE  /\ kernelStartIdx(v) \in 0 .. 2 * call.radius
         /\ kernelEndIdx(v) \in 0 .. 2 * call.radius
         /\ \A j \in kernelStartIdx(v) .. kernelEndIdx(v) :
              j \in 0 .. 2 * call.radius /\ Neighbour(v, j) \in Int
<1>1. /\ call.length \in Nat \ {0} /\ call.radius \in Nat
      /\ call.image \in [0 .. call.length - 1 -> Int]
  BY DEF MedianCall
<1> DEFINE r == call.radius
           n == call.length
<1>2. /\ kernelStartIdx(v) = IF v < r THEN r - v ELSE 0
      /\ kernelEndIdx(v) = IF v + r > n - 1 THEN 2 * r - (v + r - (n - 1)) ELSE 2 * r
      /\ r \in Nat /\ n \in Nat \ {0} /\ v \in 0 .. n - 1
  BY <1>1 DEF kernelStartIdx, kernelEndIdx
<1> HIDE DEF r, n
<1>3. /\ kernelStartIdx(v) \in 0 .. 2 * r /\ kernelEndIdx(v) \in 0 .. 2 * r
      /\ \A j \in kernelStartIdx(v) .. kernelEndIdx(v) :
           j \in 0 .. 2 * r /\ v - r + j \in 0 .. n - 1
  BY <1>2
<1> QED
  BY <1>1, <1>3 DEF Neighbour, r, n

\* Another thread's step leaves a thread as it was if it leaves its part as it was.
LEMMA Others ==
  ASSUME SelectionInv, NEW u \in Lane, call' = call,
         at'[u] = at[u], iterator'[u] = iterator[u], kernelVolume'[u] = kernelVolume[u],
         pB'[u] = pB[u], pE'[u] = pE[u], k'[u] = k[u], b'[u] = b[u], e'[u] = e[u],
         medianOut'[u] = medianOut[u],
         \A i \in First(u) .. First(u) + KernelDims1 - 1 : vals'[i] = vals[i]
  PROVE  LaneInv(u)'
<1>1. /\ First(u)' = First(u) /\ End(u)' = End(u) /\ Middle(u)' = Middle(u)
      /\ threadCoordinate(u)' = threadCoordinate(u)
  BY DEF First, End, Middle, KernelDims1, threadCoordinate
<1>2. First(u) \in Nat /\ kernelVolume[u] \in 0 .. KernelDims1 /\ KernelDims1 \in Nat \ {0}
  BY PartsApart, Sizes DEF SelectionInv, MedianTypeOK
<1>3. /\ pB[u] \in Int /\ pE[u] \in Int /\ k[u] \in Int /\ b[u] \in Int /\ e[u] \in Int
  BY DEF SelectionInv, MedianTypeOK
<1>4. /\ End(u) \in Int /\ Middle(u) \in Int
      /\ End(u) <= First(u) + KernelDims1 /\ First(u) <= Middle(u) /\ Middle(u) <= End(u)
      /\ kernelVolume[u] > 0 => Middle(u) < End(u)
  BY <1>2 DEF End, Middle
<1>5. LaneInv(u)
  BY DEF SelectionInv
<1>6. Gathering(u) => Gathering(u)'
  BY <1>1 DEF Gathering, kernelStartIdx, kernelEndIdx
<1>7. Selecting(u) => Selecting(u)'
  BY <1>1, <1>2, <1>3, <1>4 DEF Selecting
<1>8. Selecting(u) /\ Dividing(u) => Dividing(u)'
  BY <1>1, <1>2, <1>3, <1>4 DEF Selecting, Dividing
<1>9. Selected(u) => Selected(u)'
  BY <1>1, <1>2, <1>4 DEF Selected
<1>10. Selected(u) => vals'[Middle(u)] = vals[Middle(u)]
  BY <1>2, <1>4 DEF Selected
<1> QED
  BY <1>1, <1>5, <1>6, <1>7, <1>8, <1>9, <1>10 DEF LaneInv

\* What a step of thread t must show: types, its own invariant, and that it stays in its part.
LEMMA OneThread ==
  ASSUME SelectionInv, NEW t \in Lane, MedianTypeOK', call' = call, LaneInv(t)',
         \A u \in Lane \ {t} :
           /\ at'[u] = at[u] /\ iterator'[u] = iterator[u]
           /\ kernelVolume'[u] = kernelVolume[u]
           /\ pB'[u] = pB[u] /\ pE'[u] = pE[u] /\ k'[u] = k[u] /\ b'[u] = b[u] /\ e'[u] = e[u]
           /\ medianOut'[u] = medianOut[u],
         \A i \in 0 .. call.threads * KernelDims1 - 1 :
           i < First(t) \/ First(t) + KernelDims1 <= i => vals'[i] = vals[i]
  PROVE  SelectionInv'
<1>1. MedianCall(call) /\ Lane' = Lane
  BY DEF SelectionInv, MedianTypeOK, Lane
<1>2. ASSUME NEW u \in Lane, u # t PROVE LaneInv(u)'
  <2>1. /\ First(u) \in Nat /\ First(u) + KernelDims1 <= call.threads * KernelDims1
        /\ \/ First(t) + KernelDims1 <= First(u)
           \/ First(u) + KernelDims1 <= First(t)
    BY <1>1, <1>2, PartsApart
  <2>2. First(t) \in Nat /\ KernelDims1 \in Nat \ {0} /\ call.threads \in Nat
    BY <1>1, PartsApart, Sizes
  <2>3. call.threads * KernelDims1 \in Nat
    BY <2>2
  <2>4. \A i \in First(u) .. First(u) + KernelDims1 - 1 : vals'[i] = vals[i]
    <3> DEFINE T == call.threads * KernelDims1
               f == First(u)
               g == First(t)
    <3>1. /\ f \in Nat /\ f + KernelDims1 <= T /\ T \in Nat /\ g \in Nat
          /\ g + KernelDims1 <= f \/ f + KernelDims1 <= g
      BY <2>1, <2>2, <2>3
    <3>2. \A i \in 0 .. T - 1 : i < g \/ g + KernelDims1 <= i => vals'[i] = vals[i]
      OBVIOUS
    <3> HIDE DEF T, f, g
    <3>3. \A i \in f .. f + KernelDims1 - 1 : vals'[i] = vals[i]
      BY <2>2, <3>1, <3>2
    <3> QED
      BY <3>3 DEF f
  <2> QED
    BY <1>2, <2>4, Others
<1> QED
  BY <1>1, <1>2 DEF SelectionInv

\* The numbers of a thread, and where its part lies.
LEMMA LaneNumbers ==
  ASSUME SelectionInv, NEW t \in Lane
  PROVE  /\ MedianCall(call) /\ t \in Nat
         /\ First(t) \in Nat /\ KernelDims1 \in Nat \ {0}
         /\ sharedMemOffset(t) = First(t)
         /\ First(t) + KernelDims1 <= call.threads * KernelDims1
         /\ call.threads * KernelDims1 \in Nat
         /\ kernelVolume[t] \in 0 .. KernelDims1
         /\ iterator[t] \in Int /\ k[t] \in Int
         /\ pB[t] \in Int /\ pE[t] \in Int /\ b[t] \in Int /\ e[t] \in Int
         /\ End(t) \in Int /\ Middle(t) \in Int
         /\ First(t) <= Middle(t) /\ Middle(t) <= End(t)
         /\ End(t) <= First(t) + KernelDims1
         /\ kernelVolume[t] > 0 => Middle(t) < End(t)
         /\ End(t) = First(t) + kernelVolume[t]
         /\ \A i \in First(t) .. First(t) + KernelDims1 - 1 : vals[i] \in Int
         /\ LaneInv(t)
<1>1. MedianCall(call) /\ t \in Nat /\ KernelDims1 \in Nat \ {0} /\ call.threads \in Nat \ {0}
  BY Sizes DEF SelectionInv, MedianTypeOK
<1>2. /\ First(t) \in Nat /\ First(t) + KernelDims1 <= call.threads * KernelDims1
      /\ call.threads * KernelDims1 \in Nat
  BY <1>1, PartsApart
<1>3. /\ kernelVolume[t] \in 0 .. KernelDims1
      /\ iterator[t] \in Int /\ k[t] \in Int
      /\ pB[t] \in Int /\ pE[t] \in Int /\ b[t] \in Int /\ e[t] \in Int
  BY DEF SelectionInv, MedianTypeOK
<1>4. /\ End(t) \in Int /\ Middle(t) \in Int
      /\ First(t) <= Middle(t) /\ Middle(t) <= End(t)
      /\ End(t) <= First(t) + KernelDims1
      /\ kernelVolume[t] > 0 => Middle(t) < End(t)
      /\ End(t) = First(t) + kernelVolume[t]
  BY <1>1, <1>2, <1>3 DEF End, Middle
<1>5. vals \in [0 .. call.threads * KernelDims1 - 1 -> Int]
  BY DEF SelectionInv, MedianTypeOK
<1>6. \A i \in First(t) .. First(t) + KernelDims1 - 1 : vals[i] \in Int
  <2> DEFINE T == call.threads * KernelDims1
  <2>1. vals \in [0 .. T - 1 -> Int] /\ T \in Nat /\ First(t) + KernelDims1 <= T
    BY <1>2, <1>5
  <2> HIDE DEF T
  <2> QED
    BY <1>1, <1>2, <2>1
<1>7. sharedMemOffset(t) = First(t)
  BY DEF sharedMemOffset, First
<1> QED
  BY <1>1, <1>2, <1>3, <1>4, <1>6, <1>7 DEF SelectionInv

\* A change inside a thread's part keeps the shared memory a function to the integers.
LEMMA StoreInPart ==
  ASSUME SelectionInv, NEW t \in Lane,
         NEW i \in First(t) .. First(t) + KernelDims1 - 1, NEW x \in Int
  PROVE  /\ i \in DOMAIN vals
         /\ [vals EXCEPT ![i] = x] \in [0 .. call.threads * KernelDims1 - 1 -> Int]
<1> DEFINE T == call.threads * KernelDims1
<1>1. vals \in [0 .. T - 1 -> Int]
  BY DEF SelectionInv, MedianTypeOK
<1>2. First(t) \in Nat /\ KernelDims1 \in Nat \ {0} /\ First(t) + KernelDims1 <= T /\ T \in Nat
  BY LaneNumbers
<1> HIDE DEF T
<1>3. i \in 0 .. T - 1
  BY <1>2
<1> QED
  BY <1>1, <1>3 DEF T

\* A swap within a thread's part exchanges two values and changes no other.
LEMMA SwapInPart ==
  ASSUME SelectionInv, NEW t \in Lane,
         NEW i \in First(t) .. First(t) + KernelDims1 - 1,
         NEW j \in First(t) .. First(t) + KernelDims1 - 1
  PROVE  /\ Swapped(i, j) \in [0 .. call.threads * KernelDims1 - 1 -> Int]
         /\ Swapped(i, j)[i] = vals[j] /\ Swapped(i, j)[j] = vals[i]
         /\ \A n \in 0 .. call.threads * KernelDims1 - 1 :
              n # i /\ n # j => Swapped(i, j)[n] = vals[n]
<1>1. /\ i \in DOMAIN vals /\ j \in DOMAIN vals
      /\ vals[i] \in Int /\ vals[j] \in Int
  BY StoreInPart, LaneNumbers
<1>2. vals \in [0 .. call.threads * KernelDims1 - 1 -> Int]
  BY DEF SelectionInv, MedianTypeOK
<1> QED
  BY <1>1, <1>2 DEF Swapped

\* A thread gathers into its own part.
LEMMA GatherKeeps ==
  ASSUME SelectionInv, NEW t \in Lane, Gather(t)
  PROVE  SelectionInv'
<1> DEFINE v == threadCoordinate(t)
           j == iterator[t]
           place == First(t) + kernelVolume[t]
<1>1. /\ v \in 0 .. call.length - 1 /\ j \in kernelStartIdx(v) .. kernelEndIdx(v)
      /\ kernelVolume[t] <= j - kernelStartIdx(v)
  BY LaneNumbers, Sizes DEF Gather, LaneInv, Gathering
<1>2. /\ kernelStartIdx(v) \in 0 .. 2 * call.radius /\ kernelEndIdx(v) \in 0 .. 2 * call.radius
      /\ Neighbour(v, j) \in Int
  BY <1>1, LaneNumbers, NeighbourhoodFits
<1>3. /\ kernelVolume[t] \in Nat /\ kernelVolume[t] < KernelDims1
      /\ KernelDims1 = 2 * call.radius + 1 /\ call.radius \in Nat /\ First(t) \in Nat
  <2>1. /\ call.radius \in Nat /\ First(t) \in Nat /\ kernelVolume[t] \in Nat
        /\ KernelDims1 = 2 * call.radius + 1
    BY LaneNumbers, Sizes DEF KernelDims1
  <2> QED
    BY <1>1, <1>2, <2>1
<1>4. place \in First(t) .. First(t) + KernelDims1 - 1
  BY <1>3
<1>5. \/ vals' = [vals EXCEPT ![place] = Neighbour(v, j)]
      \/ vals' = vals
  BY LaneNumbers DEF Gather
<1>6. vals' \in [0 .. call.threads * KernelDims1 - 1 -> Int]
  <2>1. CASE vals' = [vals EXCEPT ![place] = Neighbour(v, j)]
    BY <1>2, <1>4, <2>1, StoreInPart
  <2>2. CASE vals' = vals
    BY <2>2 DEF SelectionInv, MedianTypeOK
  <2> QED
    BY <1>5, <2>1, <2>2
<1>7. /\ \/ kernelVolume' = [kernelVolume EXCEPT ![t] = @ + 1]
         \/ kernelVolume' = kernelVolume
      /\ iterator' = [iterator EXCEPT ![t] = @ + 1]
      /\ UNCHANGED <<call, at, pB, pE, k, b, e, medianOut>>
  BY DEF Gather
<1>8. kernelVolume' \in [Lane -> 0 .. KernelDims1] /\ iterator' \in [Lane -> Int]
  <2>1. kernelVolume \in [Lane -> 0 .. KernelDims1] /\ iterator \in [Lane -> Int]
    BY DEF SelectionInv, MedianTypeOK
  <2>2. kernelVolume[t] + 1 \in 0 .. KernelDims1
    BY <1>3
  <2> QED
    BY <1>7, <2>1, <2>2
<1>9. MedianTypeOK'
  BY <1>6, <1>7, <1>8 DEF SelectionInv, MedianTypeOK, Lane, KernelDims1
<1>10. LaneInv(t)'
  <2>1. at'[t] = "gather" /\ iterator'[t] = j + 1 /\ threadCoordinate(t)' = v
    BY <1>7 DEF Gather, SelectionInv, MedianTypeOK, threadCoordinate
  <2>2. kernelVolume'[t] \in {kernelVolume[t], kernelVolume[t] + 1}
    BY <1>7 DEF SelectionInv, MedianTypeOK
  <2>3. kernelStartIdx(v)' = kernelStartIdx(v) /\ kernelEndIdx(v)' = kernelEndIdx(v)
    BY <1>7 DEF kernelStartIdx, kernelEndIdx, threadCoordinate
  <2>4. /\ v < call.length
        /\ iterator'[t] \in kernelStartIdx(v) .. kernelEndIdx(v) + 1
        /\ kernelVolume'[t] <= iterator'[t] - kernelStartIdx(v)
    <3> DEFINE s == kernelStartIdx(v)
               f == kernelEndIdx(v)
               w == kernelVolume[t]
    <3>1. /\ s \in Int /\ f \in Int /\ j \in s .. f /\ w \in Nat /\ w <= j - s
          /\ kernelVolume'[t] \in {w, w + 1} /\ iterator'[t] = j + 1
      BY <1>1, <1>2, <1>3, <2>1, <2>2
    <3> HIDE DEF s, f, w, j
    <3>2. iterator'[t] \in s .. f + 1 /\ kernelVolume'[t] <= iterator'[t] - s
      BY <3>1
    <3>3. v < call.length
      BY <1>1, LaneNumbers, Sizes
    <3> QED
      BY <3>2, <3>3 DEF s, f
  <2>5. Gathering(t)'
    BY <1>7, <2>1, <2>3, <2>4 DEF Gathering
  <2> QED
    BY <2>1, <2>5 DEF LaneInv
<1>11. ASSUME NEW i \in 0 .. call.threads * KernelDims1 - 1,
              i < First(t) \/ First(t) + KernelDims1 <= i
       PROVE  vals'[i] = vals[i]
  <2>1. i # place
    BY <1>3, <1>4, <1>11, LaneNumbers
  <2> QED
    BY <1>5, <2>1 DEF SelectionInv, MedianTypeOK
<1>12. \A u \in Lane \ {t} : iterator'[u] = iterator[u] /\ kernelVolume'[u] = kernelVolume[u]
  BY <1>7 DEF SelectionInv, MedianTypeOK
<1> QED
  BY <1>7, <1>9, <1>10, <1>11, <1>12, OneThread

\* A selection begins with all that was gathered.
LEMMA FindMedianKeeps ==
  ASSUME SelectionInv, NEW t \in Lane, FindMedian(t)
  PROVE  SelectionInv'
<1>1. /\ at[t] = "gather" /\ at' = [at EXCEPT ![t] = "select"]
      /\ pB' = [pB EXCEPT ![t] = First(t)]
      /\ pE' = [pE EXCEPT ![t] = End(t)]
      /\ k' = [k EXCEPT ![t] = kernelVolume[t] \div 2]
      /\ UNCHANGED <<call, iterator, kernelVolume, b, e, vals, medianOut>>
  BY LaneNumbers DEF FindMedian
<1>2. First(t) \in Int /\ End(t) \in Int /\ kernelVolume[t] \in Nat
  BY LaneNumbers
<1>3. MedianTypeOK'
  BY <1>1, <1>2 DEF SelectionInv, MedianTypeOK, Lane, KernelDims1
<1>4. LaneInv(t)'
  <2>1. /\ at'[t] = "select" /\ pB'[t] = First(t) /\ pE'[t] = End(t)
        /\ k'[t] = kernelVolume[t] \div 2 /\ kernelVolume'[t] = kernelVolume[t]
    BY <1>1 DEF SelectionInv, MedianTypeOK
  <2>2. First(t)' = First(t) /\ End(t)' = End(t) /\ Middle(t)' = Middle(t)
    BY <1>1 DEF First, End, Middle, KernelDims1
  <2>3. /\ First(t) \in Int /\ End(t) \in Int /\ kernelVolume[t] \in Nat
        /\ First(t) <= End(t) /\ Middle(t) = First(t) + kernelVolume[t] \div 2
        /\ kernelVolume[t] > 0 => Middle(t) < End(t)
    BY LaneNumbers DEF Middle
  <2>4. Selecting(t)'
    BY <2>1, <2>2, <2>3 DEF Selecting
  <2> QED
    BY <2>1, <2>4 DEF LaneInv
<1>5. \A u \in Lane \ {t} : /\ at'[u] = at[u] /\ pB'[u] = pB[u] /\ pE'[u] = pE[u]
                            /\ k'[u] = k[u]
  BY <1>1 DEF SelectionInv, MedianTypeOK
<1> QED
  BY <1>1, <1>3, <1>4, <1>5, OneThread

\* A division begins with the pivot aside.
LEMMA SubDivideKeeps ==
  ASSUME SelectionInv, NEW t \in Lane, SubDivide(t)
  PROVE  SelectionInv'
<1>1. /\ at[t] = "select"
      /\ UNCHANGED <<call, iterator, kernelVolume, pB, pE, k, vals, medianOut>>
  BY DEF SubDivide
<1>2. Selecting(t)
  BY <1>1, LaneNumbers DEF LaneInv
<1>3. /\ First(t)' = First(t) /\ End(t)' = End(t) /\ Middle(t)' = Middle(t)
  BY <1>1 DEF First, End, Middle, KernelDims1
<1>4. /\ pB[t] \in Int /\ pE[t] \in Int /\ k[t] \in Int /\ kernelVolume[t] \in Nat
  BY LaneNumbers
<1>5. CASE pB[t] = pE[t]
  <2>1. at' = [at EXCEPT ![t] = "undefined"] /\ UNCHANGED <<b, e>>
    BY <1>5 DEF SubDivide
  <2>2. MedianTypeOK'
    BY <1>1, <2>1 DEF SelectionInv, MedianTypeOK, Lane, KernelDims1
  <2>3. kernelVolume[t] = 0
    BY <1>2, <1>4, <1>5 DEF Selecting
  <2>4. at'[t] = "undefined" /\ \A u \in Lane \ {t} : at'[u] = at[u]
    BY <2>1 DEF SelectionInv, MedianTypeOK
  <2>5. LaneInv(t)'
    BY <1>1, <2>3, <2>4 DEF LaneInv
  <2> QED
    BY <1>1, <2>1, <2>2, <2>4, <2>5, OneThread
<1>6. CASE pB[t] # pE[t]
  <2>1. /\ at' = [at EXCEPT ![t] = "divide"]
        /\ b' = [b EXCEPT ![t] = pB[t]] /\ e' = [e EXCEPT ![t] = pE[t] - 1]
    BY <1>6 DEF SubDivide
  <2>2. MedianTypeOK'
    BY <1>1, <1>4, <2>1 DEF SelectionInv, MedianTypeOK, Lane, KernelDims1
  <2>3. /\ at'[t] = "divide" /\ b'[t] = pB[t] /\ e'[t] = pE[t] - 1
        /\ \A u \in Lane \ {t} : at'[u] = at[u] /\ b'[u] = b[u] /\ e'[u] = e[u]
    BY <2>1 DEF SelectionInv, MedianTypeOK
  <2>4. Selecting(t)'
    BY <1>1, <1>2, <1>3 DEF Selecting
  <2>5. kernelVolume[t] > 0
    <3>1. pB[t] < pE[t] /\ First(t) <= pB[t] /\ pE[t] <= First(t) + kernelVolume[t]
      BY <1>2, <1>4, <1>6, LaneNumbers DEF Selecting
    <3> QED
      BY <1>4, <3>1, LaneNumbers
  <2>6. Dividing(t)'
    BY <1>1, <1>2, <1>4, <1>6, <2>3, <2>5 DEF Dividing, Selecting
  <2>7. LaneInv(t)'
    BY <2>3, <2>4, <2>6 DEF LaneInv
  <2> QED
    BY <1>1, <2>2, <2>3, <2>7, OneThread
<1> QED
  BY <1>5, <1>6

\* An exchange between pB and pE disturbs nothing outside, and no order across them.
LEMMA SwapKeepsOrder ==
  ASSUME SelectionInv, NEW t \in Lane, Selecting(t),
         NEW i \in pB[t] .. pE[t] - 1, NEW j \in pB[t] .. pE[t] - 1, vals' = Swapped(i, j)
  PROVE  /\ vals' \in [0 .. call.threads * KernelDims1 - 1 -> Int]
         /\ vals'[i] = vals[j] /\ vals'[j] = vals[i]
         /\ \A n \in First(t) .. End(t) - 1 : n # i /\ n # j => vals'[n] = vals[n]
         /\ \A n \in 0 .. call.threads * KernelDims1 - 1 :
              n < First(t) \/ First(t) + KernelDims1 <= n => vals'[n] = vals[n]
         /\ \A m \in First(t) .. pB[t] - 1, n \in pB[t] .. End(t) - 1 : vals'[m] <= vals'[n]
         /\ \A m \in First(t) .. pE[t] - 1, n \in pE[t] .. End(t) - 1 : vals'[m] <= vals'[n]
<1> DEFINE T == call.threads * KernelDims1
           F == First(t)
           N == End(t)
           K == KernelDims1
<1>1. /\ F \in Nat /\ N \in Int /\ K \in Nat \ {0} /\ T \in Nat /\ F + K <= T /\ N <= F + K
      /\ pB[t] \in Int /\ pE[t] \in Int
  BY LaneNumbers
<1>2. /\ F <= pB[t] /\ pB[t] <= pE[t] /\ pE[t] <= N
      /\ \A m \in F .. pB[t] - 1, n \in pB[t] .. N - 1 : vals[m] <= vals[n]
      /\ \A m \in F .. pE[t] - 1, n \in pE[t] .. N - 1 : vals[m] <= vals[n]
  BY DEF Selecting
<1>3. i \in F .. F + K - 1 /\ j \in F .. F + K - 1
  BY <1>1, <1>2
<1>4. /\ vals' \in [0 .. T - 1 -> Int]
      /\ vals'[i] = vals[j] /\ vals'[j] = vals[i]
      /\ \A n \in 0 .. T - 1 : n # i /\ n # j => vals'[n] = vals[n]
  BY <1>3, SwapInPart
<1> HIDE DEF T, F, N, K
<1>5. \A n \in F .. N - 1 : n # i /\ n # j => vals'[n] = vals[n]
  BY <1>1, <1>4
<1>6. \A n \in 0 .. T - 1 : n < F \/ F + K <= n => vals'[n] = vals[n]
  BY <1>1, <1>3, <1>4
<1>7. \A m \in F .. pB[t] - 1, n \in pB[t] .. N - 1 : vals'[m] <= vals'[n]
  <2> SUFFICES ASSUME NEW m \in F .. pB[t] - 1, NEW n \in pB[t] .. N - 1
               PROVE  vals'[m] <= vals'[n]
    OBVIOUS
  <2>1. vals'[m] = vals[m]
    BY <1>1, <1>2, <1>5
  <2>2. n \in F .. N - 1
    BY <1>1, <1>2
  <2>3. vals'[n] = vals[n] \/ vals'[n] = vals[i] \/ vals'[n] = vals[j]
    BY <1>4, <1>5, <2>2
  <2> QED
    BY <1>1, <1>2, <2>1, <2>3
<1>8. \A m \in F .. pE[t] - 1, n \in pE[t] .. N - 1 : vals'[m] <= vals'[n]
  <2> SUFFICES ASSUME NEW m \in F .. pE[t] - 1, NEW n \in pE[t] .. N - 1
               PROVE  vals'[m] <= vals'[n]
    OBVIOUS
  <2>1. vals'[n] = vals[n]
    BY <1>1, <1>2, <1>5
  <2>2. m \in F .. N - 1
    BY <1>1, <1>2
  <2>3. vals'[m] = vals[m] \/ vals'[m] = vals[i] \/ vals'[m] = vals[j]
    BY <1>4, <1>5, <2>2
  <2> QED
    BY <1>1, <1>2, <2>1, <2>3
<1> QED
  BY <1>4, <1>5, <1>6, <1>7, <1>8 DEF T, F, N, K

\* A turn of the division keeps both sides on their sides of the pivot.
LEMMA DivideKeeps ==
  ASSUME SelectionInv, NEW t \in Lane, Divide(t)
  PROVE  SelectionInv'
<1>1. /\ at[t] = "divide" /\ b[t] < e[t]
      /\ UNCHANGED <<call, at, iterator, kernelVolume, pB, pE, k, medianOut>>
  BY DEF Divide
<1>2. Selecting(t) /\ Dividing(t)
  BY <1>1, LaneNumbers DEF LaneInv
<1>3. First(t)' = First(t) /\ End(t)' = End(t) /\ Middle(t)' = Middle(t)
  BY <1>1 DEF First, End, Middle, KernelDims1
<1>4. /\ pB[t] \in Int /\ pE[t] \in Int /\ b[t] \in Int /\ e[t] \in Int
      /\ First(t) \in Nat /\ End(t) \in Int
  BY LaneNumbers
<1>5. /\ pB[t] <= b[t] /\ b[t] < e[t] /\ e[t] <= pE[t] - 1
      /\ First(t) <= pB[t] /\ pE[t] <= End(t)
      /\ \A i \in pB[t] .. b[t] - 1 : vals[i] <= vals[pE[t] - 1]
      /\ \A i \in e[t] .. pE[t] - 2 : vals[i] > vals[pE[t] - 1]
  BY <1>1, <1>2 DEF Selecting, Dividing
<1>6. CASE vals[b[t]] > vals[pE[t] - 1]
  <2>1. e' = [e EXCEPT ![t] = e[t] - 1] /\ b' = b /\ vals' = Swapped(b[t], e[t] - 1)
    BY <1>6 DEF Divide
  <2>2. b[t] \in pB[t] .. pE[t] - 1 /\ e[t] - 1 \in pB[t] .. pE[t] - 1
    BY <1>4, <1>5
  <2>3. /\ vals' \in [0 .. call.threads * KernelDims1 - 1 -> Int]
        /\ vals'[e[t] - 1] = vals[b[t]]
        /\ \A n \in First(t) .. End(t) - 1 :
             n # b[t] /\ n # e[t] - 1 => vals'[n] = vals[n]
        /\ \A n \in 0 .. call.threads * KernelDims1 - 1 :
             n < First(t) \/ First(t) + KernelDims1 <= n => vals'[n] = vals[n]
        /\ \A m \in First(t) .. pB[t] - 1, n \in pB[t] .. End(t) - 1 : vals'[m] <= vals'[n]
        /\ \A m \in First(t) .. pE[t] - 1, n \in pE[t] .. End(t) - 1 : vals'[m] <= vals'[n]
    BY <1>2, <2>1, <2>2, SwapKeepsOrder
  <2>4. MedianTypeOK'
    BY <1>1, <1>4, <2>1, <2>3 DEF SelectionInv, MedianTypeOK, Lane, KernelDims1
  <2>5. e'[t] = e[t] - 1 /\ \A u \in Lane \ {t} : e'[u] = e[u]
    BY <2>1 DEF SelectionInv, MedianTypeOK
  <2>6. Selecting(t)'
    BY <1>1, <1>2, <1>3, <2>3 DEF Selecting
  <2>7. \A n \in pB[t] .. pE[t] - 1 : n # b[t] /\ n # e[t] - 1 => vals'[n] = vals[n]
    <3> SUFFICES ASSUME NEW n \in pB[t] .. pE[t] - 1, n # b[t], n # e[t] - 1
                 PROVE  vals'[n] = vals[n]
      OBVIOUS
    <3>1. n \in First(t) .. End(t) - 1
      BY <1>4, <1>5
    <3> QED
      BY <2>3, <3>1
  <2>8. vals'[pE[t] - 1] = vals[pE[t] - 1]
    <3>1. pE[t] - 1 \in pB[t] .. pE[t] - 1 /\ pE[t] - 1 # b[t] /\ pE[t] - 1 # e[t] - 1
      BY <1>4, <1>5
    <3> QED
      BY <2>7, <3>1
  <2>9. /\ \A i \in pB[t] .. b[t] - 1 : vals'[i] <= vals'[pE[t] - 1]
        /\ \A i \in e[t] - 1 .. pE[t] - 2 : vals'[i] > vals'[pE[t] - 1]
    <3>1. ASSUME NEW i \in pB[t] .. b[t] - 1 PROVE vals'[i] <= vals'[pE[t] - 1]
      <4>1. i \in pB[t] .. pE[t] - 1 /\ i # b[t] /\ i # e[t] - 1
        BY <1>4, <1>5
      <4> QED
        BY <1>5, <2>7, <2>8, <4>1
    <3>2. ASSUME NEW i \in e[t] - 1 .. pE[t] - 2 PROVE vals'[i] > vals'[pE[t] - 1]
      <4>1. CASE i = e[t] - 1
        BY <1>6, <2>3, <2>8, <4>1
      <4>2. CASE i # e[t] - 1
        <5>1. /\ i \in e[t] .. pE[t] - 2 /\ i \in pB[t] .. pE[t] - 1
              /\ i # b[t] /\ i # e[t] - 1
          BY <1>4, <1>5, <4>2
        <5> QED
          BY <1>5, <2>7, <2>8, <5>1
      <4> QED
        BY <4>1, <4>2
    <3> QED
      BY <3>1, <3>2
  <2>10. Dividing(t)'
    BY <1>1, <1>2, <1>4, <1>5, <2>1, <2>5, <2>9 DEF Dividing
  <2>11. LaneInv(t)'
    BY <1>1, <2>6, <2>10 DEF LaneInv
  <2> QED
    BY <1>1, <2>1, <2>3, <2>4, <2>5, <2>11, OneThread
<1>7. CASE ~ (vals[b[t]] > vals[pE[t] - 1])
  <2>1. b' = [b EXCEPT ![t] = b[t] + 1] /\ e' = e /\ vals' = vals
    BY <1>7 DEF Divide
  <2>2. MedianTypeOK'
    BY <1>1, <1>4, <2>1 DEF SelectionInv, MedianTypeOK, Lane, KernelDims1
  <2>3. b'[t] = b[t] + 1 /\ \A u \in Lane \ {t} : b'[u] = b[u]
    BY <2>1 DEF SelectionInv, MedianTypeOK
  <2>4. Selecting(t)'
    BY <1>1, <1>2, <1>3, <2>1 DEF Selecting
  <2>5. vals[b[t]] <= vals[pE[t] - 1]
    <3>1. b[t] \in First(t) .. First(t) + KernelDims1 - 1
      BY <1>4, <1>5, LaneNumbers
    <3>2. pE[t] - 1 \in First(t) .. First(t) + KernelDims1 - 1
      BY <1>4, <1>5, LaneNumbers
    <3>3. vals[b[t]] \in Int /\ vals[pE[t] - 1] \in Int
      BY <3>1, <3>2, LaneNumbers
    <3> QED
      BY <1>7, <3>3
  <2>6. \A i \in pB[t] .. b[t] : vals[i] <= vals[pE[t] - 1]
    BY <1>4, <1>5, <2>5
  <2>7. Dividing(t)'
    BY <1>1, <1>2, <1>4, <1>5, <2>1, <2>3, <2>6 DEF Dividing
  <2>8. LaneInv(t)'
    BY <1>1, <2>4, <2>7 DEF LaneInv
  <2> QED
    BY <1>1, <2>1, <2>2, <2>3, <2>8, OneThread
<1> QED
  BY <1>6, <1>7

\* Once the pivot is at e, everything in the part is on its side of it.
LEMMA PivotInPlace ==
  ASSUME SelectionInv, NEW t \in Lane, Selecting(t), Dividing(t), b[t] >= e[t],
         vals' = Swapped(pE[t] - 1, e[t])
  PROVE  /\ vals' \in [0 .. call.threads * KernelDims1 - 1 -> Int]
         /\ \A n \in 0 .. call.threads * KernelDims1 - 1 :
              n < First(t) \/ First(t) + KernelDims1 <= n => vals'[n] = vals[n]
         /\ \A m \in First(t) .. pB[t] - 1, n \in pB[t] .. End(t) - 1 : vals'[m] <= vals'[n]
         /\ \A m \in First(t) .. pE[t] - 1, n \in pE[t] .. End(t) - 1 : vals'[m] <= vals'[n]
         /\ pB[t] <= e[t] /\ e[t] < pE[t]
         /\ \A n \in First(t) .. End(t) - 1 : vals'[n] \in Int
         /\ \A n \in First(t) .. e[t] : vals'[n] <= vals'[e[t]]
         /\ \A n \in e[t] .. End(t) - 1 : vals'[e[t]] <= vals'[n]
<1> DEFINE T == call.threads * KernelDims1
           F == First(t)
           N == End(t)
           B == pB[t]
           E == pE[t]
           x == e[t]
<1>1. /\ F \in Nat /\ N \in Int /\ B \in Int /\ E \in Int /\ x \in Int /\ b[t] \in Int
      /\ T \in Nat /\ F + KernelDims1 <= T /\ N <= F + KernelDims1 /\ KernelDims1 \in Nat
  BY LaneNumbers
<1>2. /\ F <= B /\ B <= E /\ E <= N
      /\ B <= b[t] /\ b[t] <= x /\ x <= E - 1 /\ b[t] >= x
      /\ \A i \in B .. b[t] - 1 : vals[i] <= vals[E - 1]
      /\ \A i \in x .. E - 2 : vals[i] > vals[E - 1]
  BY DEF Selecting, Dividing
<1>3. E - 1 \in B .. E - 1 /\ x \in B .. E - 1 /\ b[t] = x
  BY <1>1, <1>2
<1>4. /\ vals' \in [0 .. T - 1 -> Int]
      /\ vals'[E - 1] = vals[x] /\ vals'[x] = vals[E - 1]
      /\ \A n \in F .. N - 1 : n # E - 1 /\ n # x => vals'[n] = vals[n]
      /\ \A n \in 0 .. T - 1 : n < F \/ F + KernelDims1 <= n => vals'[n] = vals[n]
      /\ \A m \in F .. B - 1, n \in B .. N - 1 : vals'[m] <= vals'[n]
      /\ \A m \in F .. E - 1, n \in E .. N - 1 : vals'[m] <= vals'[n]
  BY <1>3, SwapKeepsOrder
<1> HIDE DEF T, F, N, B, E, x
<1>5. \A n \in F .. N - 1 : vals'[n] \in Int
  BY <1>1, <1>4
<1>6. vals'[x] \in Int
  BY <1>1, <1>2, <1>3, <1>5
<1>7. ASSUME NEW n \in F .. x PROVE vals'[n] <= vals'[x]
  <2>1. CASE n < B
    BY <1>1, <1>2, <1>3, <1>4, <2>1
  <2>2. CASE n = x
    BY <1>6, <2>2
  <2>3. CASE B <= n /\ n < x
    <3>1. n \in B .. b[t] - 1 /\ n \in F .. N - 1 /\ n # E - 1 /\ n # x
      BY <1>1, <1>2, <1>3, <2>3
    <3> QED
      BY <1>2, <1>4, <3>1
  <2> QED
    BY <1>1, <1>7, <2>1, <2>2, <2>3
<1>8. ASSUME NEW n \in x .. N - 1 PROVE vals'[x] <= vals'[n]
  <2>1. CASE E <= n
    <3>1. x \in F .. E - 1 /\ n \in E .. N - 1
      BY <1>1, <1>2, <1>3, <2>1
    <3> QED
      BY <1>4, <3>1
  <2>2. CASE n = x
    BY <1>6, <2>2
  <2>3. CASE x < n /\ n < E - 1
    <3>1. n \in x .. E - 2 /\ n \in F .. N - 1 /\ n # E - 1 /\ n # x
      BY <1>1, <1>2, <1>3, <2>3
    <3>2. vals[n] > vals[E - 1] /\ vals'[n] = vals[n] /\ vals'[n] \in Int
      BY <1>2, <1>4, <1>5, <3>1
    <3> QED
      BY <1>4, <1>6, <3>2
  <2>4. CASE x < n /\ n = E - 1
    <3>1. x \in x .. E - 2 /\ n \in F .. N - 1
      BY <1>1, <1>2, <1>3, <2>4
    <3>2. vals[x] > vals[E - 1] /\ vals'[n] = vals[x] /\ vals'[n] \in Int
      BY <1>2, <1>4, <1>5, <2>4, <3>1
    <3> QED
      BY <1>4, <1>6, <3>2
  <2> QED
    BY <1>1, <1>8, <2>1, <2>2, <2>3, <2>4
<1>9. B <= x /\ x < E
  BY <1>1, <1>2, <1>3
<1> QED
  BY <1>4, <1>5, <1>7, <1>8, <1>9 DEF T, F, N, B, E, x

\* The pivot is put between the two sides.
LEMMA PlacePivotKeeps ==
  ASSUME SelectionInv, NEW t \in Lane, PlacePivot(t)
  PROVE  SelectionInv'
<1> DEFINE F == First(t)
           N == End(t)
           M == Middle(t)
           B == pB[t]
           E == pE[t]
           x == e[t]
           c == k[t]
<1>1. /\ at[t] = "divide" /\ b[t] >= e[t] /\ GoOn(t)
      /\ vals' = Swapped(pE[t] - 1, e[t])
      /\ UNCHANGED <<call, iterator, kernelVolume, b, e, medianOut>>
  BY DEF PlacePivot
<1>2. Selecting(t) /\ Dividing(t)
  BY <1>1, LaneNumbers DEF LaneInv
<1>3. /\ vals' \in [0 .. call.threads * KernelDims1 - 1 -> Int]
      /\ \A n \in 0 .. call.threads * KernelDims1 - 1 :
           n < First(t) \/ First(t) + KernelDims1 <= n => vals'[n] = vals[n]
  BY <1>1, <1>2, PivotInPlace
<1>4. /\ \A m \in F .. B - 1, n \in B .. N - 1 : vals'[m] <= vals'[n]
      /\ \A m \in F .. E - 1, n \in E .. N - 1 : vals'[m] <= vals'[n]
      /\ B <= x /\ x < E
      /\ \A n \in F .. N - 1 : vals'[n] \in Int
      /\ \A n \in F .. x : vals'[n] <= vals'[x]
      /\ \A n \in x .. N - 1 : vals'[x] <= vals'[n]
  BY <1>1, <1>2, PivotInPlace
<1>5. /\ F \in Nat /\ N \in Int /\ M \in Int /\ B \in Int /\ E \in Int /\ x \in Int /\ c \in Int
      /\ F <= B /\ E <= N /\ 0 <= c /\ B + c = M /\ B + c < E /\ kernelVolume[t] > 0
  BY <1>2, LaneNumbers DEF Selecting, Dividing
<1>6. First(t)' = F /\ End(t)' = N /\ Middle(t)' = M /\ kernelVolume'[t] = kernelVolume[t]
  BY <1>1 DEF First, End, Middle, KernelDims1
<1>7. \A m \in F .. x, n \in x .. N - 1 : vals'[m] <= vals'[n]
  <2> HIDE DEF F, N, M, B, E, x, c
  <2> SUFFICES ASSUME NEW m \in F .. x, NEW n \in x .. N - 1 PROVE vals'[m] <= vals'[n]
    OBVIOUS
  <2>1. m \in F .. N - 1 /\ n \in F .. N - 1 /\ x \in F .. N - 1
    BY <1>4, <1>5
  <2> QED
    BY <1>4, <2>1
<1>8. CASE x - B = c
  <2>1. at' = [at EXCEPT ![t] = "write"] /\ UNCHANGED <<pB, pE, k>>
    BY <1>1, <1>5, <1>8 DEF GoOn
  <2>2. MedianTypeOK'
    BY <1>1, <1>3, <2>1 DEF SelectionInv, MedianTypeOK, Lane, KernelDims1
  <2>3. at'[t] = "write" /\ \A u \in Lane \ {t} : at'[u] = at[u]
    BY <2>1 DEF SelectionInv, MedianTypeOK
  <2>4. Selecting(t)'
    BY <1>2, <1>4, <1>6, <2>1 DEF Selecting
  <2>5. x = M
    BY <1>5, <1>8
  <2>6. /\ \A i \in F .. M - 1 : vals'[i] <= vals'[M]
        /\ \A i \in M + 1 .. N - 1 : vals'[M] <= vals'[i]
    <3> HIDE DEF F, N, M, B, E, x, c
    <3> QED
      BY <1>4, <1>5, <2>5
  <2>7. Selected(t)'
    BY <1>5, <1>6, <2>6 DEF Selected
  <2>8. LaneInv(t)'
    BY <2>3, <2>4, <2>7 DEF LaneInv
  <2> QED
    BY <1>1, <1>3, <2>1, <2>2, <2>3, <2>8, OneThread
<1>9. CASE x - B > c
  <2>1. /\ pE' = [pE EXCEPT ![t] = x] /\ at' = [at EXCEPT ![t] = "select"]
        /\ UNCHANGED <<pB, k>>
    BY <1>1, <1>5, <1>9 DEF GoOn
  <2>2. MedianTypeOK'
    BY <1>1, <1>3, <1>5, <2>1 DEF SelectionInv, MedianTypeOK, Lane, KernelDims1
  <2>3. /\ at'[t] = "select" /\ pE'[t] = x
        /\ \A u \in Lane \ {t} : at'[u] = at[u] /\ pE'[u] = pE[u]
    BY <2>1 DEF SelectionInv, MedianTypeOK
  <2>4. /\ \A m \in F .. x - 1, n \in x .. N - 1 : vals'[m] <= vals'[n]
        /\ x <= N /\ B + c < x
    <3> HIDE DEF F, N, M, B, E, x, c
    <3> QED
      BY <1>4, <1>5, <1>7, <1>9
  <2>5. Selecting(t)'
    BY <1>4, <1>5, <1>6, <2>1, <2>3, <2>4 DEF Selecting
  <2>6. LaneInv(t)'
    BY <2>3, <2>5 DEF LaneInv
  <2> QED
    BY <1>1, <1>3, <2>1, <2>2, <2>3, <2>6, OneThread
<1>10. CASE x - B < c
  <2>1. /\ pB' = [pB EXCEPT ![t] = x + 1] /\ k' = [k EXCEPT ![t] = c - (x - B + 1)]
        /\ at' = [at EXCEPT ![t] = "select"] /\ UNCHANGED pE
    <3>1. GoOn(t) /\ ~ (x - B = c) /\ ~ (x - B > c)
      BY <1>1, <1>5, <1>10
    <3> QED
      BY <3>1 DEF GoOn
  <2>2. MedianTypeOK'
    <3>1. x + 1 \in Int /\ c - (x - B + 1) \in Int
      BY <1>5
    <3>2. pB' \in [Lane -> Int] /\ k' \in [Lane -> Int]
      <4> HIDE DEF B, x, c
      <4> QED
        BY <2>1, <3>1 DEF SelectionInv, MedianTypeOK
    <3>3. at' \in [Lane -> {"gather", "select", "divide", "write", "done", "undefined"}]
      BY <2>1 DEF SelectionInv, MedianTypeOK
    <3> QED
      BY <1>1, <1>3, <2>1, <3>2, <3>3 DEF SelectionInv, MedianTypeOK, Lane, KernelDims1
  <2>3. /\ at'[t] = "select" /\ pB'[t] = x + 1 /\ k'[t] = c - (x - B + 1)
        /\ \A u \in Lane \ {t} : at'[u] = at[u] /\ pB'[u] = pB[u] /\ k'[u] = k[u]
    BY <2>1 DEF SelectionInv, MedianTypeOK
  <2>4. /\ \A m \in F .. x + 1 - 1, n \in x + 1 .. N - 1 : vals'[m] <= vals'[n]
        /\ F <= x + 1 /\ x + 1 <= E /\ 0 <= c - (x - B + 1)
        /\ x + 1 + (c - (x - B + 1)) = M /\ x + 1 + (c - (x - B + 1)) < E
    <3> HIDE DEF F, N, M, B, E, x, c
    <3> QED
      BY <1>4, <1>5, <1>7, <1>10
  <2>5. Selecting(t)'
    BY <1>4, <1>5, <1>6, <2>1, <2>3, <2>4 DEF Selecting
  <2>6. LaneInv(t)'
    BY <2>3, <2>5 DEF LaneInv
  <2> QED
    BY <1>1, <1>3, <2>1, <2>2, <2>3, <2>6, OneThread
<1> QED
  BY <1>5, <1>8, <1>9, <1>10

\* Writing the result touches no part.
LEMMA WriteMedianKeeps ==
  ASSUME SelectionInv, NEW t \in Lane, WriteMedian(t)
  PROVE  SelectionInv'
<1>1. /\ at[t] = "write" /\ at' = [at EXCEPT ![t] = "done"]
      /\ medianOut' = [medianOut EXCEPT ![t] = vals[Middle(t)]]
      /\ UNCHANGED <<call, iterator, kernelVolume, pB, pE, k, b, e, vals>>
  BY LaneNumbers DEF WriteMedian, Middle
<1>2. Selected(t)
  BY <1>1, LaneNumbers DEF LaneInv
<1>3. vals[Middle(t)] \in Int
  <2>1. Middle(t) \in First(t) .. First(t) + KernelDims1 - 1
    BY <1>2, LaneNumbers DEF Selected
  <2> QED
    BY <2>1, LaneNumbers
<1>4. MedianTypeOK'
  BY <1>1, <1>3 DEF SelectionInv, MedianTypeOK, Lane, KernelDims1
<1>5. /\ at'[t] = "done" /\ medianOut'[t] = vals[Middle(t)]
      /\ \A u \in Lane \ {t} : at'[u] = at[u] /\ medianOut'[u] = medianOut[u]
  BY <1>1 DEF SelectionInv, MedianTypeOK
<1>6. Selected(t)' /\ Middle(t)' = Middle(t)
  BY <1>1, <1>2 DEF Selected, First, End, Middle, KernelDims1
<1>7. LaneInv(t)'
  BY <1>1, <1>5, <1>6 DEF LaneInv
<1> QED
  BY <1>1, <1>4, <1>5, <1>7, OneThread

\* The invariant holds when a block is launched.
LEMMA LaunchSelects == MedianInit => SelectionInv
<1> SUFFICES ASSUME MedianInit PROVE SelectionInv
  OBVIOUS
<1>1. MedianCall(call)
  BY MedianAssumption DEF MedianInit
<1>2. \A t \in Lane : threadCoordinate(t) \in Nat
  BY <1>1, Sizes
<1>3. /\ KernelDims1 \in Nat \ {0} /\ call.length \in Nat \ {0}
  BY <1>1, Sizes
<1>4. ASSUME NEW t \in Lane, threadCoordinate(t) < call.length
      PROVE  Gathering(t) /\ kernelStartIdx(threadCoordinate(t)) \in Int
  <2>1. threadCoordinate(t) \in 0 .. call.length - 1
    BY <1>2, <1>3, <1>4
  <2>2. kernelStartIdx(threadCoordinate(t)) <= kernelEndIdx(threadCoordinate(t))
    <3> DEFINE v == threadCoordinate(t)
               r == call.radius
               n == call.length
    <3>1. /\ kernelStartIdx(v) = IF v < r THEN r - v ELSE 0
          /\ kernelEndIdx(v) = IF v + r > n - 1 THEN 2 * r - (v + r - (n - 1)) ELSE 2 * r
          /\ r \in Nat /\ n \in Nat \ {0} /\ v \in 0 .. n - 1
      BY <1>1, <2>1, Sizes DEF kernelStartIdx, kernelEndIdx
    <3> HIDE DEF v, r, n
    <3>2. kernelStartIdx(v) <= kernelEndIdx(v)
      BY <3>1
    <3> QED
      BY <3>2 DEF v
  <2>3. /\ kernelStartIdx(threadCoordinate(t)) \in Int
        /\ kernelEndIdx(threadCoordinate(t)) \in Int
    BY <1>1, <2>1, NeighbourhoodFits
  <2>4. /\ iterator[t] = kernelStartIdx(threadCoordinate(t)) /\ kernelVolume[t] = 0
    BY DEF MedianInit
  <2> QED
    BY <1>4, <2>2, <2>3, <2>4 DEF Gathering
<1>5. \A t \in Lane : kernelStartIdx(threadCoordinate(t)) \in Int
  <2> SUFFICES ASSUME NEW t \in Lane PROVE kernelStartIdx(threadCoordinate(t)) \in Int
    OBVIOUS
  <2>1. threadCoordinate(t) \in Nat /\ call.radius \in Nat
    BY <1>1, <1>2, Sizes
  <2> QED
    BY <2>1 DEF kernelStartIdx
<1>6. MedianTypeOK
  BY <1>1, <1>3, <1>5 DEF MedianInit, MedianTypeOK, Uninitialised
<1>7. ASSUME NEW t \in Lane PROVE LaneInv(t)
  <2>1. at[t] = IF threadCoordinate(t) < call.length THEN "gather" ELSE "done"
    BY DEF MedianInit
  <2> QED
    BY <1>4, <2>1 DEF LaneInv
<1> QED
  BY <1>6, <1>7 DEF SelectionInv

\* A stuttering step keeps everything.
LEMMA StutterSelects ==
  ASSUME SelectionInv, UNCHANGED medianVars
  PROVE  SelectionInv'
<1>1. UNCHANGED <<call, at, iterator, kernelVolume, pB, pE, k, b, e, vals, medianOut>>
  BY DEF medianVars
<1>2. MedianTypeOK' /\ Lane' = Lane
  BY <1>1 DEF SelectionInv, MedianTypeOK, Lane, KernelDims1
<1>3. ASSUME NEW t \in Lane PROVE LaneInv(t)'
  BY <1>1, Others
<1> QED
  BY <1>2, <1>3 DEF SelectionInv

\* Every step of every thread keeps it.
LEMMA SelectionSteps ==
  ASSUME SelectionInv, [MedianNext]_medianVars
  PROVE  SelectionInv'
<1>1. ASSUME NEW t \in Lane, Gather(t) PROVE SelectionInv'
  BY <1>1, GatherKeeps
<1>2. ASSUME NEW t \in Lane, FindMedian(t) PROVE SelectionInv'
  BY <1>2, FindMedianKeeps
<1>3. ASSUME NEW t \in Lane, SubDivide(t) PROVE SelectionInv'
  BY <1>3, SubDivideKeeps
<1>4. ASSUME NEW t \in Lane, Divide(t) PROVE SelectionInv'
  BY <1>4, DivideKeeps
<1>5. ASSUME NEW t \in Lane, PlacePivot(t) PROVE SelectionInv'
  BY <1>5, PlacePivotKeeps
<1>6. ASSUME NEW t \in Lane, WriteMedian(t) PROVE SelectionInv'
  BY <1>6, WriteMedianKeeps
<1>7. CASE UNCHANGED medianVars
  BY <1>7, StutterSelects
<1> QED
  BY <1>1, <1>2, <1>3, <1>4, <1>5, <1>6, <1>7 DEF MedianNext, Step

\* cudaMedianFilter: whatever the image, the kernel and the block, and however its threads
\* interleave, every thread's selection is where it should be, and what it writes has
\* nothing larger before it and nothing smaller after it.
THEOREM SelectionHolds == MedianSpec => []SelectionInv
<1>1. MedianInit => SelectionInv
  BY LaunchSelects
<1>2. SelectionInv /\ [MedianNext]_medianVars => SelectionInv'
  BY SelectionSteps
<1> QED
  BY <1>1, <1>2, PTL DEF MedianSpec

\* The threads share the memory of their block with no more than their own arithmetic
\* between them: what a thread touches next is its own part, unless its voxel has no
\* weighted neighbour at all.
THEOREM LanesKeepApartHolds == MedianSpec => []LanesKeepApart
<1>1. SelectionInv => LanesKeepApart
  <2> SUFFICES ASSUME SelectionInv, NEW t \in Lane
               PROVE  /\ Touched(t) \subseteq Part(t)
                      /\ at[t] = "undefined" => kernelVolume[t] = 0
    BY DEF LanesKeepApart
  <2>1. LaneInv(t) /\ sharedMemOffset(t) = First(t)
    BY LaneNumbers
  <2>2. CASE at[t] = "gather"
    <3>1. CASE iterator[t] <= kernelEndIdx(threadCoordinate(t))
      <4> DEFINE v == threadCoordinate(t)
      <4>1. /\ v \in 0 .. call.length - 1 /\ iterator[t] \in kernelStartIdx(v) .. kernelEndIdx(v)
            /\ kernelVolume[t] <= iterator[t] - kernelStartIdx(v)
        BY <2>1, <2>2, <3>1, LaneNumbers, Sizes DEF LaneInv, Gathering
      <4>2. /\ kernelStartIdx(v) \in 0 .. 2 * call.radius
            /\ kernelEndIdx(v) \in 0 .. 2 * call.radius
        BY <4>1, LaneNumbers, NeighbourhoodFits
      <4>3. /\ kernelVolume[t] \in Nat /\ First(t) \in Nat /\ call.radius \in Nat
            /\ KernelDims1 = 2 * call.radius + 1
        BY LaneNumbers, Sizes DEF KernelDims1
      <4>4. First(t) + kernelVolume[t] \in Part(t)
        BY <4>1, <4>2, <4>3 DEF Part
      <4> QED
        BY <2>1, <2>2, <3>1, <4>4 DEF Touched
    <3>2. CASE ~ (iterator[t] <= kernelEndIdx(threadCoordinate(t)))
      BY <2>2, <3>2 DEF Touched
    <3> QED
      BY <2>2, <3>1, <3>2
  <2>3. CASE at[t] = "divide"
    <3>1. Selecting(t) /\ Dividing(t)
      BY <2>1, <2>3 DEF LaneInv
    <3>2. /\ First(t) <= pB[t] /\ pE[t] <= First(t) + KernelDims1
          /\ pB[t] <= b[t] /\ b[t] <= e[t] /\ e[t] <= pE[t] - 1
          /\ First(t) \in Nat /\ KernelDims1 \in Nat /\ pB[t] \in Int /\ pE[t] \in Int
          /\ b[t] \in Int /\ e[t] \in Int
      BY <3>1, LaneNumbers DEF Selecting, Dividing
    <3>3. /\ e[t] \in Part(t) /\ pE[t] - 1 \in Part(t)
          /\ b[t] < e[t] => b[t] \in Part(t) /\ e[t] - 1 \in Part(t)
      BY <3>2 DEF Part
    <3> QED
      BY <2>3, <3>3 DEF Touched
  <2>4. CASE at[t] = "write"
    <3>1. Selected(t)
      BY <2>1, <2>4 DEF LaneInv
    <3>2. Middle(t) \in Part(t)
      BY <3>1, LaneNumbers DEF Selected, Part
    <3> QED
      BY <2>1, <2>4, <3>2 DEF Touched, Middle
  <2>5. CASE at[t] \notin {"gather", "divide", "write"}
    BY <2>1, <2>5 DEF Touched, LaneInv
  <2> QED
    BY <2>2, <2>3, <2>4, <2>5
<1> QED
  BY <1>1, SelectionHolds, PTL

-----------------------------------------------------------------------------
(***************************************************************************)
(* What the part of a thread holds: every weighted neighbour it has looked *)
(* at, each at one place, wherever the exchanges have taken it.            *)
(***************************************************************************)
Looked(t) == {j \in Weighted(threadCoordinate(t)) : j < iterator[t]}
Filled(t) == First(t) .. End(t) - 1

HoldsNeighbours(t) ==
  \E g \in Bijection(Filled(t), Looked(t)) :
    \A i \in Filled(t) : vals[i] = Neighbour(threadCoordinate(t), g[i])

\* A thread of the image holds what it has looked at, and has looked at its whole
\* neighbourhood when it begins to select.
NeighboursInv(t) ==
  threadCoordinate(t) < call.length =>
    /\ HoldsNeighbours(t)
    /\ at[t] # "gather" => iterator[t] > kernelEndIdx(threadCoordinate(t))

MedianInv == SelectionInv /\ \A t \in Lane : NeighboursInv(t)

\* A bijection, element by element.
LEMMA BijectionIs ==
  ASSUME NEW S, NEW T, NEW g
  PROVE  g \in Bijection(S, T) <=>
           /\ g \in [S -> T]
           /\ \A x, y \in S : g[x] = g[y] => x = y
           /\ \A y \in T : \E x \in S : g[x] = y
BY DEF Bijection, Injection, Surjection, IsInjective

\* A bijection stays one when two of its values are exchanged.
LEMMA ExchangedBijection ==
  ASSUME NEW S, NEW T, NEW g \in Bijection(S, T), NEW i \in S, NEW j \in S
  PROVE  [n \in S |-> IF n = i THEN g[j] ELSE IF n = j THEN g[i] ELSE g[n]] \in Bijection(S, T)
<1> DEFINE h == [n \in S |-> IF n = i THEN g[j] ELSE IF n = j THEN g[i] ELSE g[n]]
<1>1. /\ g \in [S -> T]
      /\ \A x, y \in S : g[x] = g[y] => x = y
      /\ \A y \in T : \E x \in S : g[x] = y
  BY BijectionIs
<1>2. h \in [S -> T]
  BY <1>1
<1>3. /\ h[i] = g[j] /\ h[j] = g[i]
      /\ \A n \in S : n # i /\ n # j => h[n] = g[n]
  OBVIOUS
<1> HIDE DEF h
<1>4. \A x, y \in S : h[x] = h[y] => x = y
  BY <1>1, <1>3
<1>5. ASSUME NEW y \in T PROVE \E x \in S : h[x] = y
  <2>1. PICK x \in S : g[x] = y
    BY <1>1
  <2>2. h[i] = y \/ h[j] = y \/ h[x] = y
    BY <1>3, <2>1
  <2> QED
    BY <2>2
<1>6. h \in Bijection(S, T)
  BY <1>2, <1>4, <1>5, BijectionIs
<1> QED
  BY <1>6 DEF h

\* A bijection stays one when something new is given something new.
LEMMA ExtendedBijection ==
  ASSUME NEW S, NEW T, NEW g \in Bijection(S, T), NEW p, p \notin S, NEW z, z \notin T
  PROVE  [n \in S \cup {p} |-> IF n = p THEN z ELSE g[n]] \in Bijection(S \cup {p}, T \cup {z})
<1> DEFINE h == [n \in S \cup {p} |-> IF n = p THEN z ELSE g[n]]
<1>1. /\ g \in [S -> T]
      /\ \A x, y \in S : g[x] = g[y] => x = y
      /\ \A y \in T : \E x \in S : g[x] = y
  BY BijectionIs
<1>2. h \in [S \cup {p} -> T \cup {z}]
  BY <1>1
<1>3. h[p] = z /\ \A n \in S : h[n] = g[n] /\ g[n] \in T /\ n # p
  BY <1>1
<1> HIDE DEF h
<1>4. \A x, y \in S \cup {p} : h[x] = h[y] => x = y
  BY <1>1, <1>3
<1>5. \A y \in T \cup {z} : \E x \in S \cup {p} : h[x] = y
  BY <1>1, <1>3
<1>6. h \in Bijection(S \cup {p}, T \cup {z})
  BY <1>2, <1>4, <1>5, BijectionIs
<1> QED
  BY <1>6 DEF h

\* The numbers of a thread of the image, and that its neighbourhood keeps its shape.
LEMMA NeighbourhoodStays ==
  ASSUME NEW t, call' = call
  PROVE  /\ threadCoordinate(t)' = threadCoordinate(t) /\ First(t)' = First(t)
         /\ KernelDims1' = KernelDims1
         /\ Weighted(threadCoordinate(t))' = Weighted(threadCoordinate(t))
         /\ kernelEndIdx(threadCoordinate(t))' = kernelEndIdx(threadCoordinate(t))
         /\ kernelStartIdx(threadCoordinate(t))' = kernelStartIdx(threadCoordinate(t))
         /\ \A j : Neighbour(threadCoordinate(t), j)' = Neighbour(threadCoordinate(t), j)
BY DEF threadCoordinate, First, KernelDims1, Weighted, kernelStartIdx, kernelEndIdx, Neighbour

\* What a thread holds stays while nothing is stored there and it looks at nothing.
LEMMA HoldsOn ==
  ASSUME NEW t, call' = call, iterator'[t] = iterator[t], kernelVolume'[t] = kernelVolume[t],
         \A i \in Filled(t) : vals'[i] = vals[i], HoldsNeighbours(t)
  PROVE  HoldsNeighbours(t)'
<1>1. Filled(t)' = Filled(t) /\ Looked(t)' = Looked(t)
  BY NeighbourhoodStays DEF Filled, Looked, End
<1>2. PICK g \in Bijection(Filled(t), Looked(t)) :
        \A i \in Filled(t) : vals[i] = Neighbour(threadCoordinate(t), g[i])
  BY DEF HoldsNeighbours
<1>3. \A i \in Filled(t)' : vals'[i] = Neighbour(threadCoordinate(t), g[i])'
  BY <1>1, <1>2, NeighbourhoodStays
<1>4. g \in Bijection(Filled(t), Looked(t))'
  BY <1>1, <1>2
<1> QED
  BY <1>3, <1>4 DEF HoldsNeighbours

\* It stays when two of its places are exchanged.
LEMMA HoldsThroughExchange ==
  ASSUME SelectionInv, NEW t \in Lane, call' = call, iterator'[t] = iterator[t],
         kernelVolume'[t] = kernelVolume[t], HoldsNeighbours(t),
         NEW p \in Filled(t), NEW q \in Filled(t), vals' = Swapped(p, q)
  PROVE  HoldsNeighbours(t)'
<1>1. Filled(t)' = Filled(t) /\ Looked(t)' = Looked(t)
  BY NeighbourhoodStays DEF Filled, Looked, End
<1>2. PICK g \in Bijection(Filled(t), Looked(t)) :
        \A i \in Filled(t) : vals[i] = Neighbour(threadCoordinate(t), g[i])
  BY DEF HoldsNeighbours
<1> DEFINE h == [n \in Filled(t) |-> IF n = p THEN g[q] ELSE IF n = q THEN g[p] ELSE g[n]]
<1>3. h \in Bijection(Filled(t), Looked(t))
  BY <1>2, ExchangedBijection
<1>4. /\ vals'[p] = vals[q] /\ vals'[q] = vals[p]
      /\ \A n \in Filled(t) : n # p /\ n # q => vals'[n] = vals[n]
  <2> DEFINE T == call.threads * KernelDims1
  <2>1. /\ First(t) \in Nat /\ End(t) \in Int /\ End(t) <= First(t) + KernelDims1
        /\ KernelDims1 \in Nat /\ T \in Nat /\ First(t) + KernelDims1 <= T
    BY LaneNumbers
  <2>2. /\ p \in First(t) .. First(t) + KernelDims1 - 1
        /\ q \in First(t) .. First(t) + KernelDims1 - 1
    BY <2>1 DEF Filled
  <2>3. /\ vals'[p] = vals[q] /\ vals'[q] = vals[p]
        /\ \A n \in 0 .. T - 1 : n # p /\ n # q => vals'[n] = vals[n]
    BY <2>2, SwapInPart
  <2> HIDE DEF T
  <2>4. \A n \in Filled(t) : n \in 0 .. T - 1
    BY <2>1 DEF Filled
  <2> QED
    BY <2>3, <2>4
<1>5. /\ h[p] = g[q] /\ h[q] = g[p]
      /\ \A n \in Filled(t) : n # p /\ n # q => h[n] = g[n]
  OBVIOUS
<1> HIDE DEF h
<1>6. \A i \in Filled(t) : vals'[i] = Neighbour(threadCoordinate(t), h[i])
  BY <1>2, <1>4, <1>5
<1>7. PICK f \in Bijection(Filled(t), Looked(t)) :
        \A i \in Filled(t) : vals'[i] = Neighbour(threadCoordinate(t), f[i])
  BY <1>3, <1>6
<1>8. \A i \in Filled(t)' : vals'[i] = Neighbour(threadCoordinate(t), f[i])'
  BY <1>1, <1>7, NeighbourhoodStays
<1> QED
  BY <1>1, <1>7, <1>8 DEF HoldsNeighbours

\* A turn of the loop over the neighbourhood adds the neighbour it looks at.
LEMMA HoldsThroughGather ==
  ASSUME SelectionInv, NEW t \in Lane, Gather(t), HoldsNeighbours(t)
  PROVE  HoldsNeighbours(t)'
<1> DEFINE v == threadCoordinate(t)
           j == iterator[t]
<1>1. /\ v \in 0 .. call.length - 1 /\ j \in kernelStartIdx(v) .. kernelEndIdx(v)
      /\ kernelVolume[t] <= j - kernelStartIdx(v)
  BY LaneNumbers, Sizes DEF Gather, LaneInv, Gathering
<1>2. /\ kernelStartIdx(v) \in Int /\ kernelEndIdx(v) \in Int
      /\ kernelStartIdx(v) \in 0 .. 2 * call.radius /\ kernelEndIdx(v) \in 0 .. 2 * call.radius
  BY <1>1, LaneNumbers, NeighbourhoodFits
<1>3. call' = call /\ iterator'[t] = j + 1
  BY DEF Gather, SelectionInv, MedianTypeOK
<1>4. CASE ~ call.weighted[j]
  <2>1. vals' = vals /\ kernelVolume' = kernelVolume
    BY <1>4 DEF Gather
  <2>2. Looked(t)' = Looked(t)
    <3>1. Looked(t)' = {i \in Weighted(v) : i < j + 1} /\ Looked(t) = {i \in Weighted(v) : i < j}
      BY <1>3, NeighbourhoodStays DEF Looked
    <3>2. j \notin Weighted(v) /\ \A i \in Weighted(v) : i \in Int
      BY <1>2, <1>4 DEF Weighted
    <3>3. j \in Int
      BY <1>1, <1>2
    <3> HIDE DEF v, j
    <3> QED
      BY <3>1, <3>2, <3>3
  <2>3. Filled(t)' = Filled(t)
    BY <1>3, <2>1, NeighbourhoodStays DEF Filled, End
  <2>4. PICK g \in Bijection(Filled(t), Looked(t)) :
          \A i \in Filled(t) : vals[i] = Neighbour(v, g[i])
    BY DEF HoldsNeighbours
  <2>5. \A i \in Filled(t)' : vals'[i] = Neighbour(v, g[i])'
    BY <1>3, <2>1, <2>3, <2>4, NeighbourhoodStays
  <2> QED
    BY <2>2, <2>3, <2>4, <2>5 DEF HoldsNeighbours
<1>5. CASE call.weighted[j]
  <2>1. /\ vals' = [vals EXCEPT ![End(t)] = Neighbour(v, j)]
        /\ kernelVolume'[t] = kernelVolume[t] + 1
    BY <1>5, LaneNumbers DEF Gather, End, SelectionInv, MedianTypeOK
  <2>2. /\ First(t) \in Nat /\ kernelVolume[t] \in Nat /\ call.radius \in Nat
        /\ End(t) = First(t) + kernelVolume[t] /\ KernelDims1 = 2 * call.radius + 1
    BY LaneNumbers, Sizes DEF KernelDims1
  <2>3. /\ Filled(t)' = Filled(t) \cup {End(t)} /\ End(t) \notin Filled(t)
    <3> DEFINE a == First(t)
               n == kernelVolume[t]
    <3>1. First(t)' = a /\ End(t)' = a + (n + 1)
      BY <1>3, <2>1 DEF End, First, KernelDims1
    <3>2. Filled(t)' = a .. a + (n + 1) - 1
      BY <2>2, <3>1 DEF Filled
    <3>3. a \in Nat /\ n \in Nat /\ End(t) = a + n /\ Filled(t) = a .. a + n - 1
      BY <2>2 DEF Filled
    <3> HIDE DEF v, j, a, n
    <3> QED
      BY <3>2, <3>3
  <2>4. Looked(t)' = Looked(t) \cup {j} /\ j \notin Looked(t)
    <3>1. Looked(t)' = {i \in Weighted(v) : i < j + 1} /\ Looked(t) = {i \in Weighted(v) : i < j}
      BY <1>3, NeighbourhoodStays DEF Looked
    <3>2. j \in Weighted(v) /\ \A i \in Weighted(v) : i \in Int
      BY <1>1, <1>2, <1>5 DEF Weighted
    <3> HIDE DEF v, j
    <3> QED
      BY <3>1, <3>2
  <2>5. PICK g \in Bijection(Filled(t), Looked(t)) :
          \A i \in Filled(t) : vals[i] = Neighbour(v, g[i])
    BY DEF HoldsNeighbours
  <2> DEFINE h == [n \in Filled(t) \cup {End(t)} |-> IF n = End(t) THEN j ELSE g[n]]
  <2>6. h \in Bijection(Filled(t) \cup {End(t)}, Looked(t) \cup {j})
    BY <2>3, <2>4, <2>5, ExtendedBijection
  <2>7. End(t) \in First(t) .. First(t) + KernelDims1 - 1
    BY <1>1, <1>2, <2>2
  <2>8. End(t) \in DOMAIN vals
    BY <2>7, StoreInPart
  <2>9. \A i \in Filled(t) \cup {End(t)} : vals'[i] = Neighbour(v, h[i])
    <3>1. vals'[End(t)] = Neighbour(v, j) /\ h[End(t)] = j
      BY <2>1, <2>8
    <3>2. ASSUME NEW i \in Filled(t) PROVE vals'[i] = vals[i] /\ h[i] = g[i]
      <4>1. i # End(t)
        BY <2>3, <3>2
      <4>2. i \in 0 .. call.threads * KernelDims1 - 1
        <5> DEFINE T == call.threads * KernelDims1
        <5>1. /\ T \in Nat /\ First(t) + KernelDims1 <= T /\ End(t) <= First(t) + KernelDims1
          BY LaneNumbers
        <5>2. i \in First(t) .. End(t) - 1 /\ End(t) \in Int
          BY <2>2, <3>2 DEF Filled
        <5> HIDE DEF T
        <5>3. i \in 0 .. T - 1
          BY <2>2, <5>1, <5>2
        <5> QED
          BY <5>3 DEF T
      <4>3. vals \in [0 .. call.threads * KernelDims1 - 1 -> Int]
        BY DEF SelectionInv, MedianTypeOK
      <4> QED
        BY <2>1, <4>1, <4>2, <4>3
    <3> HIDE DEF h, v, j
    <3> QED
      BY <2>5, <3>1, <3>2
  <2> HIDE DEF h
  <2>10. PICK f \in Bijection(Filled(t) \cup {End(t)}, Looked(t) \cup {j}) :
           \A i \in Filled(t) \cup {End(t)} : vals'[i] = Neighbour(v, f[i])
    BY <2>6, <2>9
  <2>11. \A i \in Filled(t)' : vals'[i] = Neighbour(v, f[i])'
    BY <1>3, <2>3, <2>10, NeighbourhoodStays
  <2>12. f \in Bijection(Filled(t), Looked(t))'
    BY <2>3, <2>4, <2>10
  <2> QED
    BY <2>11, <2>12 DEF HoldsNeighbours
<1> QED
  BY <1>4, <1>5

\* A step stores only in the part of its thread: beyond what it has filled while it
\* copies, and by exchanges among that afterwards.
LEMMA StoresInPart ==
  ASSUME SelectionInv, NEW t \in Lane, Step(t)
  PROVE  /\ call' = call
         /\ \/ Gather(t)
            \/ /\ UNCHANGED <<iterator, kernelVolume>>
               /\ \/ vals' = vals
                  \/ \E p, q \in Filled(t) : vals' = Swapped(p, q)
               /\ at'[t] # "gather"
               /\ at[t] = "gather" => iterator[t] > kernelEndIdx(threadCoordinate(t))
<1>1. CASE Gather(t)
  BY <1>1 DEF Gather
<1>2. CASE FindMedian(t)
  BY <1>2 DEF FindMedian, SelectionInv, MedianTypeOK
<1>3. CASE SubDivide(t)
  BY <1>3 DEF SubDivide, SelectionInv, MedianTypeOK
<1>4. CASE Divide(t) \/ PlacePivot(t)
  <2>1. at[t] = "divide"
    BY <1>4 DEF Divide, PlacePivot
  <2>2. Selecting(t) /\ Dividing(t)
    BY <2>1, LaneNumbers DEF LaneInv
  <2>3. /\ First(t) <= pB[t] /\ pE[t] <= End(t) /\ pB[t] <= b[t] /\ b[t] <= e[t]
        /\ e[t] <= pE[t] - 1 /\ First(t) \in Nat /\ End(t) \in Int
        /\ pB[t] \in Int /\ pE[t] \in Int /\ b[t] \in Int /\ e[t] \in Int
    BY <2>2, LaneNumbers DEF Selecting, Dividing
  <2>4. CASE Divide(t)
    <3>1. b[t] \in Filled(t) /\ e[t] - 1 \in Filled(t)
      <4>1. b[t] < e[t]
        BY <2>4 DEF Divide
      <4> QED
        BY <2>3, <4>1 DEF Filled
    <3>2. vals' = vals \/ vals' = Swapped(b[t], e[t] - 1)
      BY <2>4 DEF Divide
    <3> QED
      BY <2>4, <3>1, <3>2 DEF Divide
  <2>5. CASE PlacePivot(t)
    <3>1. pE[t] - 1 \in Filled(t) /\ e[t] \in Filled(t)
      BY <2>3 DEF Filled
    <3>2. vals' = Swapped(pE[t] - 1, e[t])
      BY <2>5 DEF PlacePivot
    <3>3. \E s \in {"write", "select"} : at' = [at EXCEPT ![t] = s]
      BY <2>5 DEF PlacePivot, GoOn
    <3>4. at'[t] # "gather"
      BY <3>3 DEF SelectionInv, MedianTypeOK
    <3> QED
      BY <2>1, <2>5, <3>1, <3>2, <3>4 DEF PlacePivot
  <2> QED
    BY <1>4, <2>4, <2>5
<1>5. CASE WriteMedian(t)
  BY <1>5 DEF WriteMedian, SelectionInv, MedianTypeOK
<1> QED
  BY <1>1, <1>2, <1>3, <1>4, <1>5 DEF Step

\* What another thread holds is out of a step's reach.
LEMMA OthersHold ==
  ASSUME SelectionInv, NEW t \in Lane, Step(t), NEW u \in Lane, u # t, NeighboursInv(u)
  PROVE  NeighboursInv(u)'
<1> DEFINE T == call.threads * KernelDims1
<1>1. /\ call' = call /\ iterator'[u] = iterator[u] /\ kernelVolume'[u] = kernelVolume[u]
      /\ at'[u] = at[u]
  BY DEF Step, Gather, FindMedian, SubDivide, Divide, PlacePivot, GoOn, WriteMedian,
         SelectionInv, MedianTypeOK
<1>2. \E p, q \in Part(t) : vals' = Swapped(p, q) \/ \E x : vals' = [vals EXCEPT ![p] = x]
  <2>1. /\ First(t) \in Nat /\ KernelDims1 \in Nat \ {0} /\ End(t) \in Int
        /\ End(t) <= First(t) + KernelDims1
    BY LaneNumbers
  <2>2. CASE Gather(t)
    <3> DEFINE v == threadCoordinate(t)
               j == iterator[t]
    <3>1. /\ v \in 0 .. call.length - 1 /\ j \in kernelStartIdx(v) .. kernelEndIdx(v)
          /\ kernelVolume[t] <= j - kernelStartIdx(v)
      BY <2>2, LaneNumbers, Sizes DEF Gather, LaneInv, Gathering
    <3>2. /\ kernelStartIdx(v) \in 0 .. 2 * call.radius
          /\ kernelEndIdx(v) \in 0 .. 2 * call.radius
      BY <3>1, LaneNumbers, NeighbourhoodFits
    <3>3. /\ call.radius \in Nat /\ kernelVolume[t] \in Nat
          /\ End(t) = First(t) + kernelVolume[t] /\ KernelDims1 = 2 * call.radius + 1
      BY LaneNumbers, Sizes DEF KernelDims1
    <3>4. End(t) \in Part(t)
      BY <2>1, <3>1, <3>2, <3>3 DEF Part
    <3>5. vals' = [vals EXCEPT ![End(t)] = Neighbour(v, j)] \/ vals' = vals
      BY <2>2, LaneNumbers DEF Gather, End
    <3>6. vals' = vals => vals' = [vals EXCEPT ![End(t)] = vals[End(t)]]
      BY DEF SelectionInv, MedianTypeOK
    <3> QED
      BY <3>4, <3>5, <3>6
  <2>3. CASE vals' = vals
    <3>1. First(t) \in Part(t)
      BY <2>1 DEF Part
    <3>2. vals' = [vals EXCEPT ![First(t)] = vals[First(t)]]
      BY <2>3 DEF SelectionInv, MedianTypeOK
    <3> QED
      BY <3>1, <3>2
  <2>4. ASSUME NEW p \in Filled(t), NEW q \in Filled(t), vals' = Swapped(p, q)
        PROVE  \E r, s \in Part(t) : vals' = Swapped(r, s)
    <3>1. p \in Part(t) /\ q \in Part(t)
      BY <2>1 DEF Filled, Part
    <3> QED
      BY <2>4, <3>1
  <2>5. \/ Gather(t) \/ vals' = vals
        \/ \E p, q \in Filled(t) : vals' = Swapped(p, q)
    BY StoresInPart
  <2> QED
    BY <2>2, <2>3, <2>4, <2>5
<1>3. \A i \in Filled(u) : vals'[i] = vals[i]
  <2>1. /\ First(t) \in Nat /\ KernelDims1 \in Nat \ {0}
        /\ First(u) \in Nat /\ First(u) + KernelDims1 <= T /\ T \in Nat
        /\ End(u) \in Int /\ End(u) <= First(u) + KernelDims1
    BY LaneNumbers
  <2>2. First(t) + KernelDims1 <= First(u) \/ First(u) + KernelDims1 <= First(t)
    BY PartsApart, LaneNumbers
  <2>3. vals \in [0 .. T - 1 -> Int]
    BY DEF SelectionInv, MedianTypeOK
  <2> HIDE DEF T
  <2>4. \A i \in Filled(u) : i \in 0 .. T - 1 /\ i \notin Part(t)
    BY <2>1, <2>2 DEF Filled, Part
  <2>5. \A i \in Filled(u), p, q \in Part(t) : i \in DOMAIN vals /\ i # p /\ i # q
    BY <2>3, <2>4
  <2> QED
    BY <1>2, <2>3, <2>5 DEF Swapped
<1>4. HoldsNeighbours(u) => HoldsNeighbours(u)'
  BY <1>1, <1>3, HoldsOn
<1> QED
  BY <1>1, <1>4, NeighbourhoodStays DEF NeighboursInv

\* Nothing is copied when the block begins.
LEMMA LaunchHolds == MedianInit => MedianInv
<1> SUFFICES ASSUME MedianInit PROVE MedianInv
  OBVIOUS
<1>1. SelectionInv
  BY LaunchSelects
<1>2. ASSUME NEW t \in Lane, threadCoordinate(t) < call.length
      PROVE  HoldsNeighbours(t) /\ at[t] = "gather"
  <2>1. /\ at[t] = "gather" /\ kernelVolume[t] = 0
        /\ iterator[t] = kernelStartIdx(threadCoordinate(t))
    BY <1>2 DEF MedianInit
  <2>2. threadCoordinate(t) \in 0 .. call.length - 1
    BY <1>1, <1>2, LaneNumbers, Sizes
  <2>3. Filled(t) = {}
    BY <1>1, <2>1, LaneNumbers DEF Filled
  <2>4. Looked(t) = {}
    <3>1. kernelStartIdx(threadCoordinate(t)) \in Int /\ kernelEndIdx(threadCoordinate(t)) \in Int
      BY <1>1, <2>2, LaneNumbers, NeighbourhoodFits
    <3> QED
      BY <2>1, <3>1 DEF Looked, Weighted
  <2>5. [n \in {} |-> n] \in Bijection({}, {})
    BY BijectionIs
  <2>6. HoldsNeighbours(t)
    BY <2>3, <2>4, <2>5 DEF HoldsNeighbours
  <2> QED
    BY <2>1, <2>6
<1> QED
  BY <1>1, <1>2 DEF MedianInv, NeighboursInv

\* cudaMedianFilter, copying and selecting: every thread holds the neighbours it has looked
\* at, each once, through all its exchanges and those of the other threads.
THEOREM NeighboursHeld == MedianSpec => []MedianInv
<1>1. MedianInv /\ [MedianNext]_medianVars => MedianInv'
  <2> SUFFICES ASSUME MedianInv, [MedianNext]_medianVars PROVE MedianInv'
    OBVIOUS
  <2>1. SelectionInv /\ \A t \in Lane : NeighboursInv(t)
    BY DEF MedianInv
  <2>2. SelectionInv'
    BY <2>1, SelectionSteps
  <2>3. ASSUME NEW t \in Lane, Step(t) PROVE MedianInv'
    <3>1. /\ call' = call
          /\ \/ Gather(t)
             \/ /\ UNCHANGED <<iterator, kernelVolume>>
                /\ \/ vals' = vals
                   \/ \E p, q \in Filled(t) : vals' = Swapped(p, q)
                /\ at'[t] # "gather"
                /\ at[t] = "gather" => iterator[t] > kernelEndIdx(threadCoordinate(t))
      BY <2>1, <2>3, StoresInPart
    <3>2. Lane' = Lane
      BY <3>1 DEF Lane
    <3>3. HoldsNeighbours(t) => HoldsNeighbours(t)'
      BY <2>1, <2>3, <3>1, HoldsOn, HoldsThroughExchange, HoldsThroughGather
    <3>4. Gather(t) => at'[t] = "gather"
      BY DEF Gather
    <3>5. NeighboursInv(t)'
      BY <2>1, <3>1, <3>3, <3>4, NeighbourhoodStays DEF NeighboursInv
    <3>6. \A u \in Lane : u # t => NeighboursInv(u)'
      BY <2>1, <2>3, OthersHold
    <3> QED
      BY <2>2, <3>2, <3>5, <3>6 DEF MedianInv
  <2>4. CASE UNCHANGED medianVars
    <3>1. /\ call' = call /\ at' = at /\ vals' = vals
          /\ iterator' = iterator /\ kernelVolume' = kernelVolume
      BY <2>4 DEF medianVars
    <3>2. ASSUME NEW t \in Lane PROVE NeighboursInv(t)'
      BY <2>1, <3>1, HoldsOn, NeighbourhoodStays DEF NeighboursInv
    <3>3. Lane' = Lane
      BY <3>1 DEF Lane
    <3> QED
      BY <2>2, <3>2, <3>3 DEF MedianInv
  <2> QED
    BY <2>3, <2>4 DEF MedianNext
<1> QED
  BY <1>1, LaunchHolds, PTL DEF MedianSpec

\* The middle of what is divided around it is the middle in number as well.
LEMMA MiddleInNumber ==
  ASSUME SelectionInv, NEW t \in Lane, HoldsNeighbours(t), Selected(t),
         Looked(t) = Weighted(threadCoordinate(t))
  PROVE  LET v == threadCoordinate(t)
             h == Cardinality(Weighted(v)) \div 2
         IN /\ Cardinality({j \in Weighted(v) : Neighbour(v, j) < vals[Middle(t)]}) <= h
            /\ Cardinality({j \in Weighted(v) : Neighbour(v, j) <= vals[Middle(t)]}) > h
<1> DEFINE v == threadCoordinate(t)
           F == First(t)
           V == kernelVolume[t]
           M == Middle(t)
           S == Filled(t)
           T == Weighted(v)
           h == V \div 2
           Below == {j \in T : Neighbour(v, j) < vals[M]}
           UpTo == {j \in T : Neighbour(v, j) <= vals[M]}
<1>1. /\ F \in Int /\ V \in Nat /\ V > 0 /\ M = F + V \div 2 /\ S = F .. F + V - 1
      /\ \A i \in S : vals[i] \in Int
      /\ \A i \in F .. M - 1 : vals[i] <= vals[M]
      /\ \A i \in M + 1 .. F + V - 1 : vals[M] <= vals[i]
  <2>1. F \in Int /\ V \in Nat /\ M = F + V \div 2 /\ End(t) = F + V
    BY LaneNumbers DEF Middle
  <2>2. V > 0 /\ S = F .. F + V - 1
    BY <2>1 DEF Selected, Filled
  <2>3. /\ \A i \in F .. M - 1 : vals[i] <= vals[M]
        /\ \A i \in M + 1 .. F + V - 1 : vals[M] <= vals[i]
    BY <2>1 DEF Selected
  <2>4. \A i \in S : vals[i] \in Int
    <3>1. /\ KernelDims1 \in Nat /\ F + V <= F + KernelDims1
          /\ \A i \in F .. F + KernelDims1 - 1 : vals[i] \in Int
      BY <2>1, LaneNumbers
    <3> HIDE DEF F, V, S
    <3> QED
      BY <2>1, <2>2, <3>1
  <2> QED
    BY <2>1, <2>2, <2>3, <2>4
<1>2. PICK g \in Bijection(S, T) : \A i \in S : vals[i] = Neighbour(v, g[i])
  BY DEF HoldsNeighbours
<1>3. /\ \A j \in Below : j \in T /\ Neighbour(v, j) < vals[M]
      /\ \A j \in UpTo : j \in T
      /\ \A j \in T : Neighbour(v, j) <= vals[M] => j \in UpTo
  OBVIOUS
<1> HIDE DEF v, F, V, M, S, T, Below, UpTo
<1>4. h \in Nat /\ h < V /\ M \in S /\ M = F + h /\ M \in Int
  <2>1. V \div 2 \in Nat /\ V \div 2 < V
    BY <1>1
  <2> QED
    BY <1>1, <2>1
<1>5. /\ g \in [S -> T]
      /\ \A i, j \in S : g[i] = g[j] => i = j
      /\ \A j \in T : \E i \in S : g[i] = j
  BY <1>2, BijectionIs
<1>6. IsFiniteSet(T) /\ Cardinality(T) = V
  <2>1. IsFiniteSet(S) /\ Cardinality(S) = V
    <3>1. /\ IsFiniteSet(F .. F + V - 1)
          /\ Cardinality(F .. F + V - 1) =
               IF F > F + V - 1 THEN 0 ELSE F + V - 1 - F + 1
      BY <1>1, FS_Interval
    <3> QED
      BY <1>1, <3>1
  <2>2. ExistsBijection(S, T)
    BY <1>2 DEF ExistsBijection
  <2> QED
    BY <2>1, <2>2, FS_Bijection
<1>7. Cardinality(Below) <= h
  <2> DEFINE place == [j \in Below |-> CHOOSE i \in S : g[i] = j]
  <2>1. ASSUME NEW j \in Below PROVE place[j] \in F .. M - 1 /\ g[place[j]] = j
    <3>1. place[j] \in S /\ g[place[j]] = j
      BY <1>5, <1>3
    <3> HIDE DEF place
    <3>2. vals[place[j]] \in Int /\ vals[place[j]] < vals[M] /\ vals[M] \in Int
      BY <1>1, <1>2, <1>4, <1>3, <3>1
    <3>3. ~ (place[j] >= M)
      <4> SUFFICES ASSUME place[j] >= M PROVE FALSE
        OBVIOUS
      <4>1. CASE place[j] = M
        BY <3>2, <4>1
      <4>2. CASE place[j] > M
        <5>1. place[j] \in M + 1 .. F + V - 1
          BY <1>1, <1>4, <3>1, <4>2
        <5>2. vals[M] <= vals[place[j]]
          BY <1>1, <5>1
        <5> QED
          BY <3>2, <5>2
      <4> QED
        BY <1>1, <1>4, <3>1, <4>1, <4>2
    <3> QED
      BY <1>1, <1>4, <3>1, <3>3
  <2>2. place \in [Below -> F .. M - 1]
    BY <2>1
  <2>3. \A i, j \in Below : place[i] = place[j] => i = j
    BY <2>1
  <2>4. place \in Injection(Below, F .. M - 1)
    <3> HIDE DEF place
    <3> QED
      BY <2>2, <2>3 DEF Injection, IsInjective
  <2>5. IsFiniteSet(F .. M - 1) /\ Cardinality(F .. M - 1) = h
    <3>1. /\ IsFiniteSet(F .. M - 1)
          /\ Cardinality(F .. M - 1) = IF F > M - 1 THEN 0 ELSE M - 1 - F + 1
      BY <1>1, <1>4, FS_Interval
    <3> QED
      BY <1>1, <1>4, <3>1
  <2> HIDE DEF place
  <2>6. Cardinality(Below) <= Cardinality(F .. M - 1)
    BY <2>4, <2>5, FS_Injection
  <2> QED
    BY <2>5, <2>6
<1>8. Cardinality(UpTo) > h
  <2> DEFINE first == [i \in F .. M |-> g[i]]
  <2>1. ASSUME NEW i \in F .. M PROVE i \in S /\ g[i] \in UpTo
    <3>1. i \in S
      BY <1>1, <1>4
    <3>2. vals[i] <= vals[M]
      <4>1. CASE i = M
        BY <1>1, <1>4, <4>1
      <4>2. CASE i # M
        BY <1>1, <1>4, <4>2
      <4> QED
        BY <4>1, <4>2
    <3>3. g[i] \in T /\ Neighbour(v, g[i]) <= vals[M]
      BY <1>2, <1>5, <3>1, <3>2
    <3> QED
      BY <1>3, <3>1, <3>3
  <2>2. first \in Injection(F .. M, UpTo)
    <3>1. first \in [F .. M -> UpTo]
      BY <2>1
    <3>2. \A i, j \in F .. M : first[i] = first[j] => i = j
      BY <1>5, <2>1
    <3> HIDE DEF first
    <3> QED
      BY <3>1, <3>2 DEF Injection, IsInjective
  <2>3. IsFiniteSet(F .. M) /\ Cardinality(F .. M) = h + 1
    <3>1. /\ IsFiniteSet(F .. M)
          /\ Cardinality(F .. M) = IF F > M THEN 0 ELSE M - F + 1
      BY <1>1, <1>4, FS_Interval
    <3> QED
      BY <1>1, <1>4, <3>1
  <2>4. UpTo \in SUBSET T
    BY <1>3
  <2> HIDE DEF first
  <2>5. IsFiniteSet(UpTo)
    BY <1>6, <2>4, FS_Subset
  <2>6. Cardinality(F .. M) <= Cardinality(UpTo) /\ Cardinality(UpTo) \in Nat
    BY <2>2, <2>5, FS_Injection, FS_CardinalityType
  <2> QED
    BY <1>4, <2>3, <2>6
<1> QED
  BY <1>6, <1>7, <1>8 DEF v, M, T, Below, UpTo

\* cudaMedianFilter's result: whatever the image, the kernel and the block, and however
\* the threads interleave, what a thread writes is the middle one of the weighted
\* neighbours of its voxel, the upper one of two.
THEOREM MedianRightHolds == MedianSpec => []MedianRight
<1>1. MedianInv => MedianRight
  <2> SUFFICES ASSUME MedianInv, NEW t \in Lane, at[t] = "done",
                      threadCoordinate(t) < call.length
               PROVE  LET v == threadCoordinate(t)
                          h == Cardinality(Weighted(v)) \div 2
                      IN /\ Cardinality({j \in Weighted(v) : Neighbour(v, j) < medianOut[t]}) <= h
                         /\ Cardinality({j \in Weighted(v) : Neighbour(v, j) <= medianOut[t]}) > h
    BY DEF MedianRight
  <2> DEFINE v == threadCoordinate(t)
  <2>1. /\ SelectionInv /\ HoldsNeighbours(t) /\ iterator[t] > kernelEndIdx(v)
        /\ Selected(t) /\ medianOut[t] = vals[Middle(t)]
    BY LaneNumbers DEF MedianInv, NeighboursInv, LaneInv
  <2>2. Looked(t) = Weighted(v)
    <3>1. v \in 0 .. call.length - 1
      BY <2>1, LaneNumbers, Sizes
    <3>2. kernelStartIdx(v) \in Int /\ kernelEndIdx(v) \in Int /\ iterator[t] \in Int
      BY <2>1, <3>1, LaneNumbers, NeighbourhoodFits
    <3> QED
      BY <2>1, <3>2 DEF Looked, Weighted
  <2> QED
    BY <2>1, <2>2, MiddleInNumber
<1> QED
  BY <1>1, NeighboursHeld, PTL
=============================================================================
