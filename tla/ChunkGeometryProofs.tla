------------------------- MODULE ChunkGeometryProofs -------------------------
(***************************************************************************)
(* What TLAPS proves of the arithmetic of calculateChunking, for every     *)
(* image, device and kernel: TLC checks the loops around it on small ones. *)
(***************************************************************************)
EXTENDS ChunkGeometry, WellFoundedInduction, TLAPS

USE DEF Least, Greatest

\* A set of numbers that is not empty has a least one.
LEMMA LeastNumber ==
  ASSUME NEW T \in SUBSET Nat, T # {}
  PROVE  \E m \in T : \A n \in T : m <= n
<1>1. PICK m \in T : \A n \in T : ~ (<<n, m>> \in OpToRel(<, Nat))
  BY NatLessThanWellFounded, WFMin, Zenon
<1>2. ASSUME NEW n \in T PROVE m <= n
  <2>1. ~ (n < m)
    BY <1>1 DEF OpToRel
  <2> QED
    BY <2>1
<1> QED
  BY <1>2

\* What holds at 0, and one further wherever it holds, holds up to N.
LEMMA UpTo ==
  ASSUME NEW N \in Nat, NEW S, 0 \in S, \A k \in 0 .. N - 1 : k \in S => k + 1 \in S
  PROVE  \A k \in 0 .. N : k \in S
<1> DEFINE T == {k \in 0 .. N : k \notin S}
<1> SUFFICES ASSUME T # {} PROVE FALSE
  OBVIOUS
<1>1. PICK m \in T : \A n \in T : m <= n
  <2>1. T \in SUBSET Nat
    OBVIOUS
  <2> HIDE DEF T
  <2> QED
    BY <2>1, LeastNumber
<1>2. m \in 0 .. N /\ m \notin S /\ m # 0
  OBVIOUS
<1>3. m - 1 \in 0 .. N - 1 /\ m - 1 \notin T /\ m - 1 + 1 = m
  BY <1>1, <1>2
<1> QED
  BY <1>2, <1>3

\* ceil(n / d) chunks of length d reach the end of n, and the last one is needed.
LEMMA CeilDivBounds ==
  ASSUME NEW n \in Nat \ {0}, NEW d \in Nat \ {0}
  PROVE  /\ CeilDiv(n, d) \in Nat \ {0}
         /\ d * (CeilDiv(n, d) - 1) < n
         /\ n <= d * CeilDiv(n, d)
<1> DEFINE c == CeilDiv(n, d)
<1>1. c \in Int /\ d * c <= n + d - 1 /\ n + d - 1 < d * c + d
  BY DEF CeilDiv
<1>2. d * (c - 1) = d * c - d
  BY <1>1
<1>3. c > 0
  <2> SUFFICES ASSUME c <= 0 PROVE FALSE
    BY <1>1
  <2>1. d * c <= 0
    BY <1>1
  <2> QED
    BY <1>1, <2>1
<1> QED
  BY <1>1, <1>2, <1>3

\* Every voxel of the axis is in the region of interest of one of its chunks.
THEOREM ROIsCoverAxis ==
  ASSUME NEW n \in Nat \ {0}, NEW d \in Nat \ {0}, NEW v \in 0 .. n - 1
  PROVE  \E i \in 0 .. CeilDiv(n, d) - 1 :
           ImageROIStart(d, i) <= v /\ v <= ImageROIEnd(n, d, i)
<1> DEFINE i == v \div d
<1>1. i \in Nat /\ d * i <= v /\ v < d * i + d
  OBVIOUS
<1>2. i < CeilDiv(n, d)
  <2> DEFINE c == CeilDiv(n, d)
  <2>1. c \in Nat /\ n <= d * c
    BY CeilDivBounds
  <2> SUFFICES ASSUME c <= i PROVE FALSE
    BY <1>1, <2>1
  <2>2. d * c <= d * i
    BY <1>1, <2>1
  <2> QED
    BY <1>1, <2>1, <2>2
<1>3. i \in 0 .. CeilDiv(n, d) - 1
  BY <1>1, <1>2, CeilDivBounds
<1>4. ImageROIStart(d, i) <= v /\ v <= ImageROIEnd(n, d, i)
  BY <1>1 DEF ImageROIStart, ImageROIEnd
<1> QED
  BY <1>3, <1>4

\* A chunk starts inside the image: its number is below the number of chunks.
LEMMA ChunkStartsInside ==
  ASSUME NEW n \in Nat \ {0}, NEW d \in Nat \ {0}, NEW i \in 0 .. CeilDiv(n, d) - 1
  PROVE  d * i \in Nat /\ d * i < n
<1> DEFINE c == CeilDiv(n, d)
<1>1. c \in Nat \ {0} /\ d * (c - 1) < n
  BY CeilDivBounds
<1>2. i \in Nat /\ i <= c - 1
  BY <1>1
<1>3. d * i <= d * (c - 1)
  BY <1>1, <1>2
<1> QED
  BY <1>1, <1>2, <1>3

\* The region of interest lies in the sent region, and that in the image.
THEOREM ChunkInsideImage ==
  ASSUME NEW n \in Nat \ {0}, NEW d \in Nat \ {0}, NEW m \in Nat,
         NEW i \in 0 .. CeilDiv(n, d) - 1
  PROVE  /\ 0 <= ImageStart(d, m, i)
         /\ ImageStart(d, m, i) <= ImageROIStart(d, i)
         /\ ImageROIStart(d, i) <= ImageROIEnd(n, d, i)
         /\ ImageROIEnd(n, d, i) <= ImageEnd(n, d, m, i)
         /\ ImageEnd(n, d, m, i) < n
<1> DEFINE s == d * i
<1>1. s \in Nat /\ s < n
  BY ChunkStartsInside
<1> HIDE DEF s
<1>2. /\ ImageROIStart(d, i) = s
      /\ ImageROIEnd(n, d, i) = Least(s + d, n - 1)
      /\ ImageStart(d, m, i) = Greatest(s - m, 0)
      /\ ImageEnd(n, d, m, i) = Least(Least(s + d, n - 1) + m, n - 1)
  BY DEF s, ImageROIStart, ImageROIEnd, ImageStart, ImageEnd
<1> QED
  BY <1>1, <1>2

\* A chunk is at most one plane longer than its step and its two margins.
THEOREM ChunkSizeBound ==
  ASSUME NEW n \in Nat \ {0}, NEW d \in Nat \ {0}, NEW m \in Nat,
         NEW i \in 0 .. CeilDiv(n, d) - 1
  PROVE  FullChunkSize(n, d, m, i) <= d + 2 * m + 1
<1> DEFINE s == d * i
<1>1. s \in Nat /\ s < n
  BY ChunkStartsInside
<1> HIDE DEF s
<1>2. FullChunkSize(n, d, m, i) =
        Least(Least(s + d, n - 1) + m, n - 1) - Greatest(s - m, 0) + 1
  BY DEF s, FullChunkSize, ImageROIEnd, ImageStart, ImageEnd
<1> QED
  BY <1>1, <1>2

\* The margin reaches as far as the kernel reads, interpolated or not.
LEMMA MarginReaches ==
  ASSUME NEW k \in [Axis -> Nat \ {0}], NEW a \in Axis
  PROVE  /\ LowReach(k, a) \in Nat /\ LowReach(k, a) <= Margin(k[a])
         /\ HighReach(k, a) \in Nat /\ HighReach(k, a) <= Margin(k[a])
         /\ Margin(k[a]) \in Nat
BY DEF LowReach, HighReach, Margin

\* What a kernel reads around a voxel of the region of interest is in the sent region.
THEOREM WindowIsSent ==
  ASSUME NEW n \in Nat \ {0}, NEW d \in Nat \ {0},
         NEW k \in [Axis -> Nat \ {0}], NEW a \in Axis,
         NEW i \in 0 .. CeilDiv(n, d) - 1,
         NEW v \in ImageROIStart(d, i) .. ImageROIEnd(n, d, i)
  PROVE  Window(n, k, a, v)
           \subseteq ImageStart(d, Margin(k[a]), i) .. ImageEnd(n, d, Margin(k[a]), i)
<1> DEFINE s == d * i
           m == Margin(k[a])
<1>1. s \in Nat /\ s < n
  BY ChunkStartsInside
<1>2. /\ m \in Nat
      /\ LowReach(k, a) \in Nat /\ LowReach(k, a) <= m
      /\ HighReach(k, a) \in Nat /\ HighReach(k, a) <= m
  BY MarginReaches
<1> HIDE DEF s, m
<1>3. v \in Int /\ s <= v /\ v <= Least(s + d, n - 1)
  BY <1>1 DEF s, ImageROIStart, ImageROIEnd
<1>4. /\ ImageStart(d, m, i) = Greatest(s - m, 0)
      /\ ImageEnd(n, d, m, i) = Least(Least(s + d, n - 1) + m, n - 1)
  BY DEF s, ImageROIEnd, ImageStart, ImageEnd
<1>5. ASSUME NEW u \in Window(n, k, a, v)
      PROVE  u \in ImageStart(d, m, i) .. ImageEnd(n, d, m, i)
  BY <1>1, <1>2, <1>3, <1>4, <1>5 DEF Window
<1> QED
  BY <1>5 DEF m
=============================================================================
