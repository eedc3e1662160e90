--------------------------- MODULE ReductionsProofs ---------------------------
(***************************************************************************)
(* The reductions count every element of a piece once, in any order of the *)
(* threads, for any image, cut and block whose halvings are even; what the *)
(* host then makes of the pieces.                                          *)
(***************************************************************************)
EXTENDS Reductions, ChunkGeometryProofs, FiniteSetTheorems

USE DEF Least, Greatest

-----------------------------------------------------------------------------
(***************************************************************************)
(* Division                                                                *)
(***************************************************************************)
\* Quotient and rest.
LEMMA QuotientAndRest ==
  ASSUME NEW a \in Nat, NEW n \in Nat \ {0}
  PROVE  /\ a \div n \in Nat /\ a % n \in 0 .. n - 1 /\ a = n * (a \div n) + (a % n)
         /\ n * (a \div n) \in Nat
<1> DEFINE q == a \div n
           r == a % n
<1>1. a = n * q + r /\ r \in 0 .. n - 1 /\ q \in Int
  OBVIOUS
<1> HIDE DEF q, r
<1>2. q >= 0
  <2> SUFFICES ASSUME q <= -1 PROVE FALSE
    BY <1>1
  <2>1. n * q <= n * (-1)
    BY <1>1
  <2> QED
    BY <1>1, <2>1
<1>3. n * q \in Nat
  BY <1>1, <1>2
<1> QED
  BY <1>1, <1>2, <1>3 DEF q, r

\* A number is divided in one way only.
LEMMA OneDivision ==
  ASSUME NEW n \in Nat \ {0}, NEW p \in Int, NEW q \in Int, NEW r \in 0 .. n - 1, NEW s \in 0 .. n - 1,
         n * p + r = n * q + s
  PROVE  p = q /\ r = s
<1>1. ASSUME NEW x \in Int, NEW y \in Int, x < y PROVE n * x + n <= n * y
  <2>1. n * (y - x) >= n
    <3>1. y - x \in Nat /\ y - x >= 1
      BY <1>1
    <3>2. \A d \in Nat : d >= 1 => n * d >= n
      OBVIOUS
    <3> QED
      BY <3>1, <3>2
  <2>2. n * (y - x) = n * y - n * x
    OBVIOUS
  <2> QED
    BY <2>1, <2>2
<1>2. ~ (p < q)
  BY <1>1
<1>3. ~ (q < p)
  BY <1>1
<1> QED
  BY <1>2, <1>3

\* What is divided into quotient and rest gives them back.
LEMMA DivisionIs ==
  ASSUME NEW n \in Nat \ {0}, NEW q \in Nat, NEW r \in 0 .. n - 1
  PROVE  (n * q + r) \div n = q /\ (n * q + r) % n = r /\ n * q + r \in Nat
<1>1. n * q \in Nat
  OBVIOUS
<1>2. n * q + r \in Nat
  BY <1>1
<1> DEFINE a == n * q + r
           x == a \div n
           y == a % n
<1> HIDE DEF a
<1>3. x \in Nat /\ y \in 0 .. n - 1 /\ a = n * x + y
  BY <1>2, QuotientAndRest DEF a
<1> HIDE DEF x, y
<1>4. n * x + y = n * q + r
  BY <1>3 DEF a
<1>5. x = q /\ y = r
  BY <1>3, <1>4, OneDivision
<1> QED
  BY <1>2, <1>5 DEF a, x, y

-----------------------------------------------------------------------------
(***************************************************************************)
(* The pieces of an image                                                  *)
(***************************************************************************)
\* The step of the chunks and their number, of a call that can be cut.
LEMMA CutIs ==
  ASSUME Job(job), Cuts
  PROVE  /\ Delta \in Nat \ {0}
         /\ PerChannel = CeilDiv(job.length, Delta)
<1> DEFINE d == DeviceDelta(Shape(job.room), Shape(1))["x"]
           n == job.length
<1>1. n \in Nat \ {0} /\ job.room \in Nat \ {0}
  BY DEF Job
<1>2. "x" \in Axis
  BY DEF Axis
<1>3. Shape(n)["x"] = n /\ Shape(job.room)["x"] = job.room
  BY <1>2 DEF Shape
<1>4. IsCut(n, job.room) => d > 0
  <2>1. WellDefined(Shape(n), Shape(job.room), Shape(1))
    BY DEF Job, Cuts
  <2> QED
    BY <1>2, <1>3, <2>1 DEF WellDefined
<1>5. d \in Int
  <2>1. Room(Shape(job.room)["x"], Shape(1)["x"]) \in Int
    <3>1. Shape(1)["x"] = 1
      BY <1>2 DEF Shape
    <3>2. Margin(1) = 1
      BY DEF Margin
    <3> QED
      BY <1>1, <1>3, <3>1, <3>2, SizeModAssumption DEF Room
  <2> QED
    BY <1>2, <2>1 DEF DeviceDelta
<1>6. /\ Delta = IF IsCut(n, job.room) THEN d ELSE n
      /\ PerChannel = IF IsCut(n, job.room) THEN CeilDiv(n, d) ELSE 1
  BY <1>2, <1>3 DEF Delta, PerChannel, ChunkDelta, NumChunks
<1>7. CeilDiv(n, n) = 1
  <2>1. n + n - 1 = n * 1 + (n - 1) /\ n - 1 \in 0 .. n - 1 /\ 1 \in Nat
    BY <1>1
  <2>2. (n * 1 + (n - 1)) \div n = 1
    BY <1>1, <2>1, DivisionIs
  <2> QED
    BY <2>1, <2>2 DEF CeilDiv
<1> QED
  BY <1>1, <1>4, <1>5, <1>6, <1>7

\* Some product is bounded by another.
LEMMA TimesMonotone ==
  ASSUME NEW a \in Nat, NEW b \in Nat, NEW n \in Nat, a <= b
  PROVE  n * a <= n * b /\ n * a \in Nat /\ n * b \in Nat
<1>1. \A x, y \in Nat : x <= y => n * x <= n * y
  OBVIOUS
<1> QED
  BY <1>1

\* A quotient is below the number of rows its number is below.
LEMMA RowIs ==
  ASSUME NEW n \in Nat \ {0}, NEW m \in Nat \ {0}, NEW a \in 0 .. n * m - 1
  PROVE  a \div n \in 0 .. m - 1 /\ a % n \in 0 .. n - 1
<1> DEFINE q == a \div n
           r == a % n
<1>0. a \in Nat /\ a < n * m
  BY TimesMonotone
<1>1. q \in Nat /\ r \in 0 .. n - 1 /\ a = n * q + r
  BY <1>0, QuotientAndRest, Zenon
<1> HIDE DEF q, r
<1>2. q < m
  <2> SUFFICES ASSUME m <= q PROVE FALSE
    BY <1>1
  <2>1. n * m <= n * q /\ n * q \in Nat
    BY <1>1, TimesMonotone
  <2> QED
    BY <1>0, <1>1, <2>1
<1> QED
  BY <1>1, <1>2 DEF q, r

\* A chunk of cSum or cMinMax: its voxels are voxels of the image.
LEMMA ChunkIs ==
  ASSUME Job(job), Cuts
  PROVE  /\ Pieces \in Nat \ {0}
         /\ \A i \in 0 .. Pieces - 1 :
              /\ Size(i) \in Nat \ {0}
              /\ \A p \in 0 .. Size(i) - 1 : Voxel(i, p) \in Element
              /\ \A p, q \in 0 .. Size(i) - 1 : Voxel(i, p) = Voxel(i, q) => p = q
<1>1. /\ Delta \in Nat \ {0} /\ PerChannel = CeilDiv(job.length, Delta)
      /\ job.length \in Nat \ {0} /\ job.channels \in Nat \ {0}
  BY CutIs DEF Job
<1>2. PerChannel \in Nat \ {0}
  BY <1>1, CeilDivBounds
<1>3. Pieces = PerChannel * job.channels
  BY DEF Pieces
<1>4. Pieces \in Nat \ {0}
  <2>1. PerChannel * 1 <= PerChannel * job.channels
    BY <1>1, <1>2, TimesMonotone
  <2> QED
    BY <1>1, <1>2, <1>3, <2>1
<1>5. ASSUME NEW i \in 0 .. Pieces - 1
      PROVE  /\ Size(i) \in Nat \ {0}
             /\ \A p \in 0 .. Size(i) - 1 : Voxel(i, p) \in Element
             /\ \A p, q \in 0 .. Size(i) - 1 : Voxel(i, p) = Voxel(i, q) => p = q
  <2> DEFINE c == i \div PerChannel
             k == i % PerChannel
  <2>1. c \in 0 .. job.channels - 1 /\ k \in 0 .. PerChannel - 1
    <3>1. i \in 0 .. PerChannel * job.channels - 1
      BY <1>3
    <3> QED
      BY <1>1, <1>2, <3>1, RowIs, Zenon
  <2>2. /\ Start(i) = ImageStart(Delta, Margin(1), k)
        /\ Size(i) = ImageEnd(job.length, Delta, Margin(1), k) - Start(i) + 1
    BY DEF Start, Size, ChunkSize, FullChunkSize
  <2>3. \A p : Voxel(i, p) = <<c, Start(i) + p>>
    BY DEF Voxel
  <2> HIDE DEF c, k
  <2>4. Margin(1) = 1
    BY DEF Margin
  <2>5. /\ 0 <= ImageStart(Delta, Margin(1), k)
        /\ ImageStart(Delta, Margin(1), k) <= ImageROIStart(Delta, k)
        /\ ImageROIStart(Delta, k) <= ImageROIEnd(job.length, Delta, k)
        /\ ImageROIEnd(job.length, Delta, k) <= ImageEnd(job.length, Delta, Margin(1), k)
        /\ ImageEnd(job.length, Delta, Margin(1), k) < job.length
    BY <1>1, <2>1, <2>4, ChunkInsideImage
  <2>6. /\ ImageStart(Delta, Margin(1), k) \in Int
        /\ ImageROIStart(Delta, k) \in Int
        /\ ImageROIEnd(job.length, Delta, k) \in Int
        /\ ImageEnd(job.length, Delta, Margin(1), k) \in Int
    <3>1. Delta * k \in Int
      BY <1>1, <2>1
    <3> QED
      BY <1>1, <2>1, <2>4, <3>1 DEF ImageStart, ImageROIStart, ImageROIEnd, ImageEnd
  <2>7. /\ Start(i) \in Nat /\ Size(i) \in Nat \ {0}
        /\ Start(i) + Size(i) <= job.length
    BY <1>1, <2>2, <2>5, <2>6
  <2> QED
    BY <1>1, <2>1, <2>3, <2>7 DEF Element
<1> QED
  BY <1>4, <1>5

\* An array comes in pieces of at most so many values, the last of them no longer.
LEMMA ArrayIs ==
  ASSUME Job(job), ~Cuts
  PROVE  /\ Pieces \in Nat \ {0}
         /\ NumValues \in Nat \ {0} /\ NumValsPerChunk \in Nat \ {0}
         /\ \A i \in 0 .. Pieces - 1 :
              /\ Size(i) \in Nat \ {0}
              /\ i * NumValsPerChunk \in Nat
              /\ i * NumValsPerChunk + Size(i) <= NumValues
              /\ \A p \in 0 .. Size(i) - 1 : Voxel(i, p) \in Element
              /\ \A p, q \in 0 .. Size(i) - 1 : Voxel(i, p) = Voxel(i, q) => p = q
<1> DEFINE L == job.length
           N == NumValues
           D == NumValsPerChunk
<1>1. L \in Nat \ {0} /\ job.channels \in Nat \ {0} /\ job.room \in Nat \ {0}
  BY DEF Job
<1>2. N = L * job.channels /\ N \in Nat \ {0}
  <2>1. L * 1 <= L * job.channels /\ L * job.channels \in Nat
    BY <1>1, TimesMonotone
  <2> QED
    BY <1>1, <2>1 DEF NumValues
<1>3. D \in Nat \ {0}
  BY <1>1, <1>2 DEF NumValsPerChunk
<1>4. Pieces = CeilDiv(N, D) /\ Pieces \in Nat \ {0}
  BY <1>2, <1>3, CeilDivBounds DEF Pieces
<1>5. ASSUME NEW i \in 0 .. Pieces - 1
      PROVE  /\ Size(i) \in Nat \ {0}
             /\ i * D \in Nat
             /\ i * D + Size(i) <= N
             /\ \A p \in 0 .. Size(i) - 1 : Voxel(i, p) \in Element
             /\ \A p, q \in 0 .. Size(i) - 1 : Voxel(i, p) = Voxel(i, q) => p = q
  <2> DEFINE s == i * D
  <2>1. s \in Nat /\ s < N
    <3>1. D * i \in Nat /\ D * i < N
      BY <1>2, <1>3, <1>4, ChunkStartsInside
    <3> QED
      BY <1>3, <3>1
  <2>2. Size(i) = Least(D, N - s)
    BY DEF Size, CurNumVals
  <2>3. \A p : Voxel(i, p) = <<(s + p) \div L, (s + p) % L>>
    BY DEF Voxel
  <2> HIDE DEF s
  <2>4. Size(i) \in Nat \ {0} /\ s + Size(i) <= N
    BY <1>2, <1>3, <2>1, <2>2
  <2>5. ASSUME NEW p \in 0 .. Size(i) - 1
        PROVE  /\ Voxel(i, p) \in Element
               /\ s + p = L * ((s + p) \div L) + ((s + p) % L)
    <3>1. s + p \in 0 .. L * job.channels - 1 /\ s + p \in Nat
      BY <1>1, <1>2, <2>1, <2>4
    <3> DEFINE a == s + p
    <3> HIDE DEF a
    <3>2. a \div L \in 0 .. job.channels - 1 /\ a % L \in 0 .. L - 1
      BY <1>1, <3>1, RowIs, Zenon DEF a
    <3>3. a = L * (a \div L) + (a % L)
      BY <1>1, <3>1, QuotientAndRest, Zenon DEF a
    <3>4. Voxel(i, p) = <<a \div L, a % L>>
      BY <2>3 DEF a
    <3> QED
      BY <3>2, <3>3, <3>4 DEF Element, a
  <2>6. ASSUME NEW p \in 0 .. Size(i) - 1, NEW q \in 0 .. Size(i) - 1, Voxel(i, p) = Voxel(i, q)
        PROVE  p = q
    <3>1. (s + p) \div L = (s + q) \div L /\ (s + p) % L = (s + q) % L
      BY <2>3, <2>6
    <3>2. s + p = s + q
      BY <2>5, <3>1
    <3> QED
      BY <2>1, <3>2
  <2> QED
    BY <2>1, <2>4, <2>5, <2>6 DEF s
<1> QED
  BY <1>2, <1>3, <1>4, <1>5

\* The blocks and threads of a launch.
LEMMA LaunchIs ==
  ASSUME Job(job)
  PROVE  /\ Pieces \in Nat \ {0}
         /\ MaxBlocks \in Nat \ {0}
         /\ \A i \in 0 .. Pieces - 1 :
              /\ Size(i) \in Nat \ {0}
              /\ Threads(i) \in Nat \ {0}
              /\ Blocks(i) \in Nat
              /\ Cuts => Blocks(i) > 0
              /\ \A p \in 0 .. Size(i) - 1 : Voxel(i, p) \in Element
              /\ \A p, q \in 0 .. Size(i) - 1 : Voxel(i, p) = Voxel(i, q) => p = q
<1>1. /\ Pieces \in Nat \ {0}
      /\ \A i \in 0 .. Pieces - 1 :
           /\ Size(i) \in Nat \ {0}
           /\ \A p \in 0 .. Size(i) - 1 : Voxel(i, p) \in Element
           /\ \A p, q \in 0 .. Size(i) - 1 : Voxel(i, p) = Voxel(i, q) => p = q
  <2>1. CASE Cuts
    BY <2>1, ChunkIs, Zenon
  <2>2. CASE ~Cuts
    BY <2>2, ArrayIs, Zenon
  <2> QED
    BY <2>1, <2>2
<1>2. job.maxThreads \in Nat \ {0} /\ 2 * job.maxThreads \in Nat \ {0}
  BY DEF Job
<1>3. ASSUME NEW i \in 0 .. Pieces - 1
      PROVE  Threads(i) \in Nat \ {0} /\ (Cuts => HalfTheBlocks(i) \in Nat \ {0})
  <2>1. Threads(i) \in Nat \ {0}
    BY <1>1, <1>2 DEF Threads
  <2>2. CeilDiv(Size(i), Threads(i)) \in Nat \ {0}
    BY <1>1, <2>1, CeilDivBounds
  <2>3. CeilDiv(CeilDiv(Size(i), Threads(i)), 2) \in Nat \ {0}
    BY <2>2, CeilDivBounds
  <2> QED
    BY <2>1, <2>3 DEF HalfTheBlocks
<1>4. MaxBlocks \in Nat \ {0}
  <2>1. CASE Cuts
    BY <1>1, <1>3, <2>1 DEF MaxBlocks
  <2>2. CASE ~Cuts
    BY <1>2, <2>2, ArrayIs, CeilDivBounds DEF MaxBlocks
  <2> QED
    BY <2>1, <2>2
<1>5. ASSUME NEW i \in 0 .. Pieces - 1
      PROVE  Blocks(i) \in Nat /\ (Cuts => Blocks(i) > 0)
  <2>1. CASE Cuts
    BY <1>3, <2>1 DEF Blocks
  <2>2. CASE ~Cuts
    <3>1. CurNumVals(i) \in Nat
      BY <1>1, <2>2 DEF Size
    <3>2. CurNumVals(i) \div (2 * job.maxThreads) \in Nat
      BY <1>2, <3>1, QuotientAndRest
    <3> QED
      BY <1>4, <2>2, <3>2 DEF Blocks
  <2> QED
    BY <2>1, <2>2
<1> QED
  BY <1>1, <1>3, <1>4, <1>5

\* A factor is as small as the products it is in, give or take a rest.
LEMMA SmallerFactor ==
  ASSUME NEW n \in Nat \ {0}, NEW x \in Int, NEW y \in Int, n * x < n * y + n
  PROVE  x <= y
<1> SUFFICES ASSUME y + 1 <= x PROVE FALSE
  OBVIOUS
<1>1. n * (x - y - 1) >= 0
  <2>1. \A d \in Nat : n * d >= 0
    OBVIOUS
  <2> QED
    BY <2>1
<1>2. n * (x - y - 1) = n * x - n * y - n
  OBVIOUS
<1> QED
  BY <1>1, <1>2

\* More elements need no fewer blocks.
LEMMA CeilDivMonotone ==
  ASSUME NEW a \in Nat \ {0}, NEW b \in Nat \ {0}, NEW d \in Nat \ {0}, a <= b
  PROVE  CeilDiv(a, d) <= CeilDiv(b, d)
<1> DEFINE x == CeilDiv(a, d)
           y == CeilDiv(b, d)
<1>1. x \in Nat /\ d * (x - 1) < a /\ y \in Nat /\ b <= d * y
  BY CeilDivBounds
<1> HIDE DEF x, y
<1>2. d * (x - 1) = d * x - d
  BY <1>1
<1>3. d * x \in Int /\ d * y \in Int
  BY <1>1
<1>4. d * x < d * y + d
  BY <1>1, <1>2, <1>3
<1>5. x <= y
  BY <1>1, <1>4, SmallerFactor
<1> QED
  BY <1>5 DEF x, y

\* A chunk that is no larger needs no more blocks.
LEMMA SmallerChunk ==
  ASSUME Job(job), Cuts, NEW i \in 0 .. Pieces - 1, NEW j \in 0 .. Pieces - 1, Size(i) <= Size(j)
  PROVE  HalfTheBlocks(i) <= HalfTheBlocks(j)
<1> DEFINE H(k) == CeilDiv(Size(k), Threads(k))
<1>1. /\ Size(i) \in Nat \ {0} /\ Size(j) \in Nat \ {0}
      /\ Threads(i) \in Nat \ {0} /\ Threads(j) \in Nat \ {0}
      /\ job.maxThreads \in Nat \ {0}
  BY LaunchIs DEF Job
<1>2. H(i) \in Nat \ {0} /\ H(j) \in Nat \ {0}
  BY <1>1, CeilDivBounds
<1>3. H(i) <= H(j)
  <2>1. CASE Size(i) < job.maxThreads
    <3>1. Threads(i) = Size(i)
      BY <2>1 DEF Threads
    <3>2. Size(i) * (H(i) - 1) < Size(i) * 0 + Size(i)
      BY <1>1, <3>1, CeilDivBounds
    <3>3. H(i) - 1 <= 0
      BY <1>1, <1>2, <3>2, SmallerFactor
    <3> QED
      BY <1>2, <3>3
  <2>2. CASE ~ (Size(i) < job.maxThreads)
    <3>1. Threads(i) = job.maxThreads /\ Threads(j) = job.maxThreads
      BY <1>1, <2>2 DEF Threads
    <3> QED
      BY <1>1, <3>1, CeilDivMonotone
  <2> QED
    BY <2>1, <2>2
<1>4. CeilDiv(H(i), 2) <= CeilDiv(H(j), 2)
  <2> HIDE DEF H
  <2> QED
    BY <1>2, <1>3, CeilDivMonotone
<1> QED
  BY <1>4 DEF HalfTheBlocks

\* The first of two chunks is the larger one.
LEMMA FirstOfTwo ==
  ASSUME Job(job), Cuts, PerChannel <= 2, NEW i \in 0 .. Pieces - 1
  PROVE  Size(i) <= Size(0)
<1> DEFINE n == job.length
           d == Delta
           k == i % PerChannel
<1>1. /\ d \in Nat \ {0} /\ PerChannel = CeilDiv(n, d) /\ n \in Nat \ {0}
      /\ i \in Nat
  BY CutIs, LaunchIs DEF Job
<1>2. PerChannel \in {1, 2} /\ n <= d * PerChannel /\ d * (PerChannel - 1) < n
  <2> DEFINE c == PerChannel
  <2> HIDE DEF c, d, n
  <2>1. c \in Nat \ {0} /\ n <= d * c /\ d * (c - 1) < n
    BY <1>1, CeilDivBounds DEF c
  <2>2. c <= 2
    BY DEF c
  <2> QED
    BY <2>1, <2>2 DEF c
<1>3. k \in 0 .. PerChannel - 1
  <2>1. PerChannel \in Nat \ {0}
    BY <1>2
  <2> QED
    BY <1>1, <2>1, QuotientAndRest, Zenon
<1>4. 0 % PerChannel = 0
  <2> DEFINE c == PerChannel
  <2> HIDE DEF c
  <2>1. c \in {1, 2}
    BY <1>2 DEF c
  <2>2. 0 % c = 0
    BY <2>1
  <2> QED
    BY <2>2 DEF c
<1>5. Size(i) = FullChunkSize(n, d, Margin(1), k) /\ Size(0) = FullChunkSize(n, d, Margin(1), 0)
  BY <1>4 DEF Size, ChunkSize
<1>6. Margin(1) = 1
  BY DEF Margin
<1> HIDE DEF n, d, k
<1>7. CASE k = 0
  <2>1. FullChunkSize(n, d, Margin(1), 0) \in Int
    BY <1>1, <1>6 DEF FullChunkSize, ImageStart, ImageROIEnd, ImageEnd
  <2> QED
    BY <1>5, <1>7, <2>1
<1>8. CASE k = 1
  <2>1. PerChannel = 2
    BY <1>2, <1>3, <1>8
  <2>2. d < n /\ n <= d + d
    BY <1>1, <1>2, <2>1
  <2>3. d * 0 = 0 /\ d * 1 = d
    BY <1>1
  <2> QED
    BY <1>1, <1>5, <1>6, <1>8, <2>2, <2>3 DEF FullChunkSize, ImageStart, ImageROIEnd, ImageEnd
<1> QED
  BY <1>2, <1>3, <1>7, <1>8

\* What is divided leaves no more whole parts than it needs parts.
LEMMA FloorBelowCeil ==
  ASSUME NEW a \in Nat \ {0}, NEW b \in Nat \ {0}, NEW d \in Nat \ {0}, a <= b
  PROVE  a \div d <= CeilDiv(b, d)
<1> DEFINE x == a \div d
           y == CeilDiv(b, d)
<1>1. x \in Nat /\ d * x \in Nat /\ d * x <= a
  <2>1. /\ x \in Nat /\ a % d \in 0 .. d - 1 /\ a = d * x + (a % d) /\ d * x \in Nat
    BY QuotientAndRest, Zenon
  <2> HIDE DEF x
  <2> QED
    BY <2>1
<1>2. y \in Nat /\ b <= d * y
  BY CeilDivBounds
<1> HIDE DEF x, y
<1>3. d * y \in Int
  BY <1>2
<1>4. d * x < d * y + d
  BY <1>1, <1>2, <1>3
<1>5. x <= y
  BY <1>1, <1>2, <1>4, SmallerFactor
<1> QED
  BY <1>5 DEF x, y

\* The first launch has the most blocks, but when a channel is cut in three or more.
LEMMA EntriesSuffice ==
  ASSUME Job(job), NEW i \in 0 .. Pieces - 1, ~Cuts \/ PerChannel <= 2
  PROVE  Blocks(i) <= MaxBlocks
<1>1. Blocks(i) \in Nat /\ MaxBlocks \in Nat \ {0} /\ Size(i) \in Nat \ {0} /\ 0 \in 0 .. Pieces - 1
  BY LaunchIs
<1>2. CASE Cuts
  <2>1. Size(i) <= Size(0)
    BY <1>2, FirstOfTwo
  <2>2. HalfTheBlocks(i) <= HalfTheBlocks(0)
    BY <1>1, <1>2, <2>1, SmallerChunk
  <2> QED
    BY <1>2, <2>2 DEF Blocks, MaxBlocks
<1>3. CASE ~Cuts /\ job.op = "GetMinMax"
  <2>1. /\ 2 * job.maxThreads \in Nat \ {0} /\ NumValsPerChunk \in Nat \ {0} /\ NumValues \in Nat \ {0}
        /\ i * NumValsPerChunk \in Nat
    BY <1>3, ArrayIs DEF Job
  <2>2. CurNumVals(i) \in Nat \ {0} /\ CurNumVals(i) <= NumValsPerChunk
    <3>1. CurNumVals(i) = Size(i)
      BY <1>3 DEF Size
    <3> QED
      BY <1>1, <2>1, <3>1 DEF CurNumVals
  <2>3. CurNumVals(i) \div (2 * job.maxThreads) <= CeilDiv(NumValsPerChunk, 2 * job.maxThreads)
    BY <2>1, <2>2, FloorBelowCeil
  <2> QED
    BY <1>3, <2>3 DEF Blocks, MaxBlocks
<1>4. CASE ~Cuts /\ job.op # "GetMinMax"
  BY <1>1, <1>4 DEF Blocks
<1> QED
  BY <1>2, <1>3, <1>4

-----------------------------------------------------------------------------
(***************************************************************************)
(* The inductive invariant                                                 *)
(***************************************************************************)
Counts == [Countable -> Nat]

\* The elements of the piece that are a block's to load, and those of the whole piece.
Part(b) ==
  {Voxel(piece, j) : j \in {k \in 0 .. Size(piece) - 1 :
     (k % (Threads(piece) * Blocks(piece))) \div Threads(piece) = b}}
VoxelsOf(i) == {Voxel(i, p) : p \in 0 .. Size(i) - 1}

KernelTypeOK ==
  /\ phase \in [Block -> {"load", "reduce", "written"}]
  /\ localStride \in [Block -> Nat]
  /\ arrived \in [Block -> SUBSET Thread]
  /\ shared \in [Block -> [Thread -> Counts]]

\* Until all threads have loaded, a thread's slot holds its own elements or nothing.
Loads(b) ==
  /\ localStride[b] = Threads(piece) \div 2
  /\ \A t \in Thread : shared[b][t] = IF t \in arrived[b] THEN Once(Share(b, t)) ELSE Nothing

\* The stride halves without rest, down to nothing.
Even(s) == s = 0 \/ \E q \in 1 .. Threads(piece) : 2 * s * q = Threads(piece)

\* What BlockKeepsItsElements says of a block that has loaded.
Keeps(b) ==
  \A e \in Countable :
    IF e \in Part(b)
    THEN \E t \in Live(b) : shared[b][t][e] = 1 /\ \A u \in Live(b) \ {t} : shared[b][u][e] = 0
    ELSE \A t \in Live(b) : shared[b][t][e] = 0

Reduces(b) ==
  /\ 2 * localStride[b] <= Threads(piece)
  /\ arrived[b] \subseteq 0 .. localStride[b] - 1
  /\ Halves(Threads(piece)) => Even(localStride[b]) /\ Keeps(b)

BlockInv(b) ==
  /\ \A t \in Thread : shared[b][t][Garbage] = 0
  /\ phase[b] = "load" => Loads(b)
  /\ phase[b] # "load" => Reduces(b)
  /\ phase[b] = "written" => localStride[b] = 0 /\ arrayOut[b] = shared[b][0]

TypeOK ==
  /\ job \in Jobs
  /\ pc \in {"start", "send", "kernel", "returned", "overrun"}
  /\ piece \in 0 .. Pieces
  /\ entry \in Nat
  /\ arrayOut \in [0 .. MaxBlocks - 1 -> Counts]
  /\ outVal \in Counts
  /\ pc = "start" => piece = 0 /\ outVal = Nothing
  /\ pc = "send" /\ piece = 0 => outVal = Nothing
  /\ pc = "returned" => piece = Pieces \/ (Cuts /\ outVal = Once(Element))
  /\ pc = "overrun" => piece < Pieces /\ Blocks(piece) > MaxBlocks

KernelInv ==
  pc = "kernel" =>
    /\ piece < Pieces
    /\ Blocks(piece) <= MaxBlocks
    /\ Cuts => entry <= Blocks(piece)
    /\ entry > 0 => Finished
    /\ KernelTypeOK
    /\ \A b \in Block : BlockInv(b)

\* The entries a call reads have been written before.
WritesAll == Cuts \/ job.op = "DeviceMinMax" \/ NumValsPerChunk % (2 * job.maxThreads) = 0
NoGarbage ==
  WritesAll =>
    /\ outVal[Garbage] = 0
    /\ ~Cuts /\ piece > 0 => \A b \in 0 .. MaxBlocks - 1 : arrayOut[b][Garbage] = 0

\* What the host has of an element of this piece.
Collected(e) == IF \E b \in 0 .. entry - 1 : e \in Part(b) THEN 1 ELSE 0

\* An element counts as often as chunks contain it.
Times(e, n) == Cardinality({i \in 0 .. n - 1 : e \in VoxelsOf(i)})
AllHalve(n) == \A i \in 0 .. n - 1 : Halves(Threads(i))

SumInv ==
  job.op = "Sum" =>
    /\ pc = "send" \/ (pc = "returned" /\ piece = Pieces) =>
         (AllHalve(piece) => \A e \in Countable : outVal[e] = Times(e, piece))
    /\ pc = "kernel" =>
         (AllHalve(piece + 1) => \A e \in Countable : outVal[e] = Times(e, piece) + Collected(e))

\* A range is that of the last chunk.
RangeInv ==
  job.op = "MinMax" =>
    /\ (pc = "send" /\ piece > 0) \/ (pc = "returned" /\ piece = Pieces) =>
         (Halves(Threads(piece - 1)) =>
            \A e \in Countable : outVal[e] = IF e \in VoxelsOf(piece - 1) THEN 1 ELSE 0)
    /\ pc = "kernel" =>
         (Halves(Threads(piece)) => \A e \in Countable : outVal[e] = Collected(e))

\* A piece with blocks is part of the range of an array.
ArrayInv ==
  ~Cuts /\ Halves(job.maxThreads) =>
    /\ \A i \in 0 .. piece - 1 : Blocks(i) > 0 => VoxelsOf(i) \subseteq Seen
    /\ pc = "kernel" =>
         \A b \in 0 .. entry - 1 : b \in Block => Part(b) \subseteq Seen

IInv ==
  TypeOK /\ KernelInv /\ NoGarbage /\ SumInv /\ RangeInv /\ ArrayInv

-----------------------------------------------------------------------------
(***************************************************************************)
(* What the threads of a piece take                                        *)
(***************************************************************************)
\* What an entry holds before it is written is no element of the image.
LEMMA GarbageIsNoElement == Garbage \notin Element /\ Garbage \in Countable
BY DEF Garbage, Element, Countable

\* A launch in progress, without its state.
InPiece == Job(job) /\ piece \in 0 .. Pieces - 1

\* The numbers of a piece.
LEMMA PieceIs ==
  ASSUME InPiece
  PROVE  /\ Size(piece) \in Nat \ {0}
         /\ Threads(piece) \in Nat \ {0}
         /\ Blocks(piece) \in Nat
         /\ Thread = 0 .. Threads(piece) - 1 /\ 0 \in Thread
         /\ Block = 0 .. Blocks(piece) - 1
         /\ MaxBlocks \in Nat \ {0}
<1>1. /\ Size(piece) \in Nat \ {0} /\ Threads(piece) \in Nat \ {0} /\ Blocks(piece) \in Nat
      /\ MaxBlocks \in Nat \ {0}
  BY LaunchIs DEF InPiece
<1> QED
  BY <1>1 DEF Thread, Block

\* The block and the thread an element of the piece is for.
BlockOf(j) == (j % (Threads(piece) * Blocks(piece))) \div Threads(piece)
ThreadOf(j) == (j % (Threads(piece) * Blocks(piece))) % Threads(piece)

\* What a thread takes are the elements of its block and its place in it.
LEMMA ShareIs ==
  ASSUME InPiece
  PROVE  \A b \in Block : \A t \in Thread :
           Share(b, t) =
             {Voxel(piece, j) : j \in {k \in 0 .. Size(piece) - 1 : BlockOf(k) = b /\ ThreadOf(k) = t}}
<1> DEFINE T == Threads(piece)
           B == Blocks(piece)
           n == Size(piece)
<1> TAKE b \in Block
<1> TAKE t \in Thread
<1>1. T \in Nat \ {0} /\ B \in Nat \ {0} /\ n \in Nat /\ b \in 0 .. B - 1 /\ t \in 0 .. T - 1
  <2>1. T \in Nat \ {0} /\ B \in Nat /\ n \in Nat /\ b \in 0 .. B - 1 /\ t \in 0 .. T - 1
    BY PieceIs
  <2> HIDE DEF T, B, n
  <2> QED
    BY <2>1
<1>2. Share(b, t) = {Voxel(piece, j) : j \in Takes(t + b * T, n, T * B)}
  BY DEF Share
<1>3. \A k : BlockOf(k) = (k % (T * B)) \div T /\ ThreadOf(k) = (k % (T * B)) % T
  BY DEF BlockOf, ThreadOf
<1> HIDE DEF T, B, n
<1>4. Takes(t + b * T, n, T * B) = {k \in 0 .. n - 1 : (k % (T * B)) \div T = b /\ (k % (T * B)) % T = t}
  <2> SUFFICES ASSUME NEW j \in 0 .. n - 1
               PROVE  j \in Takes(t + b * T, n, T * B)
                        <=> (j % (T * B)) \div T = b /\ (j % (T * B)) % T = t
    BY Zenon DEF Takes
  <2> DEFINE G == T * B
             i == t + b * T
             u == j % G
             q == j \div G
  <2>1. G \in Nat \ {0} /\ i \in 0 .. G - 1 /\ i = T * b + t
    <3>1. (b + 1) * T <= B * T
      <4>1. b + 1 \in Nat /\ b + 1 <= B /\ B \in Nat
        BY <1>1
      <4>2. T * (b + 1) <= T * B
        BY <1>1, <4>1, TimesMonotone
      <4> QED
        BY <1>1, <4>1, <4>2
    <3>2. /\ (b + 1) * T = b * T + T /\ b * T \in Nat /\ B * T = T * B /\ T * B \in Nat \ {0}
          /\ b * T = T * b
      BY <1>1
    <3> QED
      BY <1>1, <3>1, <3>2
  <2>2. i \div T = b /\ i % T = t
    <3>1. (T * b + t) \div T = b /\ (T * b + t) % T = t
      <4>1. b \in Nat
        BY <1>1
      <4> QED
        BY <1>1, <4>1, DivisionIs
    <3> QED
      BY <2>1, <3>1
  <2> HIDE DEF G, i
  <2>3. u \in 0 .. G - 1 /\ q \in Nat /\ j = G * q + u /\ G * q \in Nat
    <3>1. j \in Nat
      OBVIOUS
    <3> QED
      BY <2>1, <3>1, QuotientAndRest, Zenon
  <2> HIDE DEF u, q
  <2>4. ASSUME j >= i, (j - i) % G = 0 PROVE u = i
    <3> DEFINE p == (j - i) \div G
               r == (j - i) % G
    <3>1. j - i \in Nat
      BY <2>1, <2>4
    <3>2. p \in Nat /\ r = 0 /\ j - i = G * p + r /\ G * p \in Nat
      BY <2>1, <2>4, <3>1, QuotientAndRest, Zenon
    <3> HIDE DEF p, r
    <3>3. G * p + i = G * q + u /\ p \in Int /\ q \in Int
      BY <2>1, <2>3, <3>2
    <3> QED
      <4>1. p = q /\ i = u
        BY <2>1, <2>3, <3>3, OneDivision, SMTT(20)
      <4> QED
        BY <4>1
  <2>5. ASSUME u = i PROVE j >= i /\ (j - i) % G = 0
    <3>1. j - i = G * q + 0
      BY <2>1, <2>3, <2>5
    <3>2. (G * q + 0) % G = 0
      <4>1. 0 \in 0 .. G - 1
        BY <2>1
      <4> QED
        BY <2>1, <2>3, <4>1, DivisionIs
    <3> QED
      BY <2>1, <2>3, <2>5, <3>1, <3>2
  <2>6. u = i <=> u \div T = b /\ u % T = t
    <3> DEFINE x == u \div T
               y == u % T
    <3>1. u = T * x + y
      <4>1. u \in Nat
        BY <2>1, <2>3
      <4> QED
        BY <1>1, <4>1, QuotientAndRest
    <3> HIDE DEF x, y
    <3>2. x = b /\ y = t => u = i
      BY <2>1, <3>1
    <3>3. u = i => x = b /\ y = t
      BY <2>2 DEF x, y
    <3> QED
      BY <3>2, <3>3 DEF x, y
  <2>7. j \in Takes(i, n, G) <=> j >= i /\ (j - i) % G = 0
    BY DEF Takes
  <2> QED
    BY <2>4, <2>5, <2>6, <2>7 DEF G, i, u
<1>5. Takes(t + b * T, n, T * B) = {k \in 0 .. n - 1 : BlockOf(k) = b /\ ThreadOf(k) = t}
  BY <1>3, <1>4, Zenon
<1> QED
  BY <1>2, <1>5 DEF n

\* What a number leaves is a thread of a block.
LEMMA GridIs ==
  ASSUME InPiece, Blocks(piece) > 0, NEW j \in 0 .. Size(piece) - 1
  PROVE  BlockOf(j) \in Block /\ ThreadOf(j) \in Thread
<1> DEFINE T == Threads(piece)
           B == Blocks(piece)
           u == j % (T * B)
<1>1. T \in Nat \ {0} /\ B \in Nat \ {0} /\ Size(piece) \in Nat /\ Block = 0 .. B - 1 /\ Thread = 0 .. T - 1
  BY PieceIs
<1> HIDE DEF T, B
<1>2. T * B \in Nat \ {0}
  BY <1>1
<1>3. u \in 0 .. T * B - 1
  <2>1. j \in Nat
    BY <1>1
  <2> QED
    BY <1>2, <2>1, QuotientAndRest, Zenon
<1> HIDE DEF u
<1>4. u \div T \in 0 .. B - 1 /\ u % T \in 0 .. T - 1
  BY <1>1, <1>3, RowIs, Zenon
<1> QED
  BY <1>1, <1>4 DEF T, B, u, BlockOf, ThreadOf

\* No element is taken twice; what a block's threads take is the block's part.
LEMMA SharesApart ==
  ASSUME InPiece
  PROVE  /\ \A b, c \in Block : \A t, u \in Thread : \A e :
              e \in Share(b, t) /\ e \in Share(c, u) => b = c /\ t = u
         /\ \A b \in Block : \A t \in Thread : Share(b, t) \subseteq Element
         /\ \A b \in Block : \A e : e \in Part(b) <=> \E t \in Thread : e \in Share(b, t)
<1>1. /\ \A p \in 0 .. Size(piece) - 1 : Voxel(piece, p) \in Element
      /\ \A p, q \in 0 .. Size(piece) - 1 : Voxel(piece, p) = Voxel(piece, q) => p = q
  BY LaunchIs, Zenon DEF InPiece
<1>2. ASSUME NEW b \in Block, NEW c \in Block, NEW t \in Thread, NEW u \in Thread, NEW e,
             e \in Share(b, t), e \in Share(c, u)
      PROVE  b = c /\ t = u
  <2>1. PICK j \in 0 .. Size(piece) - 1 : e = Voxel(piece, j) /\ BlockOf(j) = b /\ ThreadOf(j) = t
    BY <1>2, ShareIs
  <2>2. PICK k \in 0 .. Size(piece) - 1 : e = Voxel(piece, k) /\ BlockOf(k) = c /\ ThreadOf(k) = u
    BY <1>2, ShareIs
  <2>3. j = k
    BY <1>1, <2>1, <2>2, Zenon
  <2> QED
    BY <2>1, <2>2, <2>3, Zenon
<1>3. ASSUME NEW b \in Block, NEW t \in Thread
      PROVE  Share(b, t) \subseteq Element
  BY <1>1, ShareIs
<1>4. ASSUME NEW b \in Block, NEW e
      PROVE  e \in Part(b) <=> \E t \in Thread : e \in Share(b, t)
  <2>0. Blocks(piece) > 0
    BY PieceIs
  <2>1. Part(b) = {Voxel(piece, j) : j \in {k \in 0 .. Size(piece) - 1 : BlockOf(k) = b}}
    BY Zenon DEF Part, BlockOf
  <2>2. \A j \in 0 .. Size(piece) - 1 : ThreadOf(j) \in Thread
    BY <2>0, GridIs, Zenon
  <2>3. \A t \in Thread : Share(b, t) =
          {Voxel(piece, j) : j \in {k \in 0 .. Size(piece) - 1 : BlockOf(k) = b /\ ThreadOf(k) = t}}
    BY ShareIs, Zenon
  <2>4. ASSUME e \in Part(b) PROVE \E t \in Thread : e \in Share(b, t)
    <3>1. PICK j \in 0 .. Size(piece) - 1 : e = Voxel(piece, j) /\ BlockOf(j) = b
      BY <2>1, <2>4
    <3> QED
      BY <2>2, <2>3, <3>1
  <2>5. ASSUME NEW t \in Thread, e \in Share(b, t) PROVE e \in Part(b)
    BY <2>1, <2>3, <2>5
  <2> QED
    BY <2>4, <2>5, Zenon
<1> QED
  BY <1>2, <1>3, <1>4, Zenon

\* A piece is the parts of its blocks, if there are any.
LEMMA PartsApart ==
  ASSUME InPiece
  PROVE  /\ \A b, c \in Block : \A e : e \in Part(b) /\ e \in Part(c) => b = c
         /\ \A b \in Block : Part(b) \subseteq VoxelsOf(piece)
         /\ VoxelsOf(piece) \subseteq Element
         /\ Blocks(piece) > 0 => \A e \in VoxelsOf(piece) : \E b \in Block : e \in Part(b)
<1>1. ASSUME NEW b \in Block, NEW c \in Block, NEW e, e \in Part(b), e \in Part(c)
      PROVE  b = c
  <2>1. PICK t \in Thread : e \in Share(b, t)
    BY <1>1, SharesApart, Zenon
  <2>2. PICK u \in Thread : e \in Share(c, u)
    BY <1>1, SharesApart, Zenon
  <2> QED
    BY <2>1, <2>2, SharesApart, Zenon
<1>2. \A b \in Block : Part(b) \subseteq VoxelsOf(piece)
  BY Zenon DEF Part, VoxelsOf
<1>3. VoxelsOf(piece) \subseteq Element
  <2>1. \A p \in 0 .. Size(piece) - 1 : Voxel(piece, p) \in Element
    BY LaunchIs, Zenon DEF InPiece
  <2> QED
    BY <2>1, Zenon DEF VoxelsOf
<1>4. ASSUME Blocks(piece) > 0, NEW e \in VoxelsOf(piece)
      PROVE  \E b \in Block : e \in Part(b)
  <2>1. PICK j \in 0 .. Size(piece) - 1 : e = Voxel(piece, j)
    BY Zenon DEF VoxelsOf
  <2>2. BlockOf(j) \in Block
    BY <1>4, GridIs, Zenon
  <2> QED
    BY <2>1, <2>2, Zenon DEF Part, BlockOf
<1> QED
  BY <1>1, <1>2, <1>3, <1>4, Zenon

-----------------------------------------------------------------------------
(***************************************************************************)
(* The steps of a block                                                    *)
(***************************************************************************)
\* What does not change during a launch.
LEMMA SameCall ==
  ASSUME job' = job
  PROVE  /\ Cuts' = Cuts /\ Pieces' = Pieces /\ MaxBlocks' = MaxBlocks
         /\ NumValsPerChunk' = NumValsPerChunk
         /\ Element' = Element /\ Countable' = Countable /\ Counts' = Counts
         /\ Nothing' = Nothing
         /\ \A E : Once(E)' = Once(E)
         /\ \A i : /\ Size(i)' = Size(i) /\ Threads(i)' = Threads(i) /\ Blocks(i)' = Blocks(i)
                   /\ \A p : Voxel(i, p)' = Voxel(i, p)
<1>1. /\ Cuts' = Cuts /\ Delta' = Delta /\ PerChannel' = PerChannel
      /\ NumValues' = NumValues /\ Element' = Element /\ Countable' = Countable
  BY DEF Cuts, Delta, PerChannel, NumValues, Element, Countable
<1>2. NumValsPerChunk' = NumValsPerChunk
  BY <1>1 DEF NumValsPerChunk
<1>3. \A i : ChunkSize(i)' = ChunkSize(i) /\ CurNumVals(i)' = CurNumVals(i) /\ Start(i)' = Start(i)
  BY <1>1, <1>2 DEF ChunkSize, CurNumVals, Start
<1>4. \A i : Size(i)' = Size(i)
  BY <1>1, <1>3 DEF Size
<1>5. \A i : Threads(i)' = Threads(i)
  BY <1>1, <1>4 DEF Threads
<1>6. \A i : HalfTheBlocks(i)' = HalfTheBlocks(i)
  BY <1>4, <1>5 DEF HalfTheBlocks
<1>7. MaxBlocks' = MaxBlocks
  BY <1>1, <1>2, <1>6 DEF MaxBlocks
<1>8. \A i : Blocks(i)' = Blocks(i)
  BY <1>1, <1>3, <1>6, <1>7 DEF Blocks
<1>9. \A i, p : Voxel(i, p)' = Voxel(i, p)
  BY <1>1, <1>2, <1>3 DEF Voxel
<1>10. Pieces' = Pieces
  BY <1>1, <1>2 DEF Pieces
<1>11. Counts' = Counts /\ Nothing' = Nothing /\ \A E : Once(E)' = Once(E)
  BY <1>1 DEF Counts, Nothing, Once
<1> QED
  BY <1>1, <1>2, <1>4, <1>5, <1>7, <1>8, <1>9, <1>10, <1>11

\* What only depends on the piece does not change while it does not.
LEMMA SamePiece ==
  ASSUME job' = job, piece' = piece
  PROVE  /\ Block' = Block /\ Thread' = Thread /\ Entries' = Entries
         /\ Threads(piece)' = Threads(piece) /\ Blocks(piece)' = Blocks(piece)
         /\ \A b : Part(b)' = Part(b)
         /\ \A b, t : Share(b, t)' = Share(b, t)
<1>1. /\ Threads(piece)' = Threads(piece) /\ Blocks(piece)' = Blocks(piece) /\ Size(piece)' = Size(piece)
      /\ \A p : Voxel(piece, p)' = Voxel(piece, p)
  BY SameCall
<1> QED
  BY <1>1, SameCall DEF Block, Thread, Entries, Part, Share

\* A block stays as it is when its state does.
LEMMA SameBlock ==
  ASSUME job' = job, piece' = piece, NEW b \in Block, BlockInv(b),
         phase'[b] = phase[b], localStride'[b] = localStride[b], arrived'[b] = arrived[b],
         shared'[b] = shared[b], arrayOut'[b] = arrayOut[b]
  PROVE  BlockInv(b)'
<1>1. /\ Thread' = Thread /\ Threads(piece)' = Threads(piece)
      /\ Part(b)' = Part(b) /\ \A t : Share(b, t)' = Share(b, t)
  BY SamePiece
<1>2. Countable' = Countable /\ Nothing' = Nothing /\ \A E : Once(E)' = Once(E)
  BY SameCall
<1>3. Live(b)' = Live(b)
  BY <1>1 DEF Live
<1>4. Keeps(b)' = Keeps(b)
  BY <1>1, <1>2, <1>3 DEF Keeps
<1>5. Loads(b)' = Loads(b)
  BY <1>1, <1>2 DEF Loads
<1>6. Reduces(b)' = Reduces(b)
  BY <1>1, <1>4 DEF Reduces, Even
<1> QED
  BY <1>1, <1>5, <1>6 DEF BlockInv, Garbage

\* While a block loads, an element that a thread has taken counts once.
LEMMA LoadedOnce ==
  ASSUME InPiece, NEW b \in Block, KernelTypeOK, Loads(b), NEW e \in Countable
  PROVE  IF \E t \in arrived[b] : e \in Share(b, t)
         THEN \E t \in Thread : shared[b][t][e] = 1 /\ \A u \in Thread \ {t} : shared[b][u][e] = 0
         ELSE \A t \in Thread : shared[b][t][e] = 0
<1>1. \A t \in Thread : shared[b][t][e] = IF t \in arrived[b] /\ e \in Share(b, t) THEN 1 ELSE 0
  BY DEF Loads, Once, Nothing
<1>2. arrived[b] \subseteq Thread
  BY DEF KernelTypeOK
<1>3. CASE \E t \in arrived[b] : e \in Share(b, t)
  <2>1. PICK t \in arrived[b] : e \in Share(b, t)
    BY <1>3
  <2>2. \A u \in Thread : e \in Share(b, u) => u = t
    BY <1>2, <2>1, SharesApart, Zenon
  <2> QED
    BY <1>1, <1>2, <1>3, <2>1, <2>2
<1>4. CASE ~ \E t \in arrived[b] : e \in Share(b, t)
  BY <1>1, <1>4
<1> QED
  BY <1>3, <1>4

\* The stride goes down to nothing without rest.
LEMMA EvenStrides ==
  ASSUME InPiece, Halves(Threads(piece))
  PROVE  /\ Even(Threads(piece) \div 2)
         /\ \A s \in Nat : Even(s) /\ s > 0 => Even(s \div 2) /\ (s = 1 \/ 2 * (s \div 2) = s)
         /\ Threads(piece) = 1 \/ 2 * (Threads(piece) \div 2) = Threads(piece)
<1> DEFINE T == Threads(piece)
<1>1. T \in Nat \ {0}
  BY PieceIs
<1>2. /\ Halves(T)
      /\ \A s : Even(s) <=> s = 0 \/ \E q \in 1 .. T : 2 * s * q = T
  BY DEF Even
<1> HIDE DEF T
<1>3. \A d, q \in 1 .. T : d * q = T => d = 1 \/ d % 2 = 0
  BY <1>2 DEF Halves
<1>4. T = 1 \/ T % 2 = 0
  BY <1>1, <1>3
<1>5. Even(T \div 2) /\ (T = 1 \/ 2 * (T \div 2) = T)
  BY <1>1, <1>2, <1>4
<1>6. ASSUME NEW s \in Nat, Even(s), s > 0
      PROVE  Even(s \div 2) /\ (s = 1 \/ 2 * (s \div 2) = s)
  <2>1. PICK q \in 1 .. T : 2 * s * q = T
    BY <1>2, <1>6
  <2>2. s * (2 * q) = T /\ 2 * q \in 1 .. T /\ s \in 1 .. T
    <3>1. s * q >= q /\ s * q >= s /\ s * q \in Nat
      <4>1. q \in Nat /\ q >= 1 /\ s >= 1
        BY <1>1, <1>6, <2>1
      <4>2. s * 1 <= s * q /\ q * 1 <= q * s
        BY <4>1, TimesMonotone
      <4> QED
        BY <4>1, <4>2
    <3>2. 2 * s * q = 2 * (s * q) /\ s * (2 * q) = 2 * (s * q)
      BY <2>1
    <3> QED
      BY <1>1, <1>6, <2>1, <3>1, <3>2
  <2>3. s = 1 \/ s % 2 = 0
    BY <1>3, <2>2
  <2>4. CASE s = 1
    BY <1>2, <2>4
  <2>5. CASE s % 2 = 0
    <3> DEFINE h == s \div 2
    <3>1. h \in Nat /\ 2 * h = s
      BY <2>5
    <3> HIDE DEF h
    <3>2. 2 * h * (2 * q) = T
      BY <2>2, <3>1
    <3> QED
      BY <1>2, <2>2, <3>1, <3>2 DEF h
  <2> QED
    BY <2>3, <2>4, <2>5
<1> QED
  BY <1>5, <1>6 DEF T

\* A thread loads its elements.
LEMMA LoadStep ==
  ASSUME InPiece, KernelTypeOK, \A c \in Block : BlockInv(c),
         NEW b \in Block, NEW t \in Thread, Load(b, t)
  PROVE  KernelTypeOK' /\ \A c \in Block : BlockInv(c)'
<1>1. /\ job' = job /\ piece' = piece /\ phase' = phase /\ localStride' = localStride
      /\ arrayOut' = arrayOut /\ phase[b] = "load"
      /\ shared' = [shared EXCEPT ![b][t] = Once(Share(b, t))]
      /\ arrived' = [arrived EXCEPT ![b] = @ \cup {t}]
  BY DEF Load
<1>2. /\ Block' = Block /\ Thread' = Thread /\ Threads(piece)' = Threads(piece)
      /\ \A u : Share(b, u)' = Share(b, u)
      /\ Counts' = Counts /\ Nothing' = Nothing /\ \A E : Once(E)' = Once(E)
  BY <1>1, SamePiece, SameCall
<1>3. Once(Share(b, t)) \in Counts
  BY DEF Once, Counts
<1>4. KernelTypeOK'
  BY <1>1, <1>2, <1>3 DEF KernelTypeOK
<1>5. ASSUME NEW c \in Block, c # b PROVE BlockInv(c)'
  <2>1. shared'[c] = shared[c] /\ arrived'[c] = arrived[c]
    BY <1>1, <1>5 DEF KernelTypeOK
  <2> QED
    BY <1>1, <2>1, SameBlock
<1>6. BlockInv(b)'
  <2>1. /\ Loads(b)
        /\ \A u \in Thread : shared[b][u][Garbage] = 0
    BY <1>1 DEF BlockInv
  <2>2. /\ shared'[b][t] = Once(Share(b, t))
        /\ \A u \in Thread : u # t => shared'[b][u] = shared[b][u]
        /\ arrived'[b] = arrived[b] \cup {t}
    BY <1>1 DEF KernelTypeOK
  <2>3. Once(Share(b, t))[Garbage] = 0
    <3>1. Garbage \notin Share(b, t)
      BY SharesApart, GarbageIsNoElement, Zenon
    <3> QED
      BY <3>1, GarbageIsNoElement DEF Once
  <2>4. \A u \in Thread : shared'[b][u][Garbage] = 0
    BY <2>1, <2>2, <2>3
  <2>5. Loads(b)'
    BY <1>1, <1>2, <2>1, <2>2 DEF Loads
  <2>6. phase'[b] = "load"
    BY <1>1
  <2> QED
    BY <1>2, <2>4, <2>5, <2>6 DEF BlockInv, Garbage
<1> QED
  BY <1>4, <1>5, <1>6

\* A thread adds the slot a stride above to its own: that slot is done with.
LEMMA ReduceIs ==
  ASSUME InPiece, KernelTypeOK, \A c \in Block : BlockInv(c),
         NEW b \in Block, NEW t \in Thread, Reduce(b, t)
  PROVE  /\ localStride[b] \in Nat /\ t < localStride[b] /\ t \notin arrived[b]
         /\ t + localStride[b] \in Thread /\ t + localStride[b] # t
         /\ phase'[b] = "reduce" /\ localStride'[b] = localStride[b]
         /\ arrived'[b] = arrived[b] \cup {t}
         /\ shared'[b][t] = shared[b][t] ++ shared[b][t + localStride[b]]
         /\ shared[b][t] ++ shared[b][t + localStride[b]] \in Counts
         /\ \A u \in Thread : u # t => shared'[b][u] = shared[b][u]
         /\ \A e \in Countable : \A u \in Thread :
              /\ shared[b][u][e] \in Nat
              /\ shared'[b][u][e] = IF u = t THEN shared[b][t][e] + shared[b][t + localStride[b]][e]
                                             ELSE shared[b][u][e]
         /\ Live(b)' = Live(b) \ {t + localStride[b]}
         /\ t \in Live(b) /\ t + localStride[b] \in Live(b) /\ Live(b) \subseteq Thread
<1> DEFINE s == localStride[b]
           T == Threads(piece)
<1>1. /\ job' = job /\ piece' = piece /\ phase' = phase /\ localStride' = localStride
      /\ phase[b] = "reduce"
      /\ shared' = [shared EXCEPT ![b][t] = shared[b][t] ++ shared[b][t + s]]
      /\ arrived' = [arrived EXCEPT ![b] = @ \cup {t}]
      /\ t < s /\ t \notin arrived[b]
  BY DEF Reduce
<1>2. Thread' = Thread
  BY <1>1, SamePiece
<1>3. /\ Reduces(b)
      /\ s \in Nat /\ T \in Nat \ {0} /\ Thread = 0 .. T - 1
      /\ shared[b] \in [Thread -> Counts] /\ arrived[b] \subseteq Thread
  BY <1>1, PieceIs DEF BlockInv, KernelTypeOK
<1>4. t + s \in Thread /\ t + s # t /\ t \in 0 .. s - 1
  BY <1>1, <1>3 DEF Reduces
<1>5. /\ shared[b][t] ++ shared[b][t + s] \in Counts
      /\ \A e \in Countable :
           (shared[b][t] ++ shared[b][t + s])[e] = shared[b][t][e] + shared[b][t + s][e]
  <2>1. shared[b][t] \in Counts /\ shared[b][t + s] \in Counts
    BY <1>3, <1>4
  <2> QED
    BY <2>1 DEF Counts, ++
<1>6. /\ shared'[b][t] = shared[b][t] ++ shared[b][t + s]
      /\ \A u \in Thread : u # t => shared'[b][u] = shared[b][u]
      /\ arrived'[b] = arrived[b] \cup {t}
      /\ phase'[b] = "reduce" /\ localStride'[b] = s
  BY <1>1 DEF KernelTypeOK
<1>7. Live(b) = {u \in Thread : u < 2 * s} \ {u + s : u \in arrived[b]}
  BY <1>1, <1>3 DEF Live
<1>8. Live(b)' = Live(b) \ {t + s}
  <2>1. Live(b)' = {u \in Thread : u < 2 * s} \ {u + s : u \in arrived[b] \cup {t}}
    BY <1>1, <1>2, <1>3, <1>6 DEF Live
  <2> QED
    BY <1>7, <2>1
<1>9. t \in Live(b) /\ t + s \in Live(b) /\ Live(b) \subseteq Thread
  <2>1. \A u \in arrived[b] : u \in Nat /\ u # t
    BY <1>1, <1>3
  <2> QED
    BY <1>1, <1>3, <1>4, <1>7, <2>1
<1>10. \A e \in Countable : \A u \in Thread :
         shared[b][u][e] \in Nat
         /\ shared'[b][u][e] = IF u = t THEN shared[b][t][e] + shared[b][t + s][e] ELSE shared[b][u][e]
  BY <1>3, <1>5, <1>6 DEF Counts
<1> QED
  BY <1>1, <1>3, <1>4, <1>5, <1>6, <1>8, <1>9, <1>10

\* A halving adds a slot that is no longer live to one that is.
LEMMA ReduceStep ==
  ASSUME InPiece, KernelTypeOK, \A c \in Block : BlockInv(c),
         NEW b \in Block, NEW t \in Thread, Reduce(b, t)
  PROVE  KernelTypeOK' /\ \A c \in Block : BlockInv(c)'
<1> DEFINE s == localStride[b]
           T == Threads(piece)
<1>1. /\ job' = job /\ piece' = piece /\ phase' = phase /\ localStride' = localStride
      /\ arrayOut' = arrayOut /\ phase[b] = "reduce"
      /\ shared' = [shared EXCEPT ![b][t] = shared[b][t] ++ shared[b][t + s]]
      /\ arrived' = [arrived EXCEPT ![b] = @ \cup {t}]
  BY DEF Reduce
<1>2. /\ Block' = Block /\ Thread' = Thread /\ T' = T /\ Part(b)' = Part(b)
      /\ Counts' = Counts /\ Countable' = Countable
  BY <1>1, SamePiece, SameCall
<1>3. /\ Reduces(b)
      /\ \A u \in Thread : shared[b][u][Garbage] = 0
      /\ T \in Nat \ {0} /\ Thread = 0 .. T - 1
  BY <1>1, PieceIs DEF BlockInv
<1>4. /\ s \in Nat /\ t < s /\ t + s \in Thread /\ t + s # t
      /\ phase'[b] = "reduce" /\ localStride'[b] = s
      /\ arrived'[b] = arrived[b] \cup {t}
      /\ shared[b][t] ++ shared[b][t + s] \in Counts
      /\ \A e \in Countable : \A u \in Thread :
           /\ shared[b][u][e] \in Nat
           /\ shared'[b][u][e] = IF u = t THEN shared[b][t][e] + shared[b][t + s][e]
                                          ELSE shared[b][u][e]
      /\ Live(b)' = Live(b) \ {t + s}
      /\ t \in Live(b) /\ t + s \in Live(b) /\ Live(b) \subseteq Thread
  BY ReduceIs
<1>5. KernelTypeOK'
  BY <1>1, <1>2, <1>4 DEF KernelTypeOK
<1>6. ASSUME NEW c \in Block, c # b PROVE BlockInv(c)'
  <2>1. shared'[c] = shared[c] /\ arrived'[c] = arrived[c]
    BY <1>1, <1>6 DEF KernelTypeOK
  <2> QED
    BY <1>1, <2>1, SameBlock
<1>7. \A u \in Thread : shared'[b][u][Garbage] = 0
  <2>1. \A u \in Thread : shared'[b][u][Garbage] =
          IF u = t THEN shared[b][t][Garbage] + shared[b][t + s][Garbage] ELSE shared[b][u][Garbage]
    BY <1>4, GarbageIsNoElement, Zenon
  <2>2. shared[b][t][Garbage] = 0 /\ shared[b][t + s][Garbage] = 0
    BY <1>3, <1>4, Zenon
  <2> QED
    BY <1>3, <2>1, <2>2
<1>8. ASSUME Keeps(b) PROVE Keeps(b)'
  <2> SUFFICES ASSUME NEW e \in Countable
               PROVE  IF e \in Part(b)
                      THEN \E x \in Live(b)' : /\ shared'[b][x][e] = 1
                                               /\ \A u \in Live(b)' \ {x} : shared'[b][u][e] = 0
                      ELSE \A x \in Live(b)' : shared'[b][x][e] = 0
    BY <1>2 DEF Keeps
  <2>1. CASE e \in Part(b)
    <3>1. PICK x \in Live(b) : shared[b][x][e] = 1 /\ \A u \in Live(b) \ {x} : shared[b][u][e] = 0
      BY <1>8, <2>1 DEF Keeps
    <3>2. CASE x = t + s
      <4>1. shared'[b][t][e] = 1
        BY <1>4, <3>1, <3>2
      <4>2. \A u \in Live(b)' \ {t} : shared'[b][u][e] = 0
        BY <1>4, <3>1, <3>2
      <4> QED
        BY <1>4, <2>1, <4>1, <4>2
    <3>3. CASE x # t + s
      <4>1. shared[b][t + s][e] = 0
        BY <1>4, <3>1, <3>3
      <4>2. \A u \in Live(b)' : shared'[b][u][e] = shared[b][u][e]
        BY <1>4, <4>1
      <4> QED
        BY <1>4, <2>1, <3>1, <3>3, <4>2
    <3> QED
      BY <3>2, <3>3
  <2>2. CASE e \notin Part(b)
    <3>1. \A u \in Live(b) : shared[b][u][e] = 0
      BY <1>8, <2>2 DEF Keeps
    <3> QED
      BY <1>4, <2>2, <3>1
  <2> QED
    BY <2>1, <2>2
<1>9. Reduces(b)'
  <2>1. arrived'[b] \subseteq 0 .. s - 1
    BY <1>3, <1>4 DEF Reduces
  <2>2. Even(localStride[b])' <=> Even(localStride[b])
    BY <1>1, <1>2 DEF Even
  <2> QED
    BY <1>2, <1>3, <1>4, <1>8, <2>1, <2>2 DEF Reduces
<1>10. BlockInv(b)'
  BY <1>2, <1>4, <1>7, <1>9 DEF BlockInv, Garbage
<1> QED
  BY <1>5, <1>6, <1>10

\* After __syncthreads the slots below the stride are all that is left to add.
LEMMA SyncIs ==
  ASSUME InPiece, KernelTypeOK, \A c \in Block : BlockInv(c),
         NEW b \in Block, Syncthreads(b), phase[b] # "load"
  PROVE  /\ phase[b] = "reduce" /\ phase'[b] = "reduce" /\ phase' = phase
         /\ localStride[b] \in Nat /\ localStride[b] > 0
         /\ localStride' = [localStride EXCEPT ![b] = localStride[b] \div 2]
         /\ localStride'[b] = localStride[b] \div 2
         /\ 0 \in arrived[b] /\ arrived'[b] = {}
         /\ 2 * localStride[b] <= Threads(piece)
         /\ Live(b) = 0 .. localStride[b] - 1
         /\ Live(b)' = IF localStride[b] \div 2 = 0 THEN {0} ELSE 0 .. 2 * (localStride[b] \div 2) - 1
<1> DEFINE s == localStride[b]
           T == Threads(piece)
<1>1. /\ job' = job /\ piece' = piece
      /\ phase[b] = "reduce" /\ s > 0 /\ arrived[b] = 0 .. s - 1 /\ phase' = phase
      /\ localStride' = [localStride EXCEPT ![b] = s \div 2]
      /\ arrived' = [arrived EXCEPT ![b] = {}]
  BY DEF Syncthreads
<1>2. Thread' = Thread
  BY <1>1, SamePiece
<1>3. s \in Nat /\ T \in Nat \ {0} /\ Thread = 0 .. T - 1 /\ 2 * s <= T
  BY <1>1, PieceIs DEF KernelTypeOK, BlockInv, Reduces
<1>4. arrived'[b] = {} /\ localStride'[b] = s \div 2 /\ phase'[b] = "reduce"
  BY <1>1 DEF KernelTypeOK
<1>5. Live(b) = 0 .. s - 1
  <2>1. Live(b) = {u \in Thread : u < 2 * s} \ {u + s : u \in 0 .. s - 1}
    BY <1>1 DEF Live
  <2>2. \A u : u \in {x + s : x \in 0 .. s - 1} <=> u \in s .. 2 * s - 1
    <3>1. \A x \in 0 .. s - 1 : x + s \in s .. 2 * s - 1
      BY <1>3
    <3>2. \A u \in s .. 2 * s - 1 : u - s \in 0 .. s - 1 /\ u = (u - s) + s
      BY <1>3
    <3> QED
      BY <3>1, <3>2
  <2>3. \A u : u \in {x \in Thread : x < 2 * s} <=> u \in 0 .. 2 * s - 1
    BY <1>3
  <2>4. \A u : u \in Live(b) <=> u \in 0 .. 2 * s - 1 /\ u \notin s .. 2 * s - 1
    BY <2>1, <2>2, <2>3, Zenon
  <2>5. \A u : (u \in 0 .. 2 * s - 1 /\ u \notin s .. 2 * s - 1) <=> u \in 0 .. s - 1
    BY <1>3
  <2> QED
    BY <2>4, <2>5, Zenon
<1>6. Live(b)' = IF s \div 2 = 0 THEN {0} ELSE 0 .. 2 * (s \div 2) - 1
  <2>1. Live(b)' = IF s \div 2 = 0 THEN {u \in Thread : u = 0} ELSE {u \in Thread : u < 2 * (s \div 2)}
    BY <1>2, <1>4 DEF Live
  <2>2. s \div 2 \in Nat /\ 2 * (s \div 2) <= T
    BY <1>3
  <2> DEFINE h == s \div 2
  <2> HIDE DEF h
  <2>3. {u \in Thread : u = 0} = {0}
    BY <1>3
  <2>4. {u \in Thread : u < 2 * h} = 0 .. 2 * h - 1
    BY <1>3, <2>2 DEF h
  <2> QED
    BY <2>1, <2>3, <2>4 DEF h
<1>7. 0 \in arrived[b]
  BY <1>1, <1>3
<1> QED
  BY <1>1, <1>3, <1>4, <1>5, <1>6, <1>7

\* __syncthreads: the slots below the stride are all that is left to add.
LEMMA SyncStep ==
  ASSUME InPiece, KernelTypeOK, \A c \in Block : BlockInv(c),
         NEW b \in Block, Syncthreads(b)
  PROVE  KernelTypeOK' /\ \A c \in Block : BlockInv(c)'
<1> DEFINE s == localStride[b]
           T == Threads(piece)
<1>1. /\ job' = job /\ piece' = piece /\ shared' = shared /\ arrayOut' = arrayOut
      /\ arrived' = [arrived EXCEPT ![b] = {}]
  BY DEF Syncthreads
<1>2. /\ Block' = Block /\ Thread' = Thread /\ T' = T /\ Part(b)' = Part(b)
      /\ Counts' = Counts /\ Countable' = Countable
  BY <1>1, SamePiece, SameCall
<1>3. /\ s \in Nat /\ T \in Nat \ {0} /\ Thread = 0 .. T - 1
      /\ \A u \in Thread : shared[b][u][Garbage] = 0
  BY PieceIs DEF KernelTypeOK, BlockInv
<1>4. arrived'[b] = {} /\ \A c \in Block : c # b => arrived'[c] = arrived[c]
  BY <1>1 DEF KernelTypeOK
<1>5. CASE phase[b] = "load"
  <2>1. /\ arrived[b] = Thread /\ phase' = [phase EXCEPT ![b] = "reduce"] /\ localStride' = localStride
    BY <1>5 DEF Syncthreads
  <2>2. phase'[b] = "reduce" /\ \A c \in Block : c # b => phase'[c] = phase[c]
    BY <2>1 DEF KernelTypeOK
  <2>3. KernelTypeOK'
    BY <1>1, <1>2, <2>1 DEF KernelTypeOK
  <2>4. \A c \in Block : c # b => BlockInv(c)'
    BY <1>1, <1>4, <2>1, <2>2, SameBlock
  <2>5. Loads(b) /\ s = T \div 2
    BY <1>5 DEF BlockInv, Loads
  <2>6. ASSUME Halves(T) PROVE Even(s) /\ Keeps(b)'
    <3>1. Even(s) /\ (T = 1 \/ 2 * s = T)
      BY <2>5, <2>6, EvenStrides
    <3>2. Live(b)' = Thread
      <4>1. Live(b)' = IF s = 0 THEN {u \in Thread : u = 0} ELSE {u \in Thread : u < 2 * s}
        BY <1>2, <1>4, <2>1, <2>2 DEF Live
      <4>2. CASE T = 1
        <5>1. s = 0
          BY <2>5, <4>2
        <5> QED
          BY <1>3, <4>1, <4>2, <5>1
      <4>3. CASE T # 1
        <5>1. 2 * s = T /\ s # 0
          BY <1>3, <3>1, <4>3
        <5> QED
          BY <1>3, <4>1, <5>1
      <4> QED
        BY <4>2, <4>3
    <3> SUFFICES ASSUME NEW e \in Countable
                 PROVE  IF e \in Part(b)
                        THEN \E x \in Thread : /\ shared[b][x][e] = 1
                                               /\ \A u \in Thread \ {x} : shared[b][u][e] = 0
                        ELSE \A x \in Thread : shared[b][x][e] = 0
      BY <1>1, <1>2, <3>1, <3>2 DEF Keeps
    <3>3. e \in Part(b) <=> \E t \in arrived[b] : e \in Share(b, t)
      BY <2>1, SharesApart
    <3> QED
      BY <2>5, <3>3, LoadedOnce
  <2>7. Reduces(b)'
    <3>1. 2 * s <= T
      BY <1>3, <2>5
    <3>2. Even(localStride[b])' <=> Even(s)
      BY <1>2, <2>1 DEF Even
    <3> QED
      BY <1>2, <1>4, <2>1, <2>6, <3>1, <3>2 DEF Reduces
  <2>8. BlockInv(b)'
    BY <1>1, <1>2, <1>3, <2>2, <2>7 DEF BlockInv, Garbage
  <2> QED
    BY <2>3, <2>4, <2>8
<1>6. CASE phase[b] # "load"
  <2>1. /\ phase[b] = "reduce" /\ phase' = phase /\ s > 0 /\ 2 * s <= T
        /\ localStride' = [localStride EXCEPT ![b] = s \div 2]
        /\ localStride'[b] = s \div 2
        /\ Live(b) = 0 .. s - 1
        /\ Live(b)' = IF s \div 2 = 0 THEN {0} ELSE 0 .. 2 * (s \div 2) - 1
    BY <1>6, SyncIs
  <2>2. \A c \in Block : c # b => localStride'[c] = localStride[c]
    BY <2>1 DEF KernelTypeOK
  <2>3. s \div 2 \in Nat
    BY <1>3
  <2>4. KernelTypeOK'
    BY <1>1, <1>2, <2>1, <2>3 DEF KernelTypeOK
  <2>5. \A c \in Block : c # b => BlockInv(c)'
    BY <1>1, <1>4, <2>1, <2>2, SameBlock
  <2>6. Reduces(b)
    BY <1>6 DEF BlockInv
  <2>7. ASSUME Halves(T) PROVE Even(s \div 2) /\ Keeps(b)'
    <3>1. Even(s) /\ Keeps(b)
      BY <2>6, <2>7 DEF Reduces
    <3>2. Even(s \div 2) /\ (s = 1 \/ 2 * (s \div 2) = s)
      BY <1>3, <2>1, <2>7, <3>1, EvenStrides
    <3>3. Live(b)' = Live(b)
      <4>1. CASE s = 1
        BY <2>1, <4>1
      <4>2. CASE s # 1
        BY <2>1, <3>2, <4>2
      <4> QED
        BY <4>1, <4>2
    <3> QED
      BY <1>1, <1>2, <3>1, <3>2, <3>3 DEF Keeps
  <2>8. Reduces(b)'
    <3>1. 2 * (s \div 2) <= T
      BY <1>3, <2>1
    <3>2. Even(localStride[b])' <=> Even(s \div 2)
      BY <1>2, <2>1 DEF Even
    <3> QED
      BY <1>2, <1>4, <2>1, <2>7, <3>1, <3>2 DEF Reduces
  <2>9. BlockInv(b)'
    BY <1>1, <1>2, <1>3, <2>1, <2>8 DEF BlockInv, Garbage
  <2> QED
    BY <2>4, <2>5, <2>9
<1> QED
  BY <1>5, <1>6

\* Thread 0 returns what the block has.
LEMMA WriteStep ==
  ASSUME InPiece, KernelTypeOK, \A c \in Block : BlockInv(c),
         arrayOut \in [0 .. MaxBlocks - 1 -> Counts], Blocks(piece) <= MaxBlocks,
         NEW b \in Block, WriteOut(b)
  PROVE  KernelTypeOK' /\ \A c \in Block : BlockInv(c)'
<1>1. /\ job' = job /\ piece' = piece /\ shared' = shared /\ localStride' = localStride
      /\ arrived' = arrived /\ phase[b] = "reduce" /\ localStride[b] = 0
      /\ phase' = [phase EXCEPT ![b] = "written"]
      /\ arrayOut' = [arrayOut EXCEPT ![b] = shared[b][0]]
  BY DEF WriteOut
<1>2. /\ Block' = Block /\ Thread' = Thread /\ Threads(piece)' = Threads(piece) /\ Part(b)' = Part(b)
      /\ Counts' = Counts /\ Countable' = Countable
  BY <1>1, SamePiece, SameCall
<1>3. Block \subseteq 0 .. MaxBlocks - 1
  BY PieceIs
<1>4. /\ phase'[b] = "written" /\ arrayOut'[b] = shared[b][0]
      /\ \A c \in Block : c # b => phase'[c] = phase[c] /\ arrayOut'[c] = arrayOut[c]
  BY <1>1, <1>3 DEF KernelTypeOK
<1>5. KernelTypeOK'
  BY <1>1, <1>2 DEF KernelTypeOK
<1>6. \A c \in Block : c # b => BlockInv(c)'
  BY <1>1, <1>4, SameBlock
<1>7. BlockInv(b)'
  <2>1. Live(b)' = Live(b)
    BY <1>1, <1>2, <1>4 DEF Live
  <2>2. Keeps(b)' = Keeps(b)
    BY <1>1, <1>2, <2>1 DEF Keeps
  <2>3. Reduces(b)' = Reduces(b)
    BY <1>1, <1>2, <2>2 DEF Reduces, Even
  <2> QED
    BY <1>1, <1>2, <1>4, <2>3 DEF BlockInv, Garbage
<1> QED
  BY <1>5, <1>6, <1>7

\* A launch begins with every block loading.
LEMMA LaunchStep ==
  ASSUME Job(job), piece \in 0 .. Pieces - 1, Launch
  PROVE  KernelTypeOK' /\ \A c \in Block : BlockInv(c)'
<1>0. InPiece
  BY DEF InPiece
<1>1. /\ job' = job /\ piece' = piece
      /\ phase' = [b \in Block |-> "load"]
      /\ localStride' = [b \in Block |-> Threads(piece) \div 2]
      /\ arrived' = [b \in Block |-> {}]
      /\ shared' = [b \in Block |-> [t \in Thread |-> Nothing]]
  BY DEF Launch
<1>2. /\ Block' = Block /\ Thread' = Thread /\ Threads(piece)' = Threads(piece)
      /\ Counts' = Counts /\ Countable' = Countable /\ Nothing' = Nothing
  BY <1>1, SamePiece, SameCall
<1>3. Threads(piece) \div 2 \in Nat
  BY <1>0, PieceIs
<1>4. Nothing \in Counts /\ Nothing[Garbage] = 0
  BY GarbageIsNoElement DEF Nothing, Counts
<1>5. KernelTypeOK'
  BY <1>1, <1>2, <1>3, <1>4 DEF KernelTypeOK
<1>6. ASSUME NEW c \in Block PROVE BlockInv(c)'
  BY <1>1, <1>2, <1>4 DEF BlockInv, Loads, Garbage
<1> QED
  BY <1>5, <1>6

\* A step of a block changes its block, and nothing of the host's.
BlockStep ==
  \E b \in Block : \/ \E t \in Thread : Load(b, t) \/ Reduce(b, t)
                   \/ Syncthreads(b) \/ WriteOut(b)

\* A step of a block changes nothing of the host's, and keeps every block.
LEMMA BlocksHold ==
  ASSUME InPiece, KernelTypeOK, \A c \in Block : BlockInv(c),
         arrayOut \in [0 .. MaxBlocks - 1 -> Counts], Blocks(piece) <= MaxBlocks,
         BlockStep
  PROVE  /\ job' = job /\ piece' = piece /\ pc' = pc /\ entry' = entry /\ outVal' = outVal
         /\ pc = "kernel" /\ ~Finished
         /\ KernelTypeOK' /\ \A c \in Block : BlockInv(c)'
         /\ arrayOut' \in [0 .. MaxBlocks - 1 -> Counts]
         /\ \A c \in 0 .. MaxBlocks - 1 :
              arrayOut'[c] = arrayOut[c] \/ arrayOut'[c][Garbage] = 0
<1>1. PICK b \in Block : \/ \E t \in Thread : Load(b, t) \/ Reduce(b, t)
                         \/ Syncthreads(b) \/ WriteOut(b)
  BY DEF BlockStep
<1>2. KernelTypeOK' /\ \A c \in Block : BlockInv(c)'
  BY <1>1, LoadStep, ReduceStep, SyncStep, WriteStep
<1>3. /\ job' = job /\ piece' = piece /\ pc' = pc /\ entry' = entry /\ outVal' = outVal
      /\ pc = "kernel" /\ phase[b] # "written"
  BY <1>1 DEF Load, Reduce, Syncthreads, WriteOut
<1>4. \/ arrayOut' = arrayOut
      \/ arrayOut' = [arrayOut EXCEPT ![b] = shared[b][0]]
  BY <1>1 DEF Load, Reduce, Syncthreads, WriteOut
<1>5. 0 \in Thread /\ shared[b][0] \in Counts /\ shared[b][0][Garbage] = 0
  BY PieceIs DEF KernelTypeOK, BlockInv
<1>6. /\ arrayOut' \in [0 .. MaxBlocks - 1 -> Counts]
      /\ \A c \in 0 .. MaxBlocks - 1 : arrayOut'[c] = arrayOut[c] \/ arrayOut'[c][Garbage] = 0
  BY <1>4, <1>5
<1> QED
  BY <1>2, <1>3, <1>6 DEF Finished

-----------------------------------------------------------------------------
(***************************************************************************)
(* The host                                                                *)
(***************************************************************************)
\* What only depends on the job does not change while it does not.
LEMMA SameVoxels ==
  ASSUME job' = job
  PROVE  /\ \A i : VoxelsOf(i)' = VoxelsOf(i)
         /\ \A e, n : Times(e, n)' = Times(e, n)
         /\ \A n : AllHalve(n)' = AllHalve(n)
         /\ WritesAll' = WritesAll
<1>1. \A i : VoxelsOf(i)' = VoxelsOf(i)
  BY SameCall DEF VoxelsOf
<1>2. \A e, n : {i \in 0 .. n - 1 : e \in VoxelsOf(i)}' = {i \in 0 .. n - 1 : e \in VoxelsOf(i)}
  BY <1>1
<1>3. \A e, n : Times(e, n)' = Times(e, n)
  BY <1>2 DEF Times
<1>4. \A n : AllHalve(n)' = AllHalve(n)
  BY SameCall DEF AllHalve
<1>5. WritesAll' = WritesAll
  BY SameCall DEF WritesAll
<1> QED
  BY <1>1, <1>3, <1>4, <1>5

\* An element counts once more when the next piece has it.
LEMMA TimesNext ==
  ASSUME NEW e, NEW n \in Nat
  PROVE  /\ Times(e, n) \in Nat
         /\ Times(e, 0) = 0
         /\ Times(e, n + 1) = Times(e, n) + (IF e \in VoxelsOf(n) THEN 1 ELSE 0)
<1> DEFINE I(m) == {i \in 0 .. m - 1 : e \in VoxelsOf(i)}
<1>1. IsFiniteSet(I(n))
  <2>1. IsFiniteSet(0 .. n - 1)
    BY FS_Interval
  <2> QED
    BY <2>1, FS_Subset
<1>2. Cardinality(I(n)) \in Nat
  BY <1>1, FS_CardinalityType
<1>3. n \notin I(n)
  OBVIOUS
<1>4. I(n + 1) = IF e \in VoxelsOf(n) THEN I(n) \cup {n} ELSE I(n)
  OBVIOUS
<1>5. I(0) = {}
  OBVIOUS
<1>6. \A m : Times(e, m) = Cardinality(I(m))
  BY DEF Times
<1> HIDE DEF I
<1>7. Cardinality(I(n) \cup {n}) = Cardinality(I(n)) + 1
  BY <1>1, <1>3, FS_AddElement
<1>8. Cardinality(I(n + 1)) = Cardinality(I(n)) + (IF e \in VoxelsOf(n) THEN 1 ELSE 0)
  <2>1. CASE e \in VoxelsOf(n)
    BY <1>4, <1>7, <2>1
  <2>2. CASE e \notin VoxelsOf(n)
    BY <1>2, <1>4, <2>2
  <2> QED
    BY <2>1, <2>2
<1>9. Cardinality(I(0)) = 0
  BY <1>5, FS_EmptySet
<1>10. Times(e, n) = Cardinality(I(n)) /\ Times(e, 0) = Cardinality(I(0))
       /\ Times(e, n + 1) = Cardinality(I(n + 1))
  BY <1>6, Zenon
<1> QED
  BY <1>2, <1>8, <1>9, <1>10

\* What a block has returned.
LEMMA WrittenIs ==
  ASSUME InPiece, KernelTypeOK, \A c \in Block : BlockInv(c), Finished, NEW b \in Block
  PROVE  /\ arrayOut[b][Garbage] = 0
         /\ Halves(Threads(piece)) =>
              \A e \in Countable : arrayOut[b][e] = IF e \in Part(b) THEN 1 ELSE 0
<1>1. /\ phase[b] = "written" /\ localStride[b] = 0 /\ arrayOut[b] = shared[b][0]
      /\ Reduces(b) /\ \A t \in Thread : shared[b][t][Garbage] = 0
  BY DEF Finished, BlockInv
<1>2. 0 \in Thread
  BY PieceIs
<1>3. Live(b) = {0}
  BY <1>1, <1>2 DEF Live
<1> QED
  BY <1>1, <1>2, <1>3 DEF Reduces, Keeps

\* One turn of the host's loop.
LEMMA CollectedNext ==
  ASSUME InPiece, entry \in Block, NEW e
  PROVE  (IF \E b \in 0 .. entry : e \in Part(b) THEN 1 ELSE 0)
           = Collected(e) + (IF e \in Part(entry) THEN 1 ELSE 0)
<1>1. entry \in Nat /\ \A b \in 0 .. entry - 1 : b \in Block /\ b # entry
  BY PieceIs
<1>2. e \in Part(entry) => ~ \E b \in 0 .. entry - 1 : e \in Part(b)
  BY <1>1, PartsApart
<1>3. (\E b \in 0 .. entry : e \in Part(b)) <=> (\E b \in 0 .. entry - 1 : e \in Part(b)) \/ e \in Part(entry)
  BY <1>1
<1> QED
  BY <1>2, <1>3 DEF Collected

\* The host has gone through all the blocks there are.
LEMMA CollectedAll ==
  ASSUME InPiece, entry \in Nat, Blocks(piece) > 0, entry >= Blocks(piece), NEW e,
         \A b \in 0 .. entry - 1 : b \in Block
  PROVE  Collected(e) = IF e \in VoxelsOf(piece) THEN 1 ELSE 0
<1>1. \A b \in Block : b \in 0 .. entry - 1
  BY PieceIs
<1>2. e \in VoxelsOf(piece) <=> \E b \in Block : e \in Part(b)
  BY PartsApart
<1> QED
  BY <1>1, <1>2 DEF Collected

\* A call that reads no garbage writes all its entries with its first launch.
LEMMA FirstLaunchWrites ==
  ASSUME InPiece, ~Cuts, WritesAll
  PROVE  Blocks(0) = MaxBlocks
<1>1. CASE job.op = "DeviceMinMax"
  BY <1>1 DEF Blocks, InPiece, Job
<1>2. CASE job.op # "DeviceMinMax"
  <2> DEFINE D == NumValsPerChunk
             w == 2 * job.maxThreads
  <2>1. /\ job.op = "GetMinMax" /\ w \in Nat \ {0} /\ D \in Nat \ {0} /\ NumValues \in Nat \ {0}
        /\ D % w = 0
    BY <1>2, ArrayIs DEF InPiece, Job, Cuts, Ops, WritesAll
  <2>2. CurNumVals(0) = D
    BY <2>1 DEF CurNumVals, NumValsPerChunk
  <2>3. Blocks(0) = D \div w /\ MaxBlocks = CeilDiv(D, w)
    BY <2>1, <2>2 DEF Blocks, MaxBlocks
  <2> HIDE DEF D, w
  <2>4. D \div w = CeilDiv(D, w)
    <3> DEFINE q == D \div w
               r == D % w
    <3>1. D \in Nat
      BY <2>1
    <3>2. q \in Nat /\ r = 0 /\ D = w * q + r /\ w * q \in Nat
      BY <2>1, <3>1, QuotientAndRest, Zenon
    <3> HIDE DEF q, r
    <3>3. D + w - 1 = w * q + (w - 1) /\ w - 1 \in 0 .. w - 1
      BY <2>1, <3>2
    <3>4. (w * q + (w - 1)) \div w = q
      BY <2>1, <3>2, <3>3, DivisionIs
    <3> QED
      BY <3>3, <3>4 DEF CeilDiv, q
  <2> QED
    BY <2>3, <2>4
<1> QED
  BY <1>1, <1>2

-----------------------------------------------------------------------------
(***************************************************************************)
(* The invariant holds                                                     *)
(***************************************************************************)
\* The invariant holds when a call begins.
LEMMA InitHolds ==
  ASSUME Init
  PROVE  IInv
<1>1. /\ job \in Jobs /\ pc = "start" /\ piece = 0 /\ entry = 0 /\ outVal = Nothing
      /\ arrayOut = [b \in 0 .. MaxBlocks - 1 |-> Once({Garbage})]
  BY DEF Init
<1>2. Job(job)
  BY <1>1, ReductionsAssumption
<1>3. Pieces \in Nat \ {0}
  BY <1>2, LaunchIs
<1>4. Nothing \in Counts /\ Once({Garbage}) \in Counts /\ \A e \in Countable : Nothing[e] = 0
  BY DEF Nothing, Once, Counts
<1>5. TypeOK
  BY <1>1, <1>3, <1>4 DEF TypeOK
<1>6. KernelInv /\ SumInv /\ RangeInv
  BY <1>1 DEF KernelInv, SumInv, RangeInv
<1>7. NoGarbage
  BY <1>1, <1>4, GarbageIsNoElement DEF NoGarbage
<1>8. ArrayInv
  BY <1>1 DEF ArrayInv
<1> QED
  BY <1>5, <1>6, <1>7, <1>8 DEF IInv

\* The launch in progress, and its pieces.
LEMMA InKernel ==
  ASSUME IInv, pc = "kernel"
  PROVE  /\ InPiece /\ KernelTypeOK /\ \A c \in Block : BlockInv(c)
         /\ arrayOut \in [0 .. MaxBlocks - 1 -> Counts] /\ Blocks(piece) <= MaxBlocks
         /\ piece \in Nat /\ entry \in Nat
<1>1. Job(job) /\ piece \in 0 .. Pieces /\ piece < Pieces
  BY ReductionsAssumption DEF IInv, TypeOK, KernelInv
<1>2. Pieces \in Nat \ {0}
  BY <1>1, LaunchIs
<1> QED
  BY <1>1, <1>2 DEF IInv, TypeOK, KernelInv, InPiece

\* A step of a block keeps it.
LEMMA BlockStepHolds ==
  ASSUME IInv, pc = "kernel", BlockStep
  PROVE  IInv'
<1>1. /\ InPiece /\ KernelTypeOK /\ \A c \in Block : BlockInv(c)
      /\ arrayOut \in [0 .. MaxBlocks - 1 -> Counts] /\ Blocks(piece) <= MaxBlocks
      /\ piece \in Nat /\ entry \in Nat
  BY InKernel
<1>2. /\ job' = job /\ piece' = piece /\ pc' = pc /\ entry' = entry /\ outVal' = outVal
      /\ ~Finished
      /\ KernelTypeOK' /\ \A c \in Block : BlockInv(c)'
      /\ arrayOut' \in [0 .. MaxBlocks - 1 -> Counts]
      /\ \A c \in 0 .. MaxBlocks - 1 : arrayOut'[c] = arrayOut[c] \/ arrayOut'[c][Garbage] = 0
  BY <1>1, BlocksHold
<1>3. /\ Cuts' = Cuts /\ Pieces' = Pieces /\ MaxBlocks' = MaxBlocks
      /\ Element' = Element /\ Countable' = Countable /\ Counts' = Counts
      /\ \A i : Threads(i)' = Threads(i) /\ Blocks(i)' = Blocks(i)
  BY <1>2, SameCall
<1>4. /\ Block' = Block /\ \A b : Part(b)' = Part(b)
  BY <1>2, SamePiece
<1>5. /\ \A i : VoxelsOf(i)' = VoxelsOf(i)
      /\ \A e, n : Times(e, n)' = Times(e, n)
      /\ \A n : AllHalve(n)' = AllHalve(n)
      /\ WritesAll' = WritesAll
  BY <1>2, SameVoxels
<1>6. Seen' = Seen /\ \A e : Collected(e)' = Collected(e)
  BY <1>2, <1>3, <1>4 DEF Seen, Collected
<1>7. TypeOK'
  BY <1>2, <1>3 DEF IInv, TypeOK
<1>8. KernelInv'
  BY <1>1, <1>2, <1>3, <1>4 DEF IInv, KernelInv
<1>9. NoGarbage'
  BY <1>2, <1>3, <1>5 DEF IInv, NoGarbage, Garbage
<1>10. SumInv'
  BY <1>2, <1>3, <1>5, <1>6 DEF IInv, SumInv
<1>11. RangeInv'
  BY <1>2, <1>3, <1>5, <1>6 DEF IInv, RangeInv
<1>12. ArrayInv'
  BY <1>2, <1>3, <1>4, <1>5, <1>6 DEF IInv, ArrayInv
<1> QED
  BY <1>7, <1>8, <1>9, <1>10, <1>11, <1>12 DEF IInv

\* A launch begins with blocks that have loaded nothing.
LEMMA LaunchHolds ==
  ASSUME IInv, Launch
  PROVE  IInv'
<1>1. /\ job' = job /\ piece' = piece /\ pc = "send" /\ pc' = "kernel" /\ entry' = 0
      /\ piece < Pieces /\ Blocks(piece) <= MaxBlocks
      /\ outVal' = IF job.op = "MinMax" THEN Nothing ELSE outVal
      /\ arrayOut' = [b \in DOMAIN arrayOut |->
                    IF job.op = "Sum" /\ b \in Block THEN Nothing ELSE arrayOut[b]]
  BY DEF Launch
<1>2. Job(job) /\ piece \in 0 .. Pieces /\ arrayOut \in [0 .. MaxBlocks - 1 -> Counts] /\ outVal \in Counts
  BY ReductionsAssumption DEF IInv, TypeOK
<1>3. piece \in 0 .. Pieces - 1 /\ piece \in Nat /\ Pieces \in Nat
  BY <1>1, <1>2, LaunchIs
<1>4. KernelTypeOK' /\ \A c \in Block : BlockInv(c)'
  BY <1>2, <1>3, LaunchStep
<1>5. /\ Cuts' = Cuts /\ Pieces' = Pieces /\ MaxBlocks' = MaxBlocks
      /\ Element' = Element /\ Countable' = Countable /\ Counts' = Counts
      /\ \A i : Threads(i)' = Threads(i) /\ Blocks(i)' = Blocks(i)
  BY <1>1, SameCall
<1>6. Block' = Block
  BY <1>1, SamePiece
<1>7. /\ \A i : VoxelsOf(i)' = VoxelsOf(i)
      /\ \A e, n : Times(e, n)' = Times(e, n)
      /\ \A n : AllHalve(n)' = AllHalve(n)
      /\ WritesAll' = WritesAll
  BY <1>1, SameVoxels
<1>8. Nothing \in Counts /\ \A e \in Countable : Nothing[e] = 0
  BY DEF Nothing, Counts
<1>9. outVal' \in Counts /\ arrayOut' \in [0 .. MaxBlocks - 1 -> Counts]
  BY <1>1, <1>2, <1>8
<1>10. \A e : Collected(e)' = 0
  BY <1>1 DEF Collected
<1>11. TypeOK'
  BY <1>1, <1>2, <1>5, <1>9 DEF IInv, TypeOK
<1>12. KernelInv'
  <2>1. Cuts => 0 <= Blocks(piece)
    BY <1>2, <1>3, LaunchIs
  <2> QED
    BY <1>1, <1>4, <1>5, <1>6, <2>1 DEF KernelInv
<1>13. NoGarbage'
  <2>1. ASSUME WritesAll PROVE outVal'[Garbage] = 0
    BY <1>1, <1>8, <2>1, GarbageIsNoElement DEF IInv, NoGarbage
  <2>2. ~Cuts => arrayOut' = arrayOut
    BY <1>1, <1>2 DEF Cuts
  <2> QED
    BY <1>1, <1>5, <1>7, <2>1, <2>2 DEF IInv, NoGarbage, Garbage
<1>14. SumInv'
  <2> SUFFICES ASSUME job.op = "Sum", AllHalve(piece + 1), NEW e \in Countable
               PROVE  outVal'[e] = Times(e, piece) + 0
    BY <1>1, <1>5, <1>7, <1>10 DEF SumInv
  <2>1. AllHalve(piece)
    BY <1>3 DEF AllHalve
  <2>2. outVal'[e] = Times(e, piece)
    BY <1>1, <2>1 DEF IInv, SumInv
  <2>3. Times(e, piece) \in Nat
    BY <1>3, TimesNext
  <2> QED
    BY <2>2, <2>3
<1>15. RangeInv'
  BY <1>1, <1>5, <1>8, <1>10 DEF RangeInv
<1>16. ArrayInv'
  <2>1. ~Cuts => outVal' = outVal
    BY <1>1 DEF Cuts
  <2>2. ~Cuts => Seen' = Seen
    BY <1>5, <2>1 DEF Seen
  <2>3. 0 .. 0 - 1 = {}
    OBVIOUS
  <2> QED
    BY <1>1, <1>5, <1>7, <2>2, <2>3 DEF IInv, ArrayInv
<1> QED
  BY <1>11, <1>12, <1>13, <1>14, <1>15, <1>16 DEF IInv

\* The host adds one entry to what it has counted.
LEMMA CollectHolds ==
  ASSUME IInv, Collect
  PROVE  IInv'
<1>1. /\ pc = "kernel" /\ Finished /\ entry \in Entries
      /\ outVal' = outVal ++ arrayOut[entry] /\ entry' = entry + 1
      /\ job' = job /\ pc' = pc /\ piece' = piece /\ phase' = phase /\ localStride' = localStride
      /\ arrived' = arrived /\ shared' = shared /\ arrayOut' = arrayOut
  BY DEF Collect
<1>2. /\ InPiece /\ KernelTypeOK /\ \A c \in Block : BlockInv(c)
      /\ arrayOut \in [0 .. MaxBlocks - 1 -> Counts] /\ Blocks(piece) <= MaxBlocks
      /\ piece \in Nat /\ entry \in Nat /\ outVal \in Counts
  BY <1>1, InKernel DEF IInv, TypeOK
<1>3. /\ Cuts' = Cuts /\ Pieces' = Pieces /\ MaxBlocks' = MaxBlocks
      /\ Element' = Element /\ Countable' = Countable /\ Counts' = Counts
      /\ \A i : Threads(i)' = Threads(i) /\ Blocks(i)' = Blocks(i)
  BY <1>1, SameCall
<1>4. /\ Block' = Block /\ Thread' = Thread /\ \A b : Part(b)' = Part(b)
  BY <1>1, SamePiece
<1>5. /\ \A i : VoxelsOf(i)' = VoxelsOf(i)
      /\ \A e, n : Times(e, n)' = Times(e, n)
      /\ \A n : AllHalve(n)' = AllHalve(n)
      /\ WritesAll' = WritesAll
  BY <1>1, SameVoxels
<1>6. /\ entry \in 0 .. MaxBlocks - 1
      /\ Cuts => entry \in Block /\ entry + 1 <= Blocks(piece)
      /\ Block = 0 .. Blocks(piece) - 1 /\ Blocks(piece) \in Nat
  BY <1>1, <1>2, PieceIs DEF Entries
<1>7. arrayOut[entry] \in Counts
  BY <1>2, <1>6
<1>8. /\ outVal' \in Counts
      /\ \A e \in Countable : outVal'[e] = outVal[e] + arrayOut[entry][e]
  BY <1>1, <1>2, <1>7 DEF Counts, ++
<1>9. \A e \in Countable : outVal[e] \in Nat /\ arrayOut[entry][e] \in Nat
  BY <1>2, <1>7 DEF Counts
<1>10. \A e : Collected(e)' = IF \E b \in 0 .. entry : e \in Part(b) THEN 1 ELSE 0
  <2>1. (entry + 1) - 1 = entry
    BY <1>2
  <2> QED
    BY <1>1, <1>4, <2>1 DEF Collected
<1>11. ASSUME Halves(Threads(piece)), entry \in Block, NEW e \in Countable
       PROVE  /\ arrayOut[entry][e] = IF e \in Part(entry) THEN 1 ELSE 0
              /\ Collected(e)' = Collected(e) + arrayOut[entry][e]
              /\ Collected(e) \in Nat
  <2>1. arrayOut[entry][e] = IF e \in Part(entry) THEN 1 ELSE 0
    BY <1>1, <1>2, <1>11, WrittenIs
  <2>2. Collected(e)' = Collected(e) + (IF e \in Part(entry) THEN 1 ELSE 0)
    BY <1>2, <1>10, <1>11, CollectedNext
  <2> QED
    BY <2>1, <2>2 DEF Collected
<1>12. TypeOK'
  BY <1>1, <1>2, <1>3, <1>8 DEF IInv, TypeOK
<1>13. KernelInv'
  <2>1. KernelTypeOK'
    BY <1>1, <1>2, <1>3, <1>4 DEF KernelTypeOK
  <2>2. \A c \in Block : BlockInv(c)'
    BY <1>1, <1>2, SameBlock
  <2>3. Finished'
    BY <1>1, <1>4 DEF Finished
  <2> QED
    BY <1>1, <1>2, <1>3, <1>4, <1>6, <2>1, <2>2, <2>3 DEF IInv, KernelInv
<1>14. NoGarbage'
  <2>1. ASSUME WritesAll PROVE arrayOut[entry][Garbage] = 0
    <3>1. CASE entry \in Block
      BY <1>1, <1>2, <3>1, WrittenIs
    <3>2. CASE entry \notin Block
      <4>1. ~Cuts
        BY <1>6, <3>2
      <4>2. piece > 0
        <5> SUFFICES ASSUME piece = 0 PROVE FALSE
          BY <1>2
        <5>1. Blocks(0) # MaxBlocks
          BY <1>6, <3>2
        <5> QED
          BY <2>1, <4>1, <5>1, <1>2, FirstLaunchWrites
      <4> QED
        BY <1>6, <2>1, <4>1, <4>2 DEF IInv, NoGarbage
    <3> QED
      BY <3>1, <3>2
  <2>2. ASSUME WritesAll PROVE outVal'[Garbage] = 0
    BY <1>8, <2>1, <2>2, GarbageIsNoElement DEF IInv, NoGarbage
  <2> QED
    BY <1>1, <1>3, <1>5, <2>2 DEF IInv, NoGarbage, Garbage
<1>15. SumInv'
  <2> SUFFICES ASSUME job.op = "Sum", AllHalve(piece + 1), NEW e \in Countable
               PROVE  outVal'[e] = Times(e, piece) + Collected(e)'
    BY <1>1, <1>3, <1>5 DEF SumInv
  <2>1. Halves(Threads(piece))
    BY <1>2 DEF AllHalve
  <2>2. entry \in Block
    BY <1>6 DEF Cuts
  <2>3. outVal[e] = Times(e, piece) + Collected(e)
    BY <1>1 DEF IInv, SumInv
  <2>4. Times(e, piece) \in Nat
    BY <1>2, TimesNext
  <2> QED
    BY <1>8, <1>9, <1>11, <2>1, <2>2, <2>3, <2>4
<1>16. RangeInv'
  <2> SUFFICES ASSUME job.op = "MinMax", Halves(Threads(piece)), NEW e \in Countable
               PROVE  outVal'[e] = Collected(e)'
    BY <1>1, <1>3, <1>5 DEF RangeInv
  <2>1. entry \in Block
    BY <1>6 DEF Cuts
  <2>2. outVal[e] = Collected(e)
    BY <1>1 DEF IInv, RangeInv
  <2> QED
    BY <1>8, <1>9, <1>11, <2>1, <2>2
<1>17. ArrayInv'
  <2> SUFFICES ASSUME ~Cuts, Halves(job.maxThreads)
               PROVE  /\ \A i \in 0 .. piece - 1 : Blocks(i) > 0 => VoxelsOf(i) \subseteq Seen'
                      /\ \A b \in 0 .. entry : b \in Block => Part(b) \subseteq Seen'
    <3>1. (entry + 1) - 1 = entry
      BY <1>2
    <3> QED
      BY <1>1, <1>3, <1>4, <1>5, <3>1 DEF ArrayInv
  <2>1. Seen \subseteq Seen'
    BY <1>3, <1>8, <1>9 DEF Seen
  <2>2. ASSUME entry \in Block PROVE Part(entry) \subseteq Seen'
    <3>1. Threads(piece) = job.maxThreads
      BY DEF Threads
    <3>2. Part(entry) \subseteq Countable
      BY <1>2, <2>2, PartsApart DEF Countable
    <3>3. \A e \in Part(entry) : arrayOut[entry][e] = 1
      BY <1>11, <2>2, <3>1, <3>2
    <3> QED
      BY <1>3, <1>8, <1>9, <3>2, <3>3 DEF Seen
  <2>3. /\ \A i \in 0 .. piece - 1 : Blocks(i) > 0 => VoxelsOf(i) \subseteq Seen
        /\ \A b \in 0 .. entry - 1 : b \in Block => Part(b) \subseteq Seen
    BY <1>1 DEF IInv, ArrayInv
  <2>4. \A b \in 0 .. entry : b \in 0 .. entry - 1 \/ b = entry
    BY <1>2
  <2> QED
    BY <2>1, <2>2, <2>3, <2>4
<1> QED
  BY <1>12, <1>13, <1>14, <1>15, <1>16, <1>17 DEF IInv

\* A piece is counted when all its entries are.
LEMMA NextPieceHolds ==
  ASSUME IInv, NextPiece
  PROVE  IInv'
<1>1. /\ pc = "kernel" /\ Finished /\ entry \notin Entries
      /\ outVal' = outVal /\ entry' = entry /\ arrayOut' = arrayOut
      /\ job' = job /\ pc' = "send" /\ piece' = piece + 1
  BY DEF NextPiece
<1>2. /\ InPiece /\ KernelTypeOK /\ \A c \in Block : BlockInv(c)
      /\ arrayOut \in [0 .. MaxBlocks - 1 -> Counts] /\ Blocks(piece) <= MaxBlocks
      /\ piece \in Nat /\ entry \in Nat /\ outVal \in Counts /\ piece < Pieces /\ Pieces \in Nat
      /\ Job(job)
  BY <1>1, InKernel, LaunchIs DEF IInv, TypeOK, KernelInv, InPiece
<1>3. /\ Cuts' = Cuts /\ Pieces' = Pieces /\ MaxBlocks' = MaxBlocks
      /\ Element' = Element /\ Countable' = Countable /\ Counts' = Counts
      /\ \A i : Threads(i)' = Threads(i) /\ Blocks(i)' = Blocks(i)
  BY <1>1, SameCall
<1>4. /\ \A i : VoxelsOf(i)' = VoxelsOf(i)
      /\ \A e, n : Times(e, n)' = Times(e, n)
      /\ \A n : AllHalve(n)' = AllHalve(n)
      /\ WritesAll' = WritesAll
  BY <1>1, SameVoxels
<1>5. /\ Block = 0 .. Blocks(piece) - 1 /\ Blocks(piece) \in Nat /\ MaxBlocks \in Nat
      /\ entry >= IF Cuts THEN Blocks(piece) ELSE MaxBlocks
      /\ Cuts => entry <= Blocks(piece) /\ Blocks(piece) > 0
  <2>1. Block = 0 .. Blocks(piece) - 1 /\ Blocks(piece) \in Nat /\ MaxBlocks \in Nat
    BY <1>2, PieceIs
  <2>2. Cuts => entry <= Blocks(piece) /\ Blocks(piece) > 0
    BY <1>1, <1>2, LaunchIs DEF IInv, KernelInv, InPiece
  <2> QED
    BY <1>1, <1>2, <2>1, <2>2 DEF Entries
<1>6. ASSUME Cuts, NEW e
      PROVE  Collected(e) = IF e \in VoxelsOf(piece) THEN 1 ELSE 0
  <2>1. entry = Blocks(piece) /\ \A b \in 0 .. entry - 1 : b \in Block
    BY <1>2, <1>5, <1>6
  <2> QED
    BY <1>2, <1>5, <1>6, <2>1, CollectedAll
<1>7. (piece + 1) - 1 = piece
  BY <1>2
<1>8. TypeOK'
  <2>1. piece + 1 \in 0 .. Pieces /\ piece + 1 # 0
    BY <1>2
  <2> QED
    BY <1>1, <1>2, <1>3, <2>1 DEF IInv, TypeOK
<1>9. KernelInv'
  BY <1>1 DEF KernelInv
<1>10. NoGarbage'
  <2>1. ASSUME WritesAll, ~Cuts, NEW b \in 0 .. MaxBlocks - 1 PROVE arrayOut[b][Garbage] = 0
    <3>1. CASE piece > 0
      BY <2>1, <3>1 DEF IInv, NoGarbage
    <3>2. CASE piece = 0
      <4>1. Blocks(piece) = MaxBlocks
        BY <1>2, <2>1, <3>2, FirstLaunchWrites
      <4>2. b \in Block
        BY <1>5, <4>1
      <4> QED
        BY <1>1, <1>2, <4>2, WrittenIs
    <3> QED
      BY <1>2, <3>1, <3>2
  <2> QED
    BY <1>1, <1>3, <1>4, <2>1 DEF IInv, NoGarbage, Garbage
<1>11. SumInv'
  <2> SUFFICES ASSUME job.op = "Sum", AllHalve(piece + 1), NEW e \in Countable
               PROVE  outVal[e] = Times(e, piece + 1)
    BY <1>1, <1>3, <1>4 DEF SumInv
  <2>1. outVal[e] = Times(e, piece) + Collected(e)
    BY <1>1 DEF IInv, SumInv
  <2>2. Times(e, piece + 1) = Times(e, piece) + (IF e \in VoxelsOf(piece) THEN 1 ELSE 0)
    BY <1>2, TimesNext
  <2> QED
    BY <1>6, <2>1, <2>2 DEF Cuts
<1>12. RangeInv'
  <2> SUFFICES ASSUME job.op = "MinMax", Halves(Threads(piece)), NEW e \in Countable
               PROVE  outVal[e] = IF e \in VoxelsOf(piece) THEN 1 ELSE 0
    BY <1>1, <1>3, <1>4, <1>7 DEF RangeInv
  <2>1. outVal[e] = Collected(e)
    BY <1>1 DEF IInv, RangeInv
  <2> QED
    BY <1>6, <2>1 DEF Cuts
<1>13. ArrayInv'
  <2> SUFFICES ASSUME ~Cuts, Halves(job.maxThreads), NEW i \in 0 .. piece, Blocks(i) > 0
               PROVE  VoxelsOf(i) \subseteq Seen
    <3>1. Seen' = Seen
      BY <1>1, <1>3 DEF Seen
    <3> QED
      BY <1>1, <1>3, <1>4, <1>7, <3>1 DEF ArrayInv
  <2>1. CASE i \in 0 .. piece - 1
    BY <2>1 DEF IInv, ArrayInv
  <2>2. CASE i = piece
    <3>1. \A b \in Block : b \in 0 .. entry - 1
      BY <1>2, <1>5
    <3>2. \A b \in Block : Part(b) \subseteq Seen
      BY <1>1, <3>1 DEF IInv, ArrayInv
    <3>3. \A e \in VoxelsOf(piece) : \E b \in Block : e \in Part(b)
      BY <1>2, <2>2, PartsApart
    <3> QED
      BY <2>2, <3>2, <3>3
  <2> QED
    BY <1>2, <2>1, <2>2
<1> QED
  BY <1>8, <1>9, <1>10, <1>11, <1>12, <1>13 DEF IInv

\* What the rest of a call leaves as it is.
LEMMA SameCounts ==
  ASSUME IInv, job' = job, piece' = piece, arrayOut' = arrayOut, entry' = entry, outVal' = outVal
  PROVE  /\ Cuts' = Cuts /\ Pieces' = Pieces /\ MaxBlocks' = MaxBlocks
         /\ Element' = Element /\ Counts' = Counts /\ \A E : Once(E)' = Once(E)
         /\ \A i : Threads(i)' = Threads(i) /\ Blocks(i)' = Blocks(i)
         /\ NoGarbage'
         /\ pc' # "kernel" => KernelInv' /\ ArrayInv'
         /\ Nothing' = Nothing /\ Countable' = Countable
<1>1. /\ Cuts' = Cuts /\ Pieces' = Pieces /\ MaxBlocks' = MaxBlocks
      /\ Element' = Element /\ Countable' = Countable /\ Counts' = Counts /\ \A E : Once(E)' = Once(E)
      /\ \A i : Threads(i)' = Threads(i) /\ Blocks(i)' = Blocks(i)
      /\ Nothing' = Nothing
  BY SameCall
<1>2. /\ \A i : VoxelsOf(i)' = VoxelsOf(i)
      /\ WritesAll' = WritesAll
  BY SameVoxels
<1>3. NoGarbage'
  BY <1>1, <1>2 DEF IInv, NoGarbage, Garbage
<1>4. Seen' = Seen
  BY <1>1 DEF Seen
<1>5. pc' # "kernel" => KernelInv' /\ ArrayInv'
  BY <1>1, <1>2, <1>4 DEF IInv, KernelInv, ArrayInv
<1> QED
  BY <1>1, <1>3, <1>5

\* The ends of a call, and the choice of the device, keep it.
LEMMA CallHolds ==
  ASSUME IInv, UseDevice \/ Overrun \/ Return
  PROVE  IInv'
<1>1. /\ job' = job /\ piece' = piece /\ arrayOut' = arrayOut /\ entry' = entry /\ outVal' = outVal
      /\ pc' \in {"send", "overrun", "returned"} /\ pc \in {"start", "send"}
  BY DEF UseDevice, Overrun, Return
<1>2. /\ Cuts' = Cuts /\ Pieces' = Pieces /\ MaxBlocks' = MaxBlocks
      /\ Element' = Element /\ Counts' = Counts /\ \A E : Once(E)' = Once(E)
      /\ \A i : Threads(i)' = Threads(i) /\ Blocks(i)' = Blocks(i)
      /\ NoGarbage'
      /\ pc' # "kernel" => KernelInv' /\ ArrayInv'
      /\ Nothing' = Nothing /\ Countable' = Countable
  BY <1>1, SameCounts
<1>3. /\ \A i : VoxelsOf(i)' = VoxelsOf(i)
      /\ \A e, n : Times(e, n)' = Times(e, n)
      /\ \A n : AllHalve(n)' = AllHalve(n)
  BY <1>1, SameVoxels
<1>4. /\ piece \in 0 .. Pieces /\ Pieces \in Nat \ {0}
      /\ pc = "start" => piece = 0 /\ outVal = Nothing
      /\ pc = "send" /\ piece = 0 => outVal = Nothing
  BY ReductionsAssumption, LaunchIs DEF IInv, TypeOK
<1>5. CASE UseDevice
  <2>1. pc = "start" /\ pc' = "send"
    BY <1>5 DEF UseDevice
  <2>2. TypeOK'
    BY <1>1, <1>2, <1>4, <2>1 DEF IInv, TypeOK
  <2>3. \A e \in Countable : outVal[e] = Times(e, 0)
    <3>1. \A e : Times(e, 0) = 0
      BY TimesNext
    <3> QED
      BY <1>4, <2>1, <3>1 DEF Nothing
  <2>4. SumInv'
    BY <1>1, <1>2, <1>3, <1>4, <2>1, <2>3 DEF SumInv
  <2>5. RangeInv'
    BY <1>1, <1>4, <2>1 DEF RangeInv
  <2> QED
    BY <1>2, <2>1, <2>2, <2>4, <2>5 DEF IInv
<1>6. CASE Overrun
  <2>1. pc' = "overrun" /\ piece < Pieces /\ Blocks(piece) > MaxBlocks
    BY <1>6 DEF Overrun
  <2>2. TypeOK'
    BY <1>1, <1>2, <1>4, <2>1 DEF IInv, TypeOK
  <2>3. SumInv' /\ RangeInv'
    BY <2>1 DEF SumInv, RangeInv
  <2> QED
    BY <1>2, <2>1, <2>2, <2>3 DEF IInv
<1>7. CASE Return
  <2>1. pc' = "returned" /\ pc = "send" /\ piece = Pieces
    BY <1>7 DEF Return
  <2>2. TypeOK'
    BY <1>1, <1>2, <1>4, <2>1 DEF IInv, TypeOK
  <2>3. SumInv'
    BY <1>1, <1>2, <1>3, <2>1 DEF IInv, SumInv
  <2>4. RangeInv'
    BY <1>1, <1>2, <1>3, <1>4, <2>1 DEF IInv, RangeInv
  <2> QED
    BY <1>2, <2>1, <2>2, <2>3, <2>4 DEF IInv
<1> QED
  BY <1>5, <1>6, <1>7

\* A reduction on the host counts the whole image.
LEMMA HostHolds ==
  ASSUME IInv, ReduceOnHost
  PROVE  IInv'
<1>1. /\ job' = job /\ piece' = piece /\ arrayOut' = arrayOut /\ entry' = entry
      /\ pc = "start" /\ pc' = "returned" /\ Cuts /\ outVal' = Once(Element)
  BY DEF ReduceOnHost
<1>2. /\ Cuts' = Cuts /\ Pieces' = Pieces /\ MaxBlocks' = MaxBlocks
      /\ Element' = Element /\ Counts' = Counts /\ \A E : Once(E)' = Once(E)
  BY <1>1, SameCall
<1>3. piece = 0 /\ Pieces \in Nat \ {0}
  BY <1>1, ReductionsAssumption, LaunchIs DEF IInv, TypeOK
<1>4. Once(Element) \in Counts /\ Once(Element)[Garbage] = 0
  BY GarbageIsNoElement DEF Once, Counts
<1>5. TypeOK'
  BY <1>1, <1>2, <1>3, <1>4 DEF IInv, TypeOK
<1>6. KernelInv'
  BY <1>1 DEF KernelInv
<1>7. NoGarbage'
  BY <1>1, <1>2, <1>4 DEF NoGarbage, Garbage
<1>8. SumInv' /\ RangeInv'
  BY <1>1, <1>2, <1>3 DEF SumInv, RangeInv
<1>9. ArrayInv'
  BY <1>1, <1>2 DEF ArrayInv
<1> QED
  BY <1>5, <1>6, <1>7, <1>8, <1>9 DEF IInv

\* So does a stuttering step.
LEMMA StutterHolds ==
  ASSUME IInv, UNCHANGED vars
  PROVE  IInv'
<1>1. /\ job' = job /\ piece' = piece /\ arrayOut' = arrayOut /\ entry' = entry /\ outVal' = outVal
      /\ pc' = pc /\ phase' = phase /\ localStride' = localStride /\ arrived' = arrived
      /\ shared' = shared
  BY DEF vars
<1>2. /\ Cuts' = Cuts /\ Pieces' = Pieces /\ MaxBlocks' = MaxBlocks
      /\ Element' = Element /\ Counts' = Counts /\ \A E : Once(E)' = Once(E)
      /\ \A i : Threads(i)' = Threads(i) /\ Blocks(i)' = Blocks(i)
      /\ NoGarbage'
      /\ Nothing' = Nothing /\ Countable' = Countable
  BY <1>1, SameCounts
<1>3. /\ \A i : VoxelsOf(i)' = VoxelsOf(i)
      /\ \A e, n : Times(e, n)' = Times(e, n)
      /\ \A n : AllHalve(n)' = AllHalve(n)
  BY <1>1, SameVoxels
<1>4. /\ Block' = Block /\ Thread' = Thread /\ \A b : Part(b)' = Part(b)
  BY <1>1, SamePiece
<1>5. Seen' = Seen /\ \A e : Collected(e)' = Collected(e)
  BY <1>1, <1>2, <1>4 DEF Seen, Collected
<1>6. TypeOK'
  BY <1>1, <1>2 DEF IInv, TypeOK
<1>7. KernelInv'
  <2>1. KernelTypeOK' = KernelTypeOK
    BY <1>1, <1>2, <1>4 DEF KernelTypeOK
  <2>2. Finished' = Finished
    BY <1>1, <1>4 DEF Finished
  <2>3. \A c \in Block : BlockInv(c) => BlockInv(c)'
    BY <1>1, SameBlock
  <2> QED
    BY <1>1, <1>2, <1>4, <2>1, <2>2, <2>3 DEF IInv, KernelInv
<1>8. SumInv'
  BY <1>1, <1>2, <1>3, <1>5 DEF IInv, SumInv
<1>9. RangeInv'
  BY <1>1, <1>2, <1>3, <1>5 DEF IInv, RangeInv
<1>10. ArrayInv'
  BY <1>1, <1>2, <1>3, <1>4, <1>5 DEF IInv, ArrayInv
<1> QED
  BY <1>2, <1>6, <1>7, <1>8, <1>9, <1>10 DEF IInv

\* The inductive invariant: what each block holds while it loads, reduces and has
\* written, and what the host has of the pieces and blocks it has gone through.
THEOREM ReductionsInvariant == Spec => []IInv
<1>1. Init => IInv
  BY InitHolds
<1>2. IInv /\ [Next]_vars => IInv'
  <2> SUFFICES ASSUME IInv, [Next]_vars PROVE IInv'
    OBVIOUS
  <2>1. CASE ReduceOnHost
    BY <2>1, HostHolds
  <2>2. CASE UseDevice \/ Overrun \/ Return
    BY <2>2, CallHolds
  <2>3. CASE Launch
    BY <2>3, LaunchHolds
  <2>4. CASE Collect
    BY <2>4, CollectHolds
  <2>5. CASE NextPiece
    BY <2>5, NextPieceHolds
  <2>6. CASE BlockStep
    <3>1. pc = "kernel"
      BY <2>6 DEF BlockStep, Load, Reduce, Syncthreads, WriteOut
    <3> QED
      BY <2>6, <3>1, BlockStepHolds
  <2>7. CASE Over \/ UNCHANGED vars
    BY <2>7, StutterHolds DEF Over
  <2> QED
    BY <2>1, <2>2, <2>3, <2>4, <2>5, <2>6, <2>7 DEF Next, BlockStep
<1> QED
  BY <1>1, <1>2, PTL DEF Spec

-----------------------------------------------------------------------------
(***************************************************************************)
(* What follows from it                                                    *)
(***************************************************************************)
\* A piece of an array has blocks if it has a block's worth of elements.
LEMMA PiecesHaveBlocks ==
  ASSUME Job(job), ~Cuts, job.op = "GetMinMax" => PiecesFillABlock, NEW i \in 0 .. Pieces - 1
  PROVE  Blocks(i) > 0
<1> DEFINE D == NumValsPerChunk
           N == NumValues
           w == 2 * job.maxThreads
           s == i * D
<1>1. MaxBlocks > 0
  BY LaunchIs
<1>2. CASE job.op # "GetMinMax"
  BY <1>1, <1>2 DEF Blocks
<1>3. CASE job.op = "GetMinMax"
  <2>1. /\ w \in Nat \ {0} /\ D \in Nat \ {0} /\ N \in Nat \ {0} /\ i \in Nat
        /\ s \in Nat /\ Size(i) \in Nat \ {0} /\ s + Size(i) <= N
    BY ArrayIs DEF Job
  <2>2. D >= w /\ (N % D = 0 \/ N % D >= w)
    BY <1>3 DEF PiecesFillABlock
  <2>3. Size(i) = CurNumVals(i) /\ CurNumVals(i) = Least(D, N - s)
    BY DEF Size, CurNumVals
  <2>4. s = D * i
    BY <2>1
  <2>5. Blocks(i) = CurNumVals(i) \div w
    BY <1>3 DEF Blocks
  <2> HIDE DEF D, N, w, s
  <2>6. CurNumVals(i) >= w
    <3>1. CASE D <= N - s
      BY <2>1, <2>2, <2>3, <3>1
    <3>2. CASE D > N - s
      <4>1. N = D * i + (N - s) /\ N - s \in 0 .. D - 1
        BY <2>1, <2>3, <2>4, <3>2
      <4>2. (D * i + (N - s)) % D = N - s
        BY <2>1, <4>1, DivisionIs
      <4>3. N % D = N - s
        BY <4>1, <4>2
      <4> QED
        BY <2>1, <2>2, <2>3, <3>2, <4>3
    <3> QED
      BY <2>1, <3>1, <3>2
  <2>7. CurNumVals(i) \div w > 0
    <3> DEFINE c == CurNumVals(i)
               q == c \div w
               r == c % w
    <3>1. c \in Nat /\ c >= w
      BY <2>1, <2>3, <2>6
    <3> HIDE DEF c
    <3>2. q \in Nat /\ r \in 0 .. w - 1 /\ c = w * q + r
      BY <2>1, <3>1, QuotientAndRest, Zenon
    <3> HIDE DEF q, r
    <3>3. q # 0
      BY <2>1, <3>1, <3>2
    <3> QED
      BY <3>2, <3>3 DEF q, c
  <2> QED
    BY <2>5, <2>7
<1> QED
  BY <1>2, <1>3

\* Every value of an array is in one of its pieces.
LEMMA PiecesCover ==
  ASSUME Job(job), ~Cuts
  PROVE  \A e \in Element : \E i \in 0 .. Pieces - 1 : e \in VoxelsOf(i)
<1> DEFINE L == job.length
           D == NumValsPerChunk
           N == NumValues
<1>1. /\ L \in Nat \ {0} /\ job.channels \in Nat \ {0} /\ D \in Nat \ {0} /\ N \in Nat \ {0}
      /\ N = L * job.channels /\ Pieces = CeilDiv(N, D)
  BY ArrayIs DEF Job, NumValues, Pieces
<1> SUFFICES ASSUME NEW c \in 0 .. job.channels - 1, NEW x \in 0 .. L - 1
             PROVE  \E i \in 0 .. Pieces - 1 : <<c, x>> \in VoxelsOf(i)
  BY DEF Element
<1> DEFINE a == L * c + x
           i == a \div D
           p == a % D
<1>2. a \in Nat /\ a < N
  <2>1. L * (c + 1) <= L * job.channels /\ c + 1 \in Nat /\ c \in Nat
    BY <1>1, TimesMonotone
  <2>2. L * (c + 1) = L * c + L /\ L * c \in Nat
    BY <1>1, <2>1
  <2> QED
    BY <1>1, <2>1, <2>2
<1>3. a \div L = c /\ a % L = x
  <2>1. c \in Nat
    BY <1>1
  <2> QED
    BY <1>1, <2>1, DivisionIs
<1> HIDE DEF L, D, N, a
<1>4. i \in Nat /\ p \in 0 .. D - 1 /\ a = D * i + p /\ D * i \in Nat
  BY <1>1, <1>2, QuotientAndRest, Zenon
<1> HIDE DEF i, p
<1>5. i \in 0 .. Pieces - 1
  <2> DEFINE m == Pieces
  <2>1. m \in Nat \ {0} /\ N <= D * m
    BY <1>1, CeilDivBounds
  <2> HIDE DEF m
  <2> SUFFICES ASSUME m <= i PROVE FALSE
    BY <1>4, <2>1 DEF m
  <2>2. D * m <= D * i
    BY <1>1, <1>4, <2>1, TimesMonotone
  <2> QED
    BY <1>1, <1>2, <1>4, <2>1, <2>2
<1>6. Size(i) = Least(D, N - i * D) /\ Voxel(i, p) = <<(i * D + p) \div L, (i * D + p) % L>>
  BY DEF Size, CurNumVals, Voxel, D, N, L
<1>7. i * D = D * i
  BY <1>1, <1>4
<1>8. p \in 0 .. Size(i) - 1
  BY <1>1, <1>2, <1>4, <1>6, <1>7
<1>9. Voxel(i, p) = <<c, x>>
  BY <1>3, <1>4, <1>6, <1>7
<1> QED
  BY <1>5, <1>8, <1>9 DEF VoxelsOf

\* The elements a block has loaded are those of the threads that have, or its part.
LEMMA LoadedIs ==
  ASSUME InPiece, KernelTypeOK, NEW b \in Block, NEW e
  PROVE  e \in Loaded(b) <=>
           IF phase[b] = "load" THEN \E t \in arrived[b] : e \in Share(b, t) ELSE e \in Part(b)
<1>1. Loaded(b) = {Voxel(piece, j) : j \in {k \in 0 .. Size(piece) - 1 :
                     BlockOf(k) = b /\ (phase[b] = "load" => ThreadOf(k) \in arrived[b])}}
  BY DEF Loaded, BlockOf, ThreadOf
<1>2. Part(b) = {Voxel(piece, j) : j \in {k \in 0 .. Size(piece) - 1 : BlockOf(k) = b}}
  BY DEF Part, BlockOf
<1>3. \A t \in Thread :
        Share(b, t) = {Voxel(piece, j) : j \in {k \in 0 .. Size(piece) - 1 :
                         BlockOf(k) = b /\ ThreadOf(k) = t}}
  BY ShareIs
<1>4. arrived[b] \subseteq Thread
  BY DEF KernelTypeOK
<1>5. CASE phase[b] = "load"
  <2>1. ASSUME e \in Loaded(b) PROVE \E t \in arrived[b] : e \in Share(b, t)
    <3>1. PICK j \in 0 .. Size(piece) - 1 :
            e = Voxel(piece, j) /\ BlockOf(j) = b /\ ThreadOf(j) \in arrived[b]
      BY <1>1, <1>5, <2>1
    <3> QED
      BY <1>3, <1>4, <3>1
  <2>2. ASSUME NEW t \in arrived[b], e \in Share(b, t) PROVE e \in Loaded(b)
    <3>1. PICK j \in 0 .. Size(piece) - 1 : e = Voxel(piece, j) /\ BlockOf(j) = b /\ ThreadOf(j) = t
      BY <1>3, <1>4, <2>2
    <3> QED
      BY <1>1, <3>1
  <2> QED
    BY <1>5, <2>1, <2>2
<1>6. CASE phase[b] # "load"
  BY <1>1, <1>2, <1>6
<1> QED
  BY <1>5, <1>6

\* BlockKeepsItsElements: in any order of the threads of any block whose size halves
\* evenly, no element it has loaded is lost or added twice.
THEOREM BlockKeepsItsElementsHolds == Spec => []BlockKeepsItsElements
<1>1. IInv => BlockKeepsItsElements
  <2> SUFFICES ASSUME IInv, pc = "kernel", Halves(Threads(piece)), NEW b \in Block, NEW e \in Countable
               PROVE  IF e \in Loaded(b)
                      THEN \E t \in Live(b) : /\ shared[b][t][e] = 1
                                              /\ \A u \in Live(b) \ {t} : shared[b][u][e] = 0
                      ELSE \A t \in Live(b) : shared[b][t][e] = 0
    BY DEF BlockKeepsItsElements
  <2>1. InPiece /\ KernelTypeOK /\ BlockInv(b)
    BY InKernel
  <2>2. CASE phase[b] = "load"
    <3>1. Live(b) = Thread
      BY <2>2 DEF Live
    <3>2. Loads(b)
      BY <2>1, <2>2 DEF BlockInv
    <3>3. e \in Loaded(b) <=> \E t \in arrived[b] : e \in Share(b, t)
      BY <2>1, <2>2, LoadedIs
    <3> QED
      BY <2>1, <3>1, <3>2, <3>3, LoadedOnce
  <2>3. CASE phase[b] # "load"
    <3>1. Keeps(b)
      BY <2>1, <2>3 DEF BlockInv, Reduces
    <3>2. e \in Loaded(b) <=> e \in Part(b)
      BY <2>1, <2>3, LoadedIs
    <3> QED
      BY <3>1, <3>2 DEF Keeps
  <2> QED
    BY <2>2, <2>3
<1> QED
  BY <1>1, ReductionsInvariant, PTL

\* EntriesEnough: the array made for the blocks of the first launch is overrun by a later
\* one only where a channel is cut in three chunks or more.
THEOREM EntriesEnoughHolds == Spec => []EntriesEnough
<1>1. IInv => EntriesEnough
  <2> SUFFICES ASSUME IInv, pc = "overrun" PROVE Cuts /\ PerChannel > 2
    BY DEF EntriesEnough
  <2>1. /\ Job(job) /\ piece \in 0 .. Pieces /\ piece < Pieces /\ Blocks(piece) > MaxBlocks
    BY ReductionsAssumption DEF IInv, TypeOK
  <2>2. Pieces \in Nat \ {0} /\ MaxBlocks \in Nat
    BY <2>1, LaunchIs
  <2>3. piece \in 0 .. Pieces - 1 /\ Blocks(piece) \in Nat
    BY <2>1, <2>2, LaunchIs
  <2>4. ASSUME Cuts PROVE PerChannel \in Int
    <3>1. Delta \in Nat \ {0} /\ PerChannel = CeilDiv(job.length, Delta) /\ job.length \in Nat \ {0}
      BY <2>1, <2>4, CutIs DEF Job
    <3> QED
      BY <3>1, CeilDivBounds
  <2>5. ~ (~Cuts \/ PerChannel <= 2)
    BY <2>1, <2>2, <2>3, EntriesSuffice
  <2> QED
    BY <2>4, <2>5
<1> QED
  BY <1>1, ReductionsInvariant, PTL

\* NoGarbageSeen: a range is of elements only when each entry the host looks at has been
\* written by a block.
THEOREM NoGarbageSeenHolds == Spec => []NoGarbageSeen
<1>1. IInv => NoGarbageSeen
  <2> SUFFICES ASSUME IInv, WritesAll PROVE Seen \subseteq Element
    BY DEF NoGarbageSeen, WritesAll
  <2>1. outVal[Garbage] = 0
    BY DEF IInv, NoGarbage
  <2> QED
    BY <2>1 DEF Seen, Countable
<1> QED
  BY <1>1, ReductionsInvariant, PTL

-----------------------------------------------------------------------------
(***************************************************************************)
(* When a sum is exact                                                     *)
(*                                                                         *)
(* A stride that is odd and not one leaves out the slot below it.  Of the  *)
(* threads whose elements are left out, the first has all those before it  *)
(* and the one after it in the sum.                                        *)
(***************************************************************************)
\* The elements of a thread are in the sum that is being made, or in none of its slots.
Has(b, t) == \A e \in Share(b, t) : \E u \in Live(b) : shared[b][u][e] > 0
Lacks(b, t) == \A e \in Share(b, t) : \A u \in Live(b) : shared[b][u][e] = 0

Loses(b) ==
  \E m \in Thread : /\ Lacks(b, m)
                    /\ \A t \in Thread : t < m \/ t = m + 1 => Has(b, t)

\* The strides so far have divided the block evenly.
Divides(s) ==
  IF s = 0 THEN Halves(Threads(piece))
  ELSE \E r \in 1 .. Threads(piece) : s * r = Threads(piece) /\ Halves(r)

Sums(b) ==
  /\ \A t \in Live(b) : \A e \in Share(b, t) : shared[b][t][e] > 0
  /\ 0 \in arrived[b] => \A e \in Share(b, localStride[b]) : shared[b][0][e] > 0
  /\ 1 \in Thread => Has(b, 1)
  /\ \A e \in Countable : \A t, u \in Live(b) : shared[b][t][e] > 0 /\ shared[b][u][e] > 0 => t = u
  /\ \A e \in Countable \ Part(b) : \A t \in Live(b) : shared[b][t][e] = 0
  /\ Divides(localStride[b]) \/ Loses(b)

\* The host has counted an element of this piece.
Got(e) == \E b \in 0 .. entry - 1 : arrayOut[b][e] > 0

\* The second piece begins where the first ends, and counts its own first two voxels.
Second == {Voxel(1, p) : p \in {q \in 0 .. 1 : q < Size(1)}}
Again(e) ==
  IF e \in Second /\ (piece > 1 \/ (piece = 1 /\ pc = "kernel" /\ Got(e))) THEN 1 ELSE 0

\* The first piece has counted its voxel number p.
Counted(p) == outVal[Voxel(0, p)] > Again(Voxel(0, p))

FirstPiece ==
  \/ Halves(Threads(0)) /\ \A p \in 0 .. Size(0) - 1 : Counted(p)
  \/ /\ ~Halves(Threads(0))
     /\ \E m \in 0 .. Size(0) - 1 :
          /\ \A p \in 0 .. Size(0) - 1 : p < m \/ p = m + 1 => Counted(p)
          /\ (\A i \in 1 .. Pieces - 1 : Voxel(0, m) \notin VoxelsOf(i)) => outVal[Voxel(0, m)] = 0

LInv ==
  /\ pc = "kernel" => \A b \in Block : phase[b] # "load" => Sums(b)
  /\ Cuts /\ pc \in {"send", "kernel"} => NumValues > job.maxThreads
  /\ Cuts /\ pc = "returned" =>
       \/ piece = Pieces /\ NumValues > job.maxThreads
       \/ piece = 0 /\ NumValues <= job.maxThreads /\ outVal = Once(Element)
  /\ job.op = "Sum" =>
       /\ pc = "kernel" /\ piece = 0 => \A e \in Countable : outVal[e] > 0 <=> Got(e)
       /\ pc \in {"send", "kernel", "returned"} /\ piece > 0 => FirstPiece

\* Sizes that halve evenly: one, two, and twice any of them.
LEMMA HalvesTwice ==
  /\ Halves(1) /\ Halves(2)
  /\ \A r \in Nat \ {0} : Halves(r) => Halves(2 * r)
<1>1. Halves(1) /\ Halves(2)
  BY DEF Halves
<1>2. ASSUME NEW r \in Nat \ {0}, Halves(r)
      PROVE  Halves(2 * r)
  <2> SUFFICES ASSUME NEW d \in 1 .. 2 * r, NEW q \in 1 .. 2 * r, d * q = 2 * r, d % 2 # 0
               PROVE  d = 1
    BY DEF Halves
  <2>1. PICK c \in Nat : d = 2 * c + 1
    <3>1. d % 2 = 1
      BY <1>2
    <3> DEFINE c == d \div 2
    <3>2. c \in Nat /\ d = 2 * c + 1
      BY <3>1
    <3> QED
      BY <3>2
  <2>2. PICK h \in Int : q = 2 * h
    <3> DEFINE h == r - c * q
    <3>1. h \in Int /\ (2 * c + 1) * q = 2 * (c * q) + q
      BY <1>2, <2>1
    <3>2. q = 2 * h
      BY <1>2, <2>1, <3>1
    <3> QED
      BY <3>1, <3>2
  <2>3. d * h = r
    <3>1. d * q = 2 * (d * h)
      BY <2>2
    <3> QED
      BY <1>2, <2>1, <2>2, <3>1
  <2>4. h >= 1 /\ d >= 1 /\ d \in Nat /\ h \in Nat
    BY <1>2, <2>2
  <2>5. d \in 1 .. r /\ h \in 1 .. r
    <3>1. d * 1 <= d * h /\ h * 1 <= h * d
      BY <2>4, TimesMonotone
    <3>2. h * d = d * h
      BY <2>4
    <3> QED
      BY <1>2, <2>3, <2>4, <3>1, <3>2
  <2> QED
    BY <1>2, <2>3, <2>5 DEF Halves
<1> QED
  BY <1>1, <1>2

\* What a live slot holds of its own thread is in the sum.
LEMMA HasOwn ==
  ASSUME InPiece, NEW b \in Block, Sums(b), NEW t \in Live(b)
  PROVE  Has(b, t)
BY DEF Sums, Has

\* A block's state decides its sums.
LEMMA SameSums ==
  ASSUME job' = job, piece' = piece, NEW b \in Block, Sums(b),
         phase'[b] = phase[b], localStride'[b] = localStride[b], arrived'[b] = arrived[b],
         shared'[b] = shared[b]
  PROVE  Sums(b)'
<1>1. /\ Thread' = Thread /\ Threads(piece)' = Threads(piece)
      /\ Part(b)' = Part(b) /\ \A t : Share(b, t)' = Share(b, t)
  BY SamePiece
<1>2. Countable' = Countable
  BY SameCall
<1>3. Live(b)' = Live(b)
  BY <1>1 DEF Live
<1>4. \A t : Has(b, t)' = Has(b, t) /\ Lacks(b, t)' = Lacks(b, t)
  BY <1>1, <1>3 DEF Has, Lacks
<1>5. Loses(b)' = Loses(b)
  BY <1>1, <1>4 DEF Loses
<1>6. Divides(localStride[b])' = Divides(localStride[b])
  BY <1>1 DEF Divides
<1> QED
  BY <1>1, <1>2, <1>3, <1>4, <1>5, <1>6 DEF Sums

\* The first stride.
LEMMA FirstSums ==
  ASSUME InPiece, KernelTypeOK, \A c \in Block : BlockInv(c),
         NEW b \in Block, Syncthreads(b), phase[b] = "load"
  PROVE  Sums(b)'
<1> DEFINE s == localStride[b]
           T == Threads(piece)
<1>1. /\ job' = job /\ piece' = piece /\ shared' = shared /\ localStride' = localStride
      /\ arrived'[b] = {} /\ arrived[b] = Thread /\ phase'[b] = "reduce"
  BY DEF Syncthreads, KernelTypeOK
<1>2. /\ Thread' = Thread /\ T' = T /\ Part(b)' = Part(b) /\ Countable' = Countable
      /\ \A t : Share(b, t)' = Share(b, t)
  BY <1>1, SamePiece, SameCall
<1>3. Loads(b) /\ T \in Nat \ {0} /\ Thread = 0 .. T - 1 /\ s = T \div 2
  BY PieceIs DEF BlockInv, Loads
<1>4. s \in Nat /\ (T = 2 * s \/ T = 2 * s + 1)
  BY <1>3
<1>5. Live(b)' = IF s = 0 THEN {u \in Thread : u = 0} ELSE {u \in Thread : u < 2 * s}
  BY <1>1, <1>2 DEF Live
<1>6. Live(b)' \subseteq Thread
  BY <1>5
<1>7. \A t \in Thread : \A e \in Countable : shared[b][t][e] = IF e \in Share(b, t) THEN 1 ELSE 0
  BY <1>1, <1>3 DEF Loads, Once
<1>8. \A t \in Thread : Share(b, t) \subseteq Countable
  BY SharesApart DEF Countable
<1>9. ASSUME NEW t \in Thread, NEW u \in Thread, NEW e, e \in Share(b, t), t # u
      PROVE  shared[b][u][e] = 0
  <2>1. e \in Countable /\ e \notin Share(b, u)
    BY <1>8, <1>9, SharesApart
  <2> QED
    BY <1>7, <2>1
<1>10. \A t \in Thread : \A e \in Share(b, t) : shared[b][t][e] = 1
  BY <1>7, <1>8
<1>11. ASSUME NEW t \in Live(b)' PROVE Has(b, t)'
  <2>1. \A e \in Share(b, t) : shared[b][t][e] > 0
    BY <1>6, <1>10
  <2> QED
    BY <1>1, <1>2, <2>1 DEF Has
<1>12. 1 \in Thread => 1 \in Live(b)'
  BY <1>3, <1>4, <1>5
<1>13. Divides(s)' \/ Loses(b)'
  <2>0. Divides(s)' <=> IF s = 0 THEN Halves(T) ELSE \E r \in 1 .. T : s * r = T /\ Halves(r)
    BY <1>1, <1>2 DEF Divides
  <2>1. CASE T = 1
    <3>1. s = 0 /\ Halves(1)
      BY <1>4, <2>1, HalvesTwice
    <3> QED
      BY <2>0, <2>1, <3>1
  <2>2. CASE T = 2 * s
    <3>1. s # 0 /\ Halves(2) /\ 2 \in 1 .. T /\ s * 2 = T
      BY <1>3, <1>4, <2>2, HalvesTwice
    <3>2. \E r \in 1 .. T : s * r = T /\ Halves(r)
      BY <3>1, Zenon
    <3> QED
      BY <2>0, <3>1, <3>2, Zenon
  <2>3. CASE T # 1 /\ T = 2 * s + 1
    <3> DEFINE m == T - 1
    <3>1. m \in Thread /\ m + 1 \notin Thread /\ Live(b)' = {u \in Thread : u < m}
      <4>1. s # 0 /\ m = 2 * s
        BY <1>3, <1>4, <2>3
      <4>2. Live(b)' = {u \in Thread : u < m}
        BY <1>5, <4>1
      <4> QED
        BY <1>3, <4>2
    <3>2. Lacks(b, m)'
      <4>1. \A e \in Share(b, m) : \A u \in Live(b)' : shared[b][u][e] = 0
        BY <1>3, <1>9, <3>1
      <4> QED
        BY <1>1, <1>2, <4>1 DEF Lacks
    <3>3. \A t \in Thread : t < m \/ t = m + 1 => Has(b, t)'
      BY <1>11, <3>1
    <3> QED
      BY <1>2, <3>1, <3>2, <3>3 DEF Loses
  <2> QED
    BY <1>4, <2>1, <2>2, <2>3
<1>14. \A t \in Live(b)' : \A e \in Share(b, t) : shared[b][t][e] > 0
  BY <1>6, <1>10
<1>15. \A e \in Countable : \A t, u \in Live(b)' : shared[b][t][e] > 0 /\ shared[b][u][e] > 0 => t = u
  <2>1. \A e \in Countable : \A t, u \in Thread : shared[b][t][e] > 0 /\ shared[b][u][e] > 0 => t = u
    BY <1>7, SharesApart
  <2> QED
    BY <1>6, <2>1
<1>16. \A e \in Countable \ Part(b) : \A t \in Live(b)' : shared[b][t][e] = 0
  BY <1>6, <1>7, SharesApart
<1>17. 1 \in Thread => Has(b, 1)'
  BY <1>11, <1>12
<1> QED
  BY <1>1, <1>2, <1>13, <1>14, <1>15, <1>16, <1>17 DEF Sums

\* Adding a slot to another one keeps what is in the sum, and what is not out of it.
LEMMA ReduceSums ==
  ASSUME InPiece, KernelTypeOK, \A c \in Block : BlockInv(c),
         NEW b \in Block, NEW t \in Thread, Reduce(b, t), Sums(b)
  PROVE  Sums(b)'
<1> DEFINE s == localStride[b]
<1>1. job' = job /\ piece' = piece
  BY DEF Reduce
<1>2. /\ Thread' = Thread /\ Threads(piece)' = Threads(piece)
      /\ Part(b)' = Part(b) /\ Countable' = Countable
      /\ \A x : Share(b, x)' = Share(b, x)
  BY <1>1, SamePiece, SameCall
<1>3. /\ s \in Nat /\ t < s /\ t \notin arrived[b] /\ t + s \in Thread /\ t + s # t
      /\ localStride'[b] = s /\ arrived'[b] = arrived[b] \cup {t}
      /\ \A e \in Countable : \A u \in Thread :
           /\ shared[b][u][e] \in Nat
           /\ shared'[b][u][e] = IF u = t THEN shared[b][t][e] + shared[b][t + s][e]
                                          ELSE shared[b][u][e]
      /\ Live(b)' = Live(b) \ {t + s}
      /\ t \in Live(b) /\ t + s \in Live(b) /\ Live(b) \subseteq Thread
  BY ReduceIs
<1>4. \A x \in Thread : Share(b, x) \subseteq Countable
  BY SharesApart DEF Countable
<1>5. /\ \A x \in Live(b) : \A e \in Share(b, x) : shared[b][x][e] > 0
      /\ 0 \in arrived[b] => \A e \in Share(b, s) : shared[b][0][e] > 0
      /\ 1 \in Thread => Has(b, 1)
      /\ \A e \in Countable : \A x, u \in Live(b) : shared[b][x][e] > 0 /\ shared[b][u][e] > 0 => x = u
      /\ \A e \in Countable \ Part(b) : \A x \in Live(b) : shared[b][x][e] = 0
      /\ Divides(s) \/ Loses(b)
  BY DEF Sums
<1>6. \A e \in Countable : \A u \in Thread : shared[b][u][e] > 0 => shared'[b][u][e] > 0
  BY <1>3
<1>7. ASSUME NEW x \in Thread, Has(b, x) PROVE Has(b, x)'
  <2> SUFFICES ASSUME NEW e \in Share(b, x)
               PROVE  \E u \in Live(b)' : shared'[b][u][e] > 0
    BY <1>2 DEF Has
  <2>1. e \in Countable
    BY <1>4
  <2>2. PICK u \in Live(b) : shared[b][u][e] > 0
    BY <1>7 DEF Has
  <2>3. CASE u = t + s
    <3>1. shared'[b][t][e] = shared[b][t][e] + shared[b][t + s][e]
      BY <1>3, <2>1
    <3>2. shared'[b][t][e] > 0
      BY <1>3, <2>1, <2>2, <2>3, <3>1
    <3> QED
      BY <1>3, <3>2
  <2>4. CASE u # t + s
    BY <1>3, <1>6, <2>1, <2>2, <2>4
  <2> QED
    BY <2>3, <2>4
<1>8. ASSUME NEW x \in Thread, Lacks(b, x) PROVE Lacks(b, x)'
  <2> SUFFICES ASSUME NEW e \in Share(b, x), NEW u \in Live(b)'
               PROVE  shared'[b][u][e] = 0
    BY <1>2 DEF Lacks
  <2>1. e \in Countable
    BY <1>4
  <2>2. \A y \in Live(b) : shared[b][y][e] = 0
    BY <1>8 DEF Lacks
  <2> QED
    BY <1>3, <2>1, <2>2
<1>9. \A x \in Live(b)' : \A e \in Share(b, x) : shared'[b][x][e] > 0
  BY <1>3, <1>4, <1>5, <1>6
<1>10. 0 \in arrived'[b] => \A e \in Share(b, s) : shared'[b][0][e] > 0
  <2> SUFFICES ASSUME 0 \in arrived'[b], NEW e \in Share(b, s) PROVE shared'[b][0][e] > 0
    OBVIOUS
  <2>1. 0 \in Thread /\ s \in Thread
    BY <1>3, PieceIs
  <2>2. e \in Countable
    BY <1>4, <2>1
  <2>3. CASE t = 0
    <3>1. shared[b][s][e] > 0 /\ t + s = s
      BY <1>3, <1>5, <2>3
    <3>2. shared'[b][0][e] = shared[b][0][e] + shared[b][s][e]
      BY <1>3, <2>1, <2>2, <2>3, <3>1
    <3> QED
      BY <1>3, <2>1, <2>2, <3>1, <3>2
  <2>4. CASE t # 0
    BY <1>3, <1>5, <1>6, <2>1, <2>2, <2>4
  <2> QED
    BY <2>3, <2>4
<1>11. 1 \in Thread => Has(b, 1)'
  BY <1>5, <1>7
<1>12. \A e \in Countable : \A x, u \in Live(b)' :
         shared'[b][x][e] > 0 /\ shared'[b][u][e] > 0 => x = u
  <2> SUFFICES ASSUME NEW e \in Countable, NEW x \in Live(b)', NEW u \in Live(b)',
                      shared'[b][x][e] > 0, shared'[b][u][e] > 0
               PROVE  x = u
    OBVIOUS
  <2>1. /\ x \in Live(b) /\ u \in Live(b) /\ x # t + s /\ u # t + s
        /\ x \in Thread /\ u \in Thread
    BY <1>3
  <2>2. \A y, z \in Live(b) : shared[b][y][e] > 0 /\ shared[b][z][e] > 0 => y = z
    BY <1>5
  <2>3. x # t => shared[b][x][e] > 0
    BY <1>3, <2>1
  <2>4. u # t => shared[b][u][e] > 0
    BY <1>3, <2>1
  <2>5. x = t \/ u = t => shared[b][t][e] > 0 \/ shared[b][t + s][e] > 0
    BY <1>3, <2>1
  <2> QED
    BY <1>3, <2>1, <2>2, <2>3, <2>4, <2>5
<1>13. \A e \in Countable \ Part(b) : \A x \in Live(b)' : shared'[b][x][e] = 0
  <2> SUFFICES ASSUME NEW e \in Countable \ Part(b), NEW x \in Live(b)'
               PROVE  shared'[b][x][e] = 0
    OBVIOUS
  <2>1. shared[b][t][e] = 0 /\ shared[b][t + s][e] = 0 /\ shared[b][x][e] = 0
    BY <1>3, <1>5
  <2> QED
    BY <1>3, <2>1
<1>14. Loses(b) => Loses(b)'
  <2> SUFFICES ASSUME NEW m \in Thread, Lacks(b, m), \A x \in Thread : x < m \/ x = m + 1 => Has(b, x)
               PROVE  Loses(b)'
    BY DEF Loses
  <2>1. Lacks(b, m)'
    BY <1>8
  <2>2. \A x \in Thread : x < m \/ x = m + 1 => Has(b, x)'
    BY <1>7
  <2> QED
    BY <1>2, <2>1, <2>2 DEF Loses
<1>15. Divides(s) => Divides(s)'
  BY <1>2, <1>3 DEF Divides
<1> QED
  BY <1>2, <1>3, <1>5, <1>9, <1>10, <1>11, <1>12, <1>13, <1>14, <1>15 DEF Sums

\* An odd stride leaves out the slot below it, and with it its thread's elements.
LEMMA SyncSums ==
  ASSUME InPiece, KernelTypeOK, \A c \in Block : BlockInv(c),
         NEW b \in Block, Syncthreads(b), phase[b] # "load", Sums(b)
  PROVE  Sums(b)'
<1>0. PICK s, h : s = localStride[b] /\ h = s \div 2
  OBVIOUS
<1> DEFINE T == Threads(piece)
<1>1. job' = job /\ piece' = piece /\ shared' = shared
  BY DEF Syncthreads
<1>2. /\ Thread' = Thread /\ T' = T /\ Part(b)' = Part(b) /\ Countable' = Countable
      /\ \A x : Share(b, x)' = Share(b, x)
  BY <1>1, SamePiece, SameCall
<1>3. /\ s \in Nat /\ s > 0 /\ localStride'[b] = h /\ 0 \in arrived[b] /\ arrived'[b] = {}
      /\ 2 * s <= T /\ Live(b) = 0 .. s - 1
      /\ Live(b)' = IF h = 0 THEN {0} ELSE 0 .. 2 * h - 1
      /\ T \in Nat \ {0} /\ Thread = 0 .. T - 1
  BY <1>0, SyncIs, PieceIs
<1>4. /\ \A x \in Live(b) : \A e \in Share(b, x) : shared[b][x][e] > 0
      /\ \A e \in Share(b, s) : shared[b][0][e] > 0
      /\ 1 \in Thread => Has(b, 1)
      /\ \A e \in Countable : \A x, u \in Live(b) : shared[b][x][e] > 0 /\ shared[b][u][e] > 0 => x = u
      /\ \A e \in Countable \ Part(b) : \A x \in Live(b) : shared[b][x][e] = 0
      /\ Divides(s) \/ Loses(b)
  BY <1>0, <1>3 DEF Sums
<1>5. h \in Nat /\ (s = 2 * h \/ s = 2 * h + 1) /\ (h = 0 <=> s = 1)
  BY <1>0, <1>3
<1>6. Live(b)' \subseteq Live(b) /\ 0 \in Live(b)' /\ Live(b) \subseteq Thread
  BY <1>3, <1>5
<1>7. ASSUME NEW x \in Live(b)' PROVE Has(b, x)'
  BY <1>1, <1>2, <1>4, <1>6, <1>7 DEF Has
<1>8. ASSUME NEW e \in Share(b, s) PROVE shared[b][0][e] > 0
  BY <1>4
<1>9. Has(b, s)'
  BY <1>1, <1>2, <1>6, <1>8 DEF Has
<1>10. 1 \in Thread => Has(b, 1)'
  <2>1. CASE h = 0
    BY <1>5, <1>9, <2>1
  <2>2. CASE h # 0
    BY <1>3, <1>5, <1>7, <2>2
  <2> QED
    BY <2>1, <2>2
<1>11. CASE s = 1 \/ s = 2 * h
  <2>1. Live(b)' = Live(b)
    <3>1. CASE s = 1
      <4>1. Live(b) = {0} /\ Live(b)' = {0}
        BY <1>3, <1>5, <3>1
      <4> QED
        BY <4>1
    <3>2. CASE s # 1
      BY <1>3, <1>5, <1>11, <3>2
    <3> QED
      BY <3>1, <3>2
  <2>2. \A x : Has(b, x)' = Has(b, x) /\ Lacks(b, x)' = Lacks(b, x)
    BY <1>1, <1>2, <2>1 DEF Has, Lacks
  <2>3. Loses(b) => Loses(b)'
    BY <1>2, <2>2 DEF Loses
  <2>4. ASSUME Divides(s) PROVE Divides(h)'
    <3>1. PICK r \in 1 .. T : s * r = T /\ Halves(r)
      BY <1>3, <2>4 DEF Divides
    <3>2. Divides(h)' <=> IF h = 0 THEN Halves(T) ELSE \E q \in 1 .. T : h * q = T /\ Halves(q)
      BY <1>2, <1>3 DEF Divides
    <3>3. CASE s = 1
      <4>1. Halves(T) /\ h = 0
        BY <1>5, <3>1, <3>3
      <4> QED
        BY <3>2, <4>1
    <3>4. CASE s # 1
      <4>1. h # 0 /\ s = 2 * h /\ h >= 1
        BY <1>5, <1>11, <3>4
      <4>2. h * (2 * r) = T /\ Halves(2 * r) /\ 2 * r \in Nat
        <5>1. (2 * h) * r = h * (2 * r)
          BY <1>5, <3>1
        <5> QED
          BY <3>1, <4>1, <5>1, HalvesTwice
      <4>3. 2 * r \in 1 .. T
        <5>1. (2 * r) * 1 <= (2 * r) * h /\ (2 * r) * h = h * (2 * r)
          BY <1>5, <4>1, <4>2, TimesMonotone
        <5> QED
          BY <1>3, <3>1, <4>2, <5>1
      <4>4. \E q \in 1 .. T : h * q = T /\ Halves(q)
        BY <4>2, <4>3, Zenon
      <4> QED
        BY <3>2, <4>1, <4>4, Zenon
    <3> QED
      BY <3>3, <3>4
  <2>5. Divides(h)' \/ Loses(b)'
    BY <1>4, <2>3, <2>4
  <2> QED
    <3>1. Divides(localStride[b])' \/ Loses(b)'
      BY <1>3, <2>5
    <3>2. ~ (0 \in arrived'[b])
      BY <1>3
    <3>3. /\ \A x \in Live(b)' : \A e \in Share(b, x) : shared[b][x][e] > 0
          /\ \A e \in Countable : \A x, u \in Live(b)' :
               shared[b][x][e] > 0 /\ shared[b][u][e] > 0 => x = u
          /\ \A e \in Countable \ Part(b) : \A x \in Live(b)' : shared[b][x][e] = 0
      BY <1>4, <2>1
    <3> QED
      BY <1>1, <1>2, <1>10, <3>1, <3>2, <3>3 DEF Sums
<1>12. CASE s # 1 /\ s # 2 * h
  <2> DEFINE m == s - 1
  <2>1. h # 0 /\ m = 2 * h /\ m + 1 = s /\ m \in Live(b) /\ m \in Thread /\ Live(b)' = 0 .. m - 1
    BY <1>3, <1>5, <1>12
  <2>2. Lacks(b, m)'
    <3> SUFFICES ASSUME NEW e \in Share(b, m), NEW u \in Live(b)' PROVE shared[b][u][e] = 0
      BY <1>1, <1>2 DEF Lacks
    <3>1. e \in Countable
      BY <2>1, SharesApart DEF Countable
    <3>2. shared[b][m][e] > 0 /\ u # m /\ u \in Live(b)
      BY <1>3, <1>4, <1>6, <2>1
    <3>3. ~ (shared[b][u][e] > 0)
      BY <1>4, <2>1, <3>1, <3>2
    <3>4. shared[b][u][e] \in Nat
      BY <1>6, <3>1 DEF KernelTypeOK, Counts
    <3> QED
      BY <3>3, <3>4
  <2>3. \A x \in Thread : x < m \/ x = m + 1 => Has(b, x)'
    <3> SUFFICES ASSUME NEW x \in Thread, x < m \/ x = m + 1 PROVE Has(b, x)'
      OBVIOUS
    <3>1. CASE x < m
      BY <1>3, <1>7, <2>1, <3>1
    <3>2. CASE x = m + 1
      BY <1>9, <2>1, <3>2
    <3> QED
      BY <3>1, <3>2
  <2>4. Loses(b)'
    BY <1>2, <2>1, <2>2, <2>3 DEF Loses
  <2> QED
    BY <1>1, <1>2, <1>3, <1>4, <1>6, <1>10, <2>4 DEF Sums
<1> QED
  BY <1>11, <1>12

\* Writing a block out leaves what it has summed.
LEMMA WriteSums ==
  ASSUME InPiece, KernelTypeOK, NEW b \in Block, WriteOut(b), Sums(b)
  PROVE  Sums(b)'
<1>1. /\ job' = job /\ piece' = piece /\ shared' = shared /\ localStride' = localStride
      /\ arrived' = arrived /\ phase[b] = "reduce" /\ phase'[b] = "written"
  BY DEF WriteOut, KernelTypeOK
<1>2. /\ Thread' = Thread /\ Threads(piece)' = Threads(piece) /\ Part(b)' = Part(b)
      /\ Countable' = Countable /\ \A x : Share(b, x)' = Share(b, x)
  BY <1>1, SamePiece, SameCall
<1>3. Live(b)' = Live(b)
  BY <1>1, <1>2 DEF Live
<1>4. \A t : Has(b, t)' = Has(b, t) /\ Lacks(b, t)' = Lacks(b, t)
  BY <1>1, <1>2, <1>3 DEF Has, Lacks
<1>5. Loses(b)' = Loses(b) /\ Divides(localStride[b])' = Divides(localStride[b])
  BY <1>1, <1>2, <1>4 DEF Loses, Divides
<1> QED
  BY <1>1, <1>2, <1>3, <1>4, <1>5 DEF Sums

\* A step of one block keeps the sums of all.
LEMMA BlocksSum ==
  ASSUME InPiece, KernelTypeOK, \A c \in Block : BlockInv(c), BlockStep,
         \A b \in Block : phase[b] # "load" => Sums(b)
  PROVE  \A b \in Block : phase'[b] # "load" => Sums(b)'
<1>1. PICK b \in Block : \/ \E t \in Thread : Load(b, t) \/ Reduce(b, t)
                         \/ Syncthreads(b) \/ WriteOut(b)
  BY DEF BlockStep
<1>2. job' = job /\ piece' = piece
  BY <1>1 DEF Load, Reduce, Syncthreads, WriteOut
<1>3. ASSUME NEW c \in Block, c # b, phase'[c] # "load" PROVE Sums(c)'
  <2>1. /\ phase'[c] = phase[c] /\ localStride'[c] = localStride[c] /\ arrived'[c] = arrived[c]
        /\ shared'[c] = shared[c]
    BY <1>1, <1>3 DEF Load, Reduce, Syncthreads, WriteOut, KernelTypeOK
  <2> QED
    BY <1>2, <1>3, <2>1, SameSums
<1>4. ASSUME phase'[b] # "load" PROVE Sums(b)'
  <2>1. CASE \E t \in Thread : Load(b, t)
    BY <1>4, <2>1 DEF Load
  <2>2. CASE \E t \in Thread : Reduce(b, t)
    BY <2>2, ReduceSums DEF Reduce
  <2>3. CASE Syncthreads(b)
    BY <2>3, FirstSums, SyncSums
  <2>4. CASE WriteOut(b)
    BY <2>4, WriteSums DEF WriteOut
  <2> QED
    BY <1>1, <2>1, <2>2, <2>3, <2>4
<1> QED
  BY <1>3, <1>4

\* The first elements of a piece are those of the first block's threads, one each; the
\* element after them is for the first thread of some block.
LEMMA FirstRow ==
  ASSUME InPiece, Cuts
  PROVE  /\ 0 \in Block /\ Threads(piece) <= Size(piece)
         /\ \A t \in Thread : Voxel(piece, t) \in Share(0, t)
         /\ Threads(piece) < Size(piece) =>
              \E b \in Block : Voxel(piece, Threads(piece)) \in Share(b, 0)
<1> DEFINE T == Threads(piece)
           B == Blocks(piece)
           n == Size(piece)
<1>1. /\ T \in Nat \ {0} /\ B \in Nat \ {0} /\ n \in Nat \ {0}
      /\ Block = 0 .. B - 1 /\ Thread = 0 .. T - 1 /\ Blocks(piece) > 0
  BY PieceIs, LaunchIs DEF InPiece
<1>2. T <= n
  <2>1. job.maxThreads \in Nat \ {0} /\ T = Least(n, job.maxThreads)
    BY DEF InPiece, Job, Threads
  <2> QED
    BY <1>1, <2>1
<1>3. \A b \in Block : \A t \in Thread : \A k \in 0 .. n - 1 :
        BlockOf(k) = b /\ ThreadOf(k) = t => Voxel(piece, k) \in Share(b, t)
  BY ShareIs
<1>4. \A k : BlockOf(k) = (k % (T * B)) \div T /\ ThreadOf(k) = (k % (T * B)) % T
  BY DEF BlockOf, ThreadOf
<1> HIDE DEF T, B, n
<1>5. T * B \in Nat \ {0} /\ T <= T * B
  <2>1. T * 1 <= T * B /\ T * B \in Nat
    BY <1>1, TimesMonotone
  <2> QED
    BY <1>1, <2>1
<1>6. ASSUME NEW t \in Thread PROVE Voxel(piece, t) \in Share(0, t)
  <2>1. t \in Nat /\ t < T /\ t \in 0 .. T * B - 1 /\ t \in 0 .. T - 1
    BY <1>1, <1>5
  <2>2. t % (T * B) = t
    <3>1. (T * B) * 0 + t = t /\ 0 \in Nat
      BY <1>5, <2>1
    <3> QED
      BY <1>5, <2>1, <3>1, DivisionIs
  <2>3. t \div T = 0 /\ t % T = t
    <3>1. T * 0 + t = t /\ 0 \in Nat
      BY <1>1, <2>1
    <3> QED
      BY <1>1, <2>1, <3>1, DivisionIs
  <2>4. BlockOf(t) = 0 /\ ThreadOf(t) = t
    BY <1>4, <2>2, <2>3
  <2> QED
    BY <1>1, <1>2, <1>3, <2>1, <2>4
<1>7. ASSUME T < n PROVE \E b \in Block : Voxel(piece, T) \in Share(b, 0)
  <2>1. T \in 0 .. n - 1 /\ 0 \in Thread
    BY <1>1, <1>7
  <2>2. ThreadOf(T) = 0
    <3>1. T % T = 0 /\ 0 % T = 0
      <4>1. T * 1 + 0 = T /\ T * 0 + 0 = 0 /\ 0 \in 0 .. T - 1
        BY <1>1
      <4>2. (T * 1 + 0) % T = 0 /\ (T * 0 + 0) % T = 0
        BY <1>1, <4>1, DivisionIs
      <4> QED
        BY <4>1, <4>2
    <3>2. CASE T * B = T
      BY <1>4, <3>1, <3>2
    <3>3. CASE T * B # T
      <4>1. (T * B) * 0 + T = T /\ T \in 0 .. T * B - 1 /\ 0 \in Nat
        BY <1>1, <1>5, <3>3
      <4>2. T % (T * B) = T
        BY <1>5, <4>1, DivisionIs
      <4> QED
        BY <1>4, <3>1, <4>2
    <3> QED
      BY <3>2, <3>3
  <2>3. BlockOf(T) \in Block
    BY <1>1, <2>1, GridIs DEF n
  <2> QED
    BY <1>3, <2>1, <2>2, <2>3
<1> QED
  BY <1>1, <1>2, <1>6, <1>7 DEF T, n

\* What the blocks of a piece return between them.
Returned(e) == \E b \in Block : arrayOut[b][e] > 0

\* What a piece that is finished has counted, and what it has lost.
LEMMA PieceSums ==
  ASSUME InPiece, Cuts, KernelTypeOK, \A c \in Block : BlockInv(c), Finished,
         \A c \in Block : Sums(c)
  PROVE  /\ \A e \in Countable : Returned(e) => e \in VoxelsOf(piece)
         /\ \A p \in 0 .. 1 : p < Size(piece) => Returned(Voxel(piece, p))
         /\ \/ /\ Halves(Threads(piece))
               /\ \A p \in 0 .. Size(piece) - 1 : Returned(Voxel(piece, p))
            \/ /\ ~Halves(Threads(piece))
               /\ \E m \in 0 .. Size(piece) - 1 :
                    /\ ~Returned(Voxel(piece, m))
                    /\ \A p \in 0 .. Size(piece) - 1 :
                         p < m \/ p = m + 1 => Returned(Voxel(piece, p))
<1>1. /\ Threads(piece) \in Nat \ {0} /\ Size(piece) \in Nat \ {0}
      /\ Thread = 0 .. Threads(piece) - 1 /\ 0 \in Thread
  BY PieceIs
<1>2. /\ 0 \in Block /\ Threads(piece) <= Size(piece)
      /\ \A t \in Thread : Voxel(piece, t) \in Share(0, t)
      /\ Threads(piece) < Size(piece) =>
           \E b \in Block : Voxel(piece, Threads(piece)) \in Share(b, 0)
  BY FirstRow
<1>3. ASSUME NEW b \in Block
      PROVE  /\ localStride[b] = 0 /\ arrayOut[b] = shared[b][0] /\ Live(b) = {0}
             /\ \A e \in Countable : arrayOut[b][e] \in Nat
             /\ \A e \in Countable \ Part(b) : arrayOut[b][e] = 0
             /\ \A t \in Thread : Has(b, t) => \A e \in Share(b, t) : arrayOut[b][e] > 0
             /\ \A t \in Thread : Lacks(b, t) => \A e \in Share(b, t) : arrayOut[b][e] = 0
             /\ Has(b, 0) /\ (1 \in Thread => Has(b, 1))
  <2>1. phase[b] = "written" /\ localStride[b] = 0 /\ arrayOut[b] = shared[b][0]
    BY DEF Finished, BlockInv
  <2>2. Live(b) = {0}
    BY <1>1, <2>1 DEF Live
  <2>3. shared[b][0] \in Counts
    BY <1>1 DEF KernelTypeOK
  <2>4. /\ \A e \in Countable \ Part(b) : arrayOut[b][e] = 0
        /\ 1 \in Thread => Has(b, 1)
    BY <2>1, <2>2 DEF Sums
  <2>5. Has(b, 0)
    BY <2>2, HasOwn
  <2>6. /\ \A t \in Thread : Has(b, t) => \A e \in Share(b, t) : arrayOut[b][e] > 0
        /\ \A t \in Thread : Lacks(b, t) => \A e \in Share(b, t) : arrayOut[b][e] = 0
    BY <2>1, <2>2 DEF Has, Lacks
  <2> QED
    BY <2>1, <2>2, <2>3, <2>4, <2>5, <2>6 DEF Counts
<1>4. \A b \in Block : \A t \in Thread : \A e : Has(b, t) /\ e \in Share(b, t) => Returned(e)
  BY <1>3 DEF Returned
<1>5. ASSUME NEW e \in Countable, Returned(e) PROVE e \in VoxelsOf(piece)
  <2>1. PICK b \in Block : arrayOut[b][e] > 0
    BY <1>5 DEF Returned
  <2>2. e \in Part(b)
    BY <1>3, <2>1
  <2> QED
    BY <2>2, PartsApart
<1>6. ASSUME NEW p \in 0 .. Size(piece) - 1, p \in Thread => Has(0, p), p <= Threads(piece)
      PROVE  Returned(Voxel(piece, p))
  <2>1. CASE p \in Thread
    BY <1>2, <1>4, <1>6, <2>1
  <2>2. CASE p \notin Thread
    <3>1. p = Threads(piece) /\ Threads(piece) < Size(piece)
      BY <1>1, <1>6, <2>2
    <3>2. PICK b \in Block : Voxel(piece, p) \in Share(b, 0)
      BY <1>2, <3>1
    <3> QED
      BY <1>1, <1>3, <1>4, <3>2
  <2> QED
    BY <2>1, <2>2
<1>7. ASSUME NEW p \in 0 .. 1, p < Size(piece) PROVE Returned(Voxel(piece, p))
  <2>1. p = 0 \/ p = 1
    OBVIOUS
  <2>2. p \in 0 .. Size(piece) - 1 /\ p <= Threads(piece)
    BY <1>1, <1>7
  <2>3. p \in Thread => Has(0, p)
    BY <1>2, <1>3, <2>1
  <2> QED
    BY <1>6, <2>2, <2>3
<1>8. CASE Halves(Threads(piece))
  <2>1. ASSUME NEW p \in 0 .. Size(piece) - 1 PROVE Returned(Voxel(piece, p))
    <3>1. Voxel(piece, p) \in VoxelsOf(piece)
      BY DEF VoxelsOf
    <3>2. Blocks(piece) > 0
      BY <1>2, PieceIs
    <3>3. PICK b \in Block : Voxel(piece, p) \in Part(b)
      BY <3>1, <3>2, PartsApart
    <3>4. Voxel(piece, p) \in Countable
      BY <3>1, PartsApart DEF Countable
    <3>5. arrayOut[b][Voxel(piece, p)] = 1
      BY <1>8, <3>3, <3>4, WrittenIs
    <3> QED
      BY <3>5 DEF Returned
  <2> QED
    BY <1>5, <1>7, <1>8, <2>1
<1>9. CASE ~Halves(Threads(piece))
  <2>1. Loses(0)
    BY <1>2, <1>3, <1>9 DEF Sums, Divides
  <2>2. PICK m \in Thread : /\ Lacks(0, m)
                            /\ \A t \in Thread : t < m \/ t = m + 1 => Has(0, t)
    BY <2>1 DEF Loses
  <2>3. m \in 0 .. Size(piece) - 1
    BY <1>1, <1>2
  <2>4. ~Returned(Voxel(piece, m))
    <3> DEFINE e == Voxel(piece, m)
    <3>1. e \in Share(0, m) /\ e \in Part(0) /\ e \in Countable
      BY <1>2, SharesApart DEF Countable
    <3>2. arrayOut[0][e] = 0
      BY <1>2, <1>3, <2>2, <3>1
    <3>3. ASSUME NEW b \in Block, b # 0 PROVE arrayOut[b][e] = 0
      <4>1. e \notin Part(b)
        BY <1>2, <3>1, <3>3, PartsApart
      <4> QED
        BY <1>3, <3>1, <4>1
    <3>4. \A b \in Block : arrayOut[b][e] = 0
      BY <3>2, <3>3
    <3> QED
      BY <3>4 DEF Returned
  <2>5. ASSUME NEW p \in 0 .. Size(piece) - 1, p < m \/ p = m + 1
        PROVE  Returned(Voxel(piece, p))
    <3>1. p <= Threads(piece)
      BY <1>1, <2>5
    <3>2. p \in Thread => Has(0, p)
      BY <2>2, <2>5
    <3> QED
      BY <1>6, <3>1, <3>2
  <2> QED
    BY <1>5, <1>7, <1>9, <2>3, <2>4, <2>5
<1> QED
  BY <1>8, <1>9

\* What a step that leaves the call as it is leaves of the sum.
LEMMA SameFirst ==
  ASSUME job' = job
  PROVE  /\ NumValues' = NumValues /\ Second' = Second
         /\ \A p : Counted(p)' <=> \E e : e = Voxel(0, p) /\ outVal'[e] > Again(e)'
         /\ FirstPiece' <=>
              \/ Halves(Threads(0)) /\ \A p \in 0 .. Size(0) - 1 : Counted(p)'
              \/ /\ ~Halves(Threads(0))
                 /\ \E m \in 0 .. Size(0) - 1 :
                      /\ \A p \in 0 .. Size(0) - 1 : p < m \/ p = m + 1 => Counted(p)'
                      /\ (\A i \in 1 .. Pieces - 1 : Voxel(0, m) \notin VoxelsOf(i)) =>
                           outVal'[Voxel(0, m)] = 0
<1>1. NumValues' = NumValues
  BY DEF NumValues
<1>2. /\ Pieces' = Pieces /\ Size(0)' = Size(0) /\ Size(1)' = Size(1) /\ Threads(0)' = Threads(0)
      /\ \A p : Voxel(0, p)' = Voxel(0, p) /\ Voxel(1, p)' = Voxel(1, p)
      /\ \A i : VoxelsOf(i)' = VoxelsOf(i)
  BY SameCall, SameVoxels
<1>3. Second' = Second
  BY <1>2 DEF Second
<1>4. \A p : Counted(p)' <=> \E e : e = Voxel(0, p) /\ outVal'[e] > Again(e)'
  <2> TAKE p
  <2>1. PICK e : e = Voxel(0, p)
    OBVIOUS
  <2>2. Voxel(0, p)' = e
    BY <1>2, <2>1
  <2>3. Counted(p)' <=> outVal'[e] > Again(e)'
    BY <2>2 DEF Counted
  <2> QED
    BY <2>1, <2>3
<1> QED
  BY <1>1, <1>2, <1>3, <1>4 DEF FirstPiece

\* The sum of the first piece stays what it is when no element of it is lost, none is
\* counted again without being added, and nothing is added that is in no later piece.
LEMMA FirstStays ==
  ASSUME job' = job, Job(job), Cuts, FirstPiece,
         \A e \in Element : outVal[e] > Again(e) => outVal'[e] > Again(e)',
         \A e \in Element :
           (\A i \in 1 .. Pieces - 1 : e \notin VoxelsOf(i)) => outVal'[e] = outVal[e]
  PROVE  FirstPiece'
<1>1. Pieces \in Nat \ {0} /\ \A p \in 0 .. Size(0) - 1 : Voxel(0, p) \in Element
  <2>1. Pieces \in Nat \ {0}
    BY ChunkIs
  <2>2. 0 \in 0 .. Pieces - 1
    BY <2>1
  <2> QED
    BY <2>1, <2>2, ChunkIs
<1>2. ASSUME NEW p \in 0 .. Size(0) - 1, Counted(p) PROVE Counted(p)'
  BY <1>2, <1>1, SameFirst DEF Counted
<1>3. CASE Halves(Threads(0)) /\ \A p \in 0 .. Size(0) - 1 : Counted(p)
  <2>1. \A p \in 0 .. Size(0) - 1 : Counted(p)'
    BY <1>2, <1>3
  <2> QED
    BY <1>3, <2>1, SameFirst
<1>4. CASE ~Halves(Threads(0))
  <2>1. PICK m \in 0 .. Size(0) - 1 :
          /\ \A p \in 0 .. Size(0) - 1 : p < m \/ p = m + 1 => Counted(p)
          /\ (\A i \in 1 .. Pieces - 1 : Voxel(0, m) \notin VoxelsOf(i)) => outVal[Voxel(0, m)] = 0
    BY <1>4 DEF FirstPiece
  <2>2. \A p \in 0 .. Size(0) - 1 : p < m \/ p = m + 1 => Counted(p)'
    BY <1>2, <2>1
  <2>3. (\A i \in 1 .. Pieces - 1 : Voxel(0, m) \notin VoxelsOf(i)) => outVal'[Voxel(0, m)] = 0
    BY <1>1, <2>1
  <2> QED
    BY <1>4, <2>2, <2>3, SameFirst
<1> QED
  BY <1>3, <1>4 DEF FirstPiece

\* An entry that is collected counts the elements of its block.
LEMMA CollectSums ==
  ASSUME IInv, LInv, Collect
  PROVE  LInv'
<1>1. /\ pc = "kernel" /\ Finished /\ entry \in Entries
      /\ outVal' = outVal ++ arrayOut[entry] /\ entry' = entry + 1
      /\ job' = job /\ pc' = pc /\ piece' = piece /\ phase' = phase /\ localStride' = localStride
      /\ arrived' = arrived /\ shared' = shared /\ arrayOut' = arrayOut
  BY DEF Collect
<1>2. /\ InPiece /\ KernelTypeOK /\ \A c \in Block : BlockInv(c)
      /\ arrayOut \in [0 .. MaxBlocks - 1 -> Counts] /\ Blocks(piece) <= MaxBlocks
      /\ piece \in Nat /\ entry \in Nat /\ outVal \in Counts /\ Job(job)
      /\ piece \in 0 .. Pieces - 1
  BY <1>1, InKernel DEF IInv, TypeOK, InPiece
<1>3. Cuts' = Cuts /\ Block' = Block /\ NumValues' = NumValues /\ Second' = Second
      /\ Countable' = Countable
  BY <1>1, SameCall, SamePiece, SameFirst
<1>4. \A b \in Block : Sums(b)
  BY <1>1 DEF LInv, Finished
<1>5. \A b \in Block : Sums(b)'
  BY <1>1, <1>4, SameSums
<1>6. ASSUME job.op = "Sum"
      PROVE  /\ pc = "kernel" /\ piece = 0 => \A e \in Countable : outVal'[e] > 0 <=> Got(e)'
             /\ piece > 0 => FirstPiece'
  <2>1. Cuts
    BY <1>6 DEF Cuts
  <2>2. entry \in Block /\ entry \in 0 .. MaxBlocks - 1
    BY <1>1, <1>2, <2>1, PieceIs DEF Entries
  <2>3. /\ \A e \in Countable : outVal'[e] = outVal[e] + arrayOut[entry][e]
        /\ \A e \in Countable : outVal[e] \in Nat /\ arrayOut[entry][e] \in Nat
    BY <1>1, <1>2, <2>2 DEF Counts, ++
  <2>4. \A e : Got(e)' <=> Got(e) \/ arrayOut[entry][e] > 0
    <3>1. (entry + 1) - 1 = entry /\ \A b : b \in 0 .. entry <=> b \in 0 .. entry - 1 \/ b = entry
      BY <1>2
    <3> QED
      BY <1>1, <3>1 DEF Got
  <2>5. piece = 0 => \A e \in Countable : outVal'[e] > 0 <=> Got(e)'
    BY <1>1, <1>6, <2>3, <2>4 DEF LInv
  <2>6. ASSUME piece > 0 PROVE FirstPiece'
    <3>1. FirstPiece
      BY <1>1, <1>6, <2>6 DEF LInv
    <3>2. Element \subseteq Countable
      BY DEF Countable
    <3>3. ASSUME NEW e \in Element, outVal[e] > Again(e) PROVE outVal'[e] > Again(e)'
      <4>1. Again(e) \in 0 .. 1 /\ Again(e)' \in 0 .. 1
        BY DEF Again
      <4>2. Again(e)' > Again(e) => arrayOut[entry][e] > 0
        BY <1>1, <1>3, <2>4 DEF Again
      <4> QED
        BY <2>3, <3>2, <3>3, <4>1, <4>2
    <3>4. ASSUME NEW e \in Element, \A i \in 1 .. Pieces - 1 : e \notin VoxelsOf(i)
          PROVE  outVal'[e] = outVal[e]
      <4>1. e \notin VoxelsOf(piece)
        BY <1>2, <2>6, <3>4
      <4>2. ~Returned(e)
        BY <1>1, <1>2, <1>4, <2>1, <3>2, <4>1, PieceSums
      <4>3. ~ (arrayOut[entry][e] > 0)
        BY <2>2, <4>2 DEF Returned
      <4> QED
        BY <2>3, <3>2, <4>3
    <3> QED
      BY <1>1, <1>2, <2>1, <3>1, <3>3, <3>4, FirstStays
  <2> QED
    BY <2>5, <2>6
<1> QED
  BY <1>1, <1>3, <1>5, <1>6 DEF LInv

\* What the first piece lost stays lost, or the second counts its first voxels again.
LEMMA NextPieceSums ==
  ASSUME IInv, LInv, NextPiece
  PROVE  LInv'
<1>1. /\ pc = "kernel" /\ Finished /\ entry \notin Entries
      /\ outVal' = outVal /\ entry' = entry /\ arrayOut' = arrayOut
      /\ job' = job /\ pc' = "send" /\ piece' = piece + 1
  BY DEF NextPiece
<1>2. /\ InPiece /\ KernelTypeOK /\ \A c \in Block : BlockInv(c)
      /\ piece \in Nat /\ entry \in Nat /\ outVal \in Counts /\ Job(job)
      /\ piece \in 0 .. Pieces - 1
  BY <1>1, InKernel DEF IInv, TypeOK, InPiece
<1>3. Cuts' = Cuts /\ NumValues' = NumValues /\ Second' = Second
  BY <1>1, SameCall, SameFirst
<1>4. \A b \in Block : Sums(b)
  BY <1>1 DEF LInv, Finished
<1>5. ASSUME job.op = "Sum" PROVE FirstPiece'
  <2>1. Cuts
    BY <1>5 DEF Cuts
  <2>2. /\ Block = 0 .. Blocks(piece) - 1 /\ Blocks(piece) \in Nat
        /\ entry = Blocks(piece)
    <3>1. Block = 0 .. Blocks(piece) - 1 /\ Blocks(piece) \in Nat
      BY <1>2, PieceIs
    <3>2. entry <= Blocks(piece)
      BY <1>1, <2>1 DEF IInv, KernelInv
    <3> QED
      BY <1>1, <1>2, <2>1, <3>1, <3>2 DEF Entries
  <2>3. \A e : Got(e) <=> Returned(e)
    BY <2>2 DEF Got, Returned
  <2>4. /\ \A p \in 0 .. 1 : p < Size(piece) => Returned(Voxel(piece, p))
        /\ \/ /\ Halves(Threads(piece))
              /\ \A p \in 0 .. Size(piece) - 1 : Returned(Voxel(piece, p))
           \/ /\ ~Halves(Threads(piece))
              /\ \E m \in 0 .. Size(piece) - 1 :
                   /\ ~Returned(Voxel(piece, m))
                   /\ \A p \in 0 .. Size(piece) - 1 :
                        p < m \/ p = m + 1 => Returned(Voxel(piece, p))
    BY <1>1, <1>2, <1>4, <2>1, PieceSums
  <2>5. CASE piece = 0
    <3>1. \A e : Again(e)' = 0
      BY <1>1, <2>5 DEF Again
    <3>2. \A p \in 0 .. Size(0) - 1 : Voxel(0, p) \in Countable
      BY <1>2, <2>1, <2>5, ChunkIs DEF Countable
    <3>3. \A p \in 0 .. Size(0) - 1 : /\ outVal[Voxel(0, p)] \in Nat
                                      /\ outVal[Voxel(0, p)] > 0 <=> Returned(Voxel(0, p))
      BY <1>1, <1>2, <1>5, <2>3, <2>5, <3>2 DEF LInv, Counts
    <3>4. \A p \in 0 .. Size(0) - 1 : Returned(Voxel(0, p)) => Counted(p)'
      BY <1>1, <3>1, <3>3, SameFirst
    <3>5. CASE Halves(Threads(0))
      BY <1>1, <2>4, <2>5, <3>5, <3>4, SameFirst
    <3>6. CASE ~Halves(Threads(0))
      <4>1. PICK m \in 0 .. Size(0) - 1 :
              /\ ~Returned(Voxel(0, m))
              /\ \A p \in 0 .. Size(0) - 1 : p < m \/ p = m + 1 => Returned(Voxel(0, p))
        BY <2>4, <2>5, <3>6
      <4>2. outVal[Voxel(0, m)] = 0
        BY <3>3, <4>1
      <4>3. \A p \in 0 .. Size(0) - 1 : p < m \/ p = m + 1 => Counted(p)'
        BY <3>4, <4>1
      <4> QED
        BY <1>1, <3>6, <4>2, <4>3, SameFirst
    <3> QED
      BY <3>5, <3>6
  <2>6. CASE piece > 0
    <3>1. FirstPiece
      BY <1>1, <1>5, <2>6 DEF LInv
    <3>2. \A e : Again(e)' = Again(e)
      <4>1. CASE piece = 1
        <5>1. \A e \in Second : Got(e)
          BY <2>3, <2>4, <4>1 DEF Second
        <5> QED
          BY <1>1, <1>3, <4>1, <5>1 DEF Again
      <4>2. CASE piece # 1
        <5>1. piece > 1 /\ piece + 1 > 1
          BY <1>2, <2>6, <4>2
        <5> QED
          BY <1>1, <1>3, <5>1 DEF Again
      <4> QED
        BY <4>1, <4>2
    <3> QED
      BY <1>1, <1>2, <2>1, <3>1, <3>2, FirstStays
  <2> QED
    BY <1>2, <2>5, <2>6
<1> QED
  BY <1>1, <1>3, <1>5 DEF LInv

\* A step of a block keeps what the host has counted.
LEMMA BlockStepSums ==
  ASSUME IInv, LInv, BlockStep
  PROVE  LInv'
<1>1. pc = "kernel"
  BY DEF BlockStep, Load, Reduce, Syncthreads, WriteOut
<1>2. /\ InPiece /\ KernelTypeOK /\ \A c \in Block : BlockInv(c)
      /\ arrayOut \in [0 .. MaxBlocks - 1 -> Counts] /\ Blocks(piece) <= MaxBlocks
      /\ entry \in Nat /\ Job(job)
  BY <1>1, InKernel DEF InPiece
<1>3. /\ job' = job /\ piece' = piece /\ pc' = pc /\ entry' = entry /\ outVal' = outVal
      /\ ~Finished
  BY <1>2, BlocksHold
<1>4. entry = 0
  BY <1>1, <1>2, <1>3 DEF IInv, KernelInv
<1>5. \A e : ~Got(e) /\ ~Got(e)'
  BY <1>3, <1>4 DEF Got
<1>6. Cuts' = Cuts /\ Block' = Block /\ NumValues' = NumValues /\ Second' = Second
      /\ Countable' = Countable
  BY <1>3, SameCall, SamePiece, SameFirst
<1>7. \A b \in Block : phase'[b] # "load" => Sums(b)'
  BY <1>1, <1>2, BlocksSum DEF LInv
<1>8. \A e : Again(e)' = Again(e)
  BY <1>3, <1>5, <1>6 DEF Again
<1>9. ASSUME job.op = "Sum", piece > 0 PROVE FirstPiece'
  <2>1. Cuts /\ FirstPiece
    BY <1>1, <1>9 DEF Cuts, LInv
  <2> QED
    BY <1>2, <1>3, <1>8, <2>1, FirstStays
<1>10. ASSUME job.op = "Sum", piece = 0 PROVE \A e \in Countable : outVal'[e] > 0 <=> Got(e)'
  BY <1>1, <1>3, <1>5, <1>10 DEF LInv
<1> QED
  BY <1>1, <1>3, <1>6, <1>7, <1>9, <1>10 DEF LInv

\* A launch changes nothing that was counted.
LEMMA LaunchSums ==
  ASSUME IInv, LInv, Launch
  PROVE  LInv'
<1>1. /\ pc = "send" /\ pc' = "kernel" /\ job' = job /\ piece' = piece /\ entry' = 0
      /\ phase' = [b \in Block |-> "load"]
      /\ job.op = "Sum" => outVal' = outVal
  BY DEF Launch
<1>2. Job(job) /\ piece \in Nat
  BY ReductionsAssumption, LaunchIs DEF IInv, TypeOK
<1>3. Cuts' = Cuts /\ Block' = Block /\ NumValues' = NumValues /\ Second' = Second
      /\ Countable' = Countable
  BY <1>1, SameCall, SamePiece, SameFirst
<1>4. \A e : ~Got(e)'
  BY <1>1 DEF Got
<1>5. \A e : Again(e)' = Again(e)
  BY <1>1, <1>3, <1>4 DEF Again
<1>6. ASSUME job.op = "Sum", piece > 0 PROVE FirstPiece'
  <2>1. Cuts /\ FirstPiece
    BY <1>1, <1>6 DEF Cuts, LInv
  <2> QED
    BY <1>1, <1>2, <1>5, <1>6, <2>1, FirstStays
<1>7. ASSUME job.op = "Sum", piece = 0 PROVE \A e \in Countable : outVal'[e] > 0 <=> Got(e)'
  <2>1. outVal = Nothing
    BY <1>1, <1>7 DEF IInv, TypeOK
  <2> QED
    BY <1>1, <1>4, <1>7, <2>1 DEF Nothing
<1> QED
  BY <1>1, <1>3, <1>6, <1>7 DEF LInv

\* Nor do the ends of a call.
LEMMA CallSums ==
  ASSUME IInv, LInv, UseDevice \/ Overrun \/ Return \/ ReduceOnHost
  PROVE  LInv'
<1>1. /\ job' = job /\ piece' = piece /\ arrayOut' = arrayOut /\ entry' = entry
      /\ pc # "kernel" /\ pc' # "kernel"
  BY DEF UseDevice, Overrun, Return, ReduceOnHost
<1>2. Job(job) /\ piece \in Nat /\ (pc = "start" => piece = 0)
      /\ Pieces \in Nat \ {0}
  BY ReductionsAssumption, LaunchIs DEF IInv, TypeOK
<1>3. Cuts' = Cuts /\ NumValues' = NumValues /\ Second' = Second /\ Pieces' = Pieces
      /\ Element' = Element /\ \A E : Once(E)' = Once(E)
  BY <1>1, SameCall, SameFirst
<1>4. CASE ReduceOnHost
  <2>1. /\ pc = "start" /\ pc' = "returned" /\ Cuts /\ NumValues <= job.maxThreads
        /\ outVal' = Once(Element)
    BY <1>4 DEF ReduceOnHost
  <2> QED
    BY <1>1, <1>2, <1>3, <2>1 DEF LInv
<1>5. CASE UseDevice
  <2>1. /\ pc = "start" /\ pc' = "send" /\ (Cuts => NumValues > job.maxThreads)
    BY <1>5 DEF UseDevice
  <2> QED
    BY <1>1, <1>2, <1>3, <2>1 DEF LInv
<1>6. CASE Overrun
  BY <1>1, <1>6 DEF LInv, Overrun
<1>7. CASE Return
  <2>1. pc = "send" /\ pc' = "returned" /\ piece = Pieces /\ outVal' = outVal
    BY <1>7 DEF Return
  <2>2. \A e : Again(e)' = Again(e)
    BY <1>1, <1>3, <2>1 DEF Again
  <2>3. ASSUME job.op = "Sum", piece > 0 PROVE FirstPiece'
    <3>1. Cuts /\ FirstPiece
      BY <2>1, <2>3 DEF Cuts, LInv
    <3> QED
      BY <1>1, <1>2, <2>1, <2>2, <3>1, FirstStays
  <2> QED
    BY <1>1, <1>2, <1>3, <2>1, <2>3 DEF LInv
<1> QED
  BY <1>4, <1>5, <1>6, <1>7

\* Nor does a stuttering step.
LEMMA StutterSums ==
  ASSUME IInv, LInv, UNCHANGED vars
  PROVE  LInv'
<1>1. /\ job' = job /\ piece' = piece /\ arrayOut' = arrayOut /\ entry' = entry /\ outVal' = outVal
      /\ pc' = pc /\ phase' = phase /\ localStride' = localStride /\ arrived' = arrived
      /\ shared' = shared
  BY DEF vars
<1>2. Job(job)
  BY ReductionsAssumption DEF IInv, TypeOK
<1>3. Cuts' = Cuts /\ NumValues' = NumValues /\ Second' = Second /\ Pieces' = Pieces
      /\ Element' = Element /\ (\A E : Once(E)' = Once(E)) /\ Block' = Block
      /\ Countable' = Countable
  BY <1>1, SameCall, SameFirst, SamePiece
<1>4. \A b \in Block : Sums(b) => Sums(b)'
  BY <1>1, SameSums
<1>5. \A e : Got(e)' = Got(e)
  BY <1>1 DEF Got
<1>6. \A e : Again(e)' = Again(e)
  BY <1>1, <1>3, <1>5 DEF Again
<1>7. Cuts /\ FirstPiece => FirstPiece'
  BY <1>1, <1>2, <1>6, FirstStays
<1>8. job.op = "Sum" => Cuts
  BY DEF Cuts
<1> QED
  BY <1>1, <1>3, <1>4, <1>5, <1>7, <1>8 DEF LInv

\* The invariant of the sums is inductive beside the other one.
LEMMA SumsInvariant == Spec => []LInv
<1>1. Init => LInv
  BY DEF Init, LInv
<1>2. IInv /\ LInv /\ [Next]_vars => LInv'
  <2> SUFFICES ASSUME IInv, LInv, [Next]_vars PROVE LInv'
    OBVIOUS
  <2>1. CASE UseDevice \/ Overrun \/ Return \/ ReduceOnHost
    BY <2>1, CallSums
  <2>2. CASE Launch
    BY <2>2, LaunchSums
  <2>3. CASE Collect
    BY <2>3, CollectSums
  <2>4. CASE NextPiece
    BY <2>4, NextPieceSums
  <2>5. CASE BlockStep
    BY <2>5, BlockStepSums
  <2>6. CASE Over \/ UNCHANGED vars
    BY <2>6, StutterSums DEF Over
  <2> QED
    BY <2>1, <2>2, <2>3, <2>4, <2>5, <2>6 DEF Next, BlockStep
<1> QED
  BY <1>1, <1>2, ReductionsInvariant, PTL DEF Spec

\* An image that is not cut: a piece is a channel.
LEMMA Uncut ==
  ASSUME Job(job), Cuts, PerChannel = 1
  PROVE  /\ Pieces = job.channels
         /\ \A i \in 0 .. Pieces - 1 :
              /\ Threads(i) = Threads(0)
              /\ VoxelsOf(i) = {<<i, x>> : x \in 0 .. job.length - 1}
<1> DEFINE n == job.length
           d == Delta
<1>1. n \in Nat \ {0} /\ job.channels \in Nat \ {0} /\ d \in Nat \ {0} /\ CeilDiv(n, d) = 1
  BY CutIs DEF Job
<1>2. n <= d
  <2>1. n <= d * CeilDiv(n, d)
    BY <1>1, CeilDivBounds
  <2>2. d * CeilDiv(n, d) = d
    BY <1>1
  <2> QED
    BY <2>1, <2>2
<1>3. Pieces = job.channels
  BY <1>1 DEF Pieces
<1>4. ASSUME NEW i \in Nat PROVE i % PerChannel = 0 /\ i \div PerChannel = i
  BY <1>4, DivisionIs
<1>5. ASSUME NEW i \in Nat
      PROVE  /\ Size(i) = n /\ Threads(i) = Least(n, job.maxThreads)
             /\ \A p : Voxel(i, p) = <<i, 0 + p>>
  <2>1. Start(i) = ImageStart(d, Margin(1), 0)
    BY <1>4 DEF Start
  <2>2. Size(i) = ImageEnd(n, d, Margin(1), 0) - ImageStart(d, Margin(1), 0) + 1
    BY <1>4 DEF Size, ChunkSize, FullChunkSize
  <2>3. Margin(1) = 1 /\ d * 0 = 0
    BY <1>1 DEF Margin
  <2>4. ImageStart(d, Margin(1), 0) = 0
    BY <1>1, <2>3 DEF ImageStart
  <2>5. ImageEnd(n, d, Margin(1), 0) = n - 1
    BY <1>1, <1>2, <2>3 DEF ImageEnd, ImageROIEnd
  <2>6. Size(i) = n
    BY <1>1, <2>2, <2>4, <2>5
  <2> QED
    BY <1>4, <2>1, <2>4, <2>6 DEF Threads, Voxel
<1>6. ASSUME NEW i \in 0 .. Pieces - 1
      PROVE  Threads(i) = Threads(0) /\ VoxelsOf(i) = {<<i, x>> : x \in 0 .. n - 1}
  <2>1. i \in Nat /\ 0 \in Nat
    BY <1>1, <1>3
  <2>2. \A p \in 0 .. n - 1 : Voxel(i, p) = <<i, p>>
    BY <1>1, <1>5, <2>1
  <2> QED
    BY <1>5, <2>1, <2>2 DEF VoxelsOf
<1> QED
  BY <1>3, <1>6

\* An image that is cut: the first two voxels of the second piece are the two on either side
\* of the cut, which are in the first as well; what is before them is in no other piece.
LEMMA Overlap ==
  ASSUME Job(job), Cuts, PerChannel # 1
  PROVE  /\ Delta \in Nat \ {0} /\ Delta < Size(0) /\ Size(1) >= 2 /\ 1 < Pieces
         /\ Voxel(0, Delta - 1) = Voxel(1, 0) /\ Voxel(0, Delta) = Voxel(1, 1)
         /\ \A m \in 0 .. Delta - 2 : \A i \in 1 .. Pieces - 1 : Voxel(0, m) \notin VoxelsOf(i)
<1> DEFINE n == job.length
           d == Delta
           P == PerChannel
<1>1. n \in Nat \ {0} /\ job.channels \in Nat \ {0} /\ d \in Nat \ {0} /\ P = CeilDiv(n, d)
  BY CutIs DEF Job
<1>2. P \in Nat /\ P >= 2 /\ d * 1 < n
  <2>1. P \in Nat \ {0} /\ d * (P - 1) < n
    BY <1>1, CeilDivBounds
  <2>2. P >= 2
    BY <2>1
  <2>3. d * 1 <= d * (P - 1) /\ d * (P - 1) \in Nat
    <3>1. 1 \in Nat /\ P - 1 \in Nat /\ 1 <= P - 1
      BY <2>1, <2>2
    <3> QED
      BY <1>1, <3>1, TimesMonotone
  <2> QED
    BY <1>1, <2>1, <2>2, <2>3
<1>3. Pieces \in Nat /\ 1 < Pieces
  <2>1. P * 1 <= P * job.channels /\ P * job.channels \in Nat
    BY <1>1, <1>2, TimesMonotone
  <2> QED
    BY <1>1, <1>2, <2>1 DEF Pieces
<1>4. Margin(1) = 1
  BY DEF Margin
<1>5. /\ \A i : Start(i) = Greatest(d * (i % P) - 1, 0)
      /\ \A i : Size(i) = Least(Least(d * (i % P) + d, n - 1) + 1, n - 1)
                            - Greatest(d * (i % P) - 1, 0) + 1
      /\ \A i, p : Voxel(i, p) = <<i \div P, Start(i) + p>>
  BY <1>4 DEF Start, Size, ChunkSize, FullChunkSize, ImageEnd, ImageROIEnd, ImageStart, Voxel
<1> HIDE DEF n, d, P
<1>6. 0 % P = 0 /\ 0 \div P = 0 /\ 1 % P = 1 /\ 1 \div P = 0
  <2>1. P \in Nat \ {0} /\ P * 0 + 0 = 0 /\ P * 0 + 1 = 1 /\ 0 \in 0 .. P - 1 /\ 1 \in 0 .. P - 1
    BY <1>2
  <2>2. /\ (P * 0 + 0) \div P = 0 /\ (P * 0 + 0) % P = 0
        /\ (P * 0 + 1) \div P = 0 /\ (P * 0 + 1) % P = 1
    BY <2>1, DivisionIs
  <2> QED
    BY <2>1, <2>2
<1>7. d * 0 = 0 /\ d * 1 = d
  BY <1>1
<1>8. Start(0) = 0 /\ Start(1) = d - 1
  BY <1>1, <1>5, <1>6, <1>7
<1>9. d < Size(0) /\ Size(1) >= 2
  <2>1. /\ Size(0) = Least(Least(0 + d, n - 1) + 1, n - 1) - Greatest(0 - 1, 0) + 1
        /\ Size(1) = Least(Least(d + d, n - 1) + 1, n - 1) - Greatest(d - 1, 0) + 1
    BY <1>5, <1>6, <1>7
  <2>2. d <= n - 1
    BY <1>1, <1>2
  <2> QED
    BY <1>1, <2>1, <2>2
<1>10. \A p \in Nat : Voxel(0, p) = <<0, p>>
  BY <1>5, <1>6, <1>8
<1>11. Voxel(0, d - 1) = Voxel(1, 0) /\ Voxel(0, d) = Voxel(1, 1)
  <2>1. Voxel(1, 0) = <<0, d - 1>> /\ Voxel(1, 1) = <<0, d>>
    BY <1>1, <1>5, <1>6, <1>8
  <2> QED
    BY <1>1, <1>10, <2>1
<1>12. ASSUME NEW m \in 0 .. d - 2, NEW i \in 1 .. Pieces - 1, Voxel(0, m) \in VoxelsOf(i)
       PROVE  FALSE
  <2> DEFINE c == i \div P
             k == i % P
  <2>1. i \in Nat /\ i >= 1 /\ m \in Nat /\ m < d - 1
    BY <1>1, <1>3
  <2>2. i = P * c + k /\ P \in Nat /\ k \in 0 .. P - 1
    BY <1>2, <2>1, QuotientAndRest
  <2>3. PICK p \in 0 .. Size(i) - 1 : Voxel(0, m) = Voxel(i, p)
    BY <1>12 DEF VoxelsOf
  <2>4. c = 0 /\ m = Start(i) + p /\ Start(i) = Greatest(d * k - 1, 0)
    BY <1>5, <1>10, <2>1, <2>3
  <2> HIDE DEF c, k
  <2>5. k = i
    <3>1. P * 0 = 0
      BY <2>2
    <3> QED
      BY <2>1, <2>2, <2>4, <3>1
  <2>6. d * 1 <= d * i /\ d * i \in Nat
    BY <1>1, <2>1, TimesMonotone
  <2>7. Start(i) >= d - 1 /\ Start(i) \in Int
    BY <1>1, <2>4, <2>5, <2>6
  <2>8. p \in Int /\ p >= 0
    BY <2>3
  <2> QED
    BY <1>1, <2>1, <2>4, <2>7, <2>8
<1> QED
  BY <1>1, <1>3, <1>9, <1>11, <1>12 DEF d

\* SumIsExactWhen: the sum counts every element once if the host makes it, or if the image
\* is not cut and the size of its blocks is a power of two, and then only.
THEOREM SumIsExactWhenHolds == Spec => []SumIsExactWhen
<1>1. ASSUME IInv, LInv, pc = "returned", job.op = "Sum",
             piece = Pieces, NumValues > job.maxThreads
      PROVE  outVal = Once(Element) <=> PerChannel = 1 /\ Halves(Threads(0))
  <2>1. /\ Job(job) /\ Cuts /\ outVal \in Counts /\ Pieces \in Nat \ {0}
        /\ 0 \in 0 .. Pieces - 1
    <3>1. Job(job) /\ Cuts /\ outVal \in Counts
      BY <1>1, ReductionsAssumption DEF IInv, TypeOK, Cuts
    <3> QED
      BY <3>1, LaunchIs
  <2>2. ASSUME PerChannel = 1, Halves(Threads(0)) PROVE outVal = Once(Element)
    <3>1. /\ Pieces = job.channels
          /\ \A i \in 0 .. Pieces - 1 :
               /\ Threads(i) = Threads(0)
               /\ VoxelsOf(i) = {<<i, x>> : x \in 0 .. job.length - 1}
      BY <2>1, <2>2, Uncut
    <3>2. AllHalve(Pieces)
      BY <2>2, <3>1 DEF AllHalve
    <3>3. \A e \in Countable : outVal[e] = Times(e, Pieces)
      BY <1>1, <3>2 DEF IInv, SumInv
    <3>4. ASSUME NEW e \in Element PROVE Times(e, Pieces) = 1
      <4>1. PICK c \in 0 .. Pieces - 1, x \in 0 .. job.length - 1 : e = <<c, x>>
        BY <3>1 DEF Element
      <4>2. {i \in 0 .. Pieces - 1 : e \in VoxelsOf(i)} = {c}
        BY <3>1, <4>1
      <4> QED
        BY <4>2, FS_Singleton DEF Times
    <3>5. Times(Garbage, Pieces) = 0
      <4>1. \A i \in 0 .. Pieces - 1 : VoxelsOf(i) \subseteq Element
        BY <2>1, ChunkIs DEF VoxelsOf
      <4>2. {i \in 0 .. Pieces - 1 : Garbage \in VoxelsOf(i)} = {}
        BY <4>1, GarbageIsNoElement
      <4> QED
        BY <4>2, FS_EmptySet DEF Times
    <3>6. \A e \in Countable : outVal[e] = Once(Element)[e]
      BY <3>3, <3>4, <3>5, GarbageIsNoElement DEF Countable, Once
    <3>7. Once(Element) \in [Countable -> Nat]
      BY DEF Once
    <3> QED
      BY <2>1, <3>6, <3>7 DEF Counts
  <2>3. ASSUME outVal = Once(Element) PROVE PerChannel = 1 /\ Halves(Threads(0))
    <3>1. FirstPiece
      BY <1>1, <2>1 DEF LInv
    <3>2. \A p \in 0 .. Size(0) - 1 : outVal[Voxel(0, p)] = 1
      <4>1. \A p \in 0 .. Size(0) - 1 : Voxel(0, p) \in Element
        BY <2>1, ChunkIs
      <4> QED
        BY <2>3, <4>1 DEF Once, Countable
    <3>3. CASE PerChannel = 1
      <4>1. \A i \in 0 .. Pieces - 1 : VoxelsOf(i) = {<<i, x>> : x \in 0 .. job.length - 1}
        BY <2>1, <3>3, Uncut
      <4>2. ASSUME NEW m \in 0 .. Size(0) - 1, NEW i \in 1 .. Pieces - 1
            PROVE  Voxel(0, m) \notin VoxelsOf(i)
        <5>1. Voxel(0, m) \in VoxelsOf(0)
          BY DEF VoxelsOf
        <5>2. PICK x : Voxel(0, m) = <<0, x>>
          BY <2>1, <4>1, <5>1
        <5> QED
          BY <2>1, <4>1, <5>2
      <4> QED
        BY <3>1, <3>2, <3>3, <4>2 DEF FirstPiece
    <3>4. CASE PerChannel # 1
      <4> DEFINE d == Delta
      <4>1. /\ d \in Nat \ {0} /\ d < Size(0) /\ Size(1) >= 2 /\ 1 < Pieces
            /\ Voxel(0, d - 1) = Voxel(1, 0) /\ Voxel(0, d) = Voxel(1, 1)
            /\ \A m \in 0 .. d - 2 : \A i \in 1 .. Pieces - 1 : Voxel(0, m) \notin VoxelsOf(i)
        BY <2>1, <3>4, Overlap
      <4> HIDE DEF d
      <4>2. /\ Size(0) \in Nat /\ Size(1) \in Nat
            /\ d - 1 \in 0 .. Size(0) - 1 /\ d \in 0 .. Size(0) - 1
        <5>1. 1 \in 0 .. Pieces - 1
          BY <2>1, <4>1
        <5>2. Size(0) \in Nat /\ Size(1) \in Nat
          BY <2>1, <5>1, ChunkIs
        <5> QED
          BY <4>1, <5>2
      <4>3. Voxel(0, d - 1) \in Second /\ Voxel(0, d) \in Second
        <5>1. 0 < Size(1) /\ 1 < Size(1) /\ 0 \in 0 .. 1 /\ 1 \in 0 .. 1
          BY <4>1, <4>2
        <5>2. Voxel(1, 0) \in Second /\ Voxel(1, 1) \in Second
          BY <5>1 DEF Second
        <5> QED
          BY <4>1, <5>2
      <4>4. ~Counted(d - 1) /\ ~Counted(d)
        <5>1. Again(Voxel(0, d - 1)) = 1 /\ Again(Voxel(0, d)) = 1
          BY <1>1, <4>1, <4>3 DEF Again
        <5> QED
          BY <3>2, <4>2, <5>1 DEF Counted
      <4>5. PICK m \in 0 .. Size(0) - 1 :
              /\ \A p \in 0 .. Size(0) - 1 : p < m \/ p = m + 1 => Counted(p)
              /\ (\A i \in 1 .. Pieces - 1 : Voxel(0, m) \notin VoxelsOf(i)) =>
                   outVal[Voxel(0, m)] = 0
        BY <3>1, <4>2, <4>4 DEF FirstPiece
      <4>6. ~ (d - 1 < m) /\ d # m + 1
        BY <4>2, <4>4, <4>5
      <4>7. m \in 0 .. d - 2
        BY <4>1, <4>2, <4>5, <4>6
      <4>8. outVal[Voxel(0, m)] = 0
        BY <4>1, <4>5, <4>7
      <4> QED
        BY <3>2, <4>5, <4>8
    <3> QED
      BY <3>3, <3>4
  <2> QED
    BY <2>2, <2>3
<1>2. IInv /\ LInv => SumIsExactWhen
  <2> SUFFICES ASSUME IInv, LInv, pc = "returned", job.op = "Sum"
               PROVE  outVal = Once(Element) <=>
                        NumValues <= job.maxThreads \/ (PerChannel = 1 /\ Halves(Threads(0)))
    BY DEF SumIsExactWhen
  <2>1. Cuts /\ NumValues \in Int /\ job.maxThreads \in Nat
    BY ReductionsAssumption DEF IInv, TypeOK, Job, Cuts, NumValues
  <2>2. \/ piece = Pieces /\ NumValues > job.maxThreads
        \/ NumValues <= job.maxThreads /\ outVal = Once(Element)
    BY <2>1 DEF LInv
  <2> QED
    BY <1>1, <2>1, <2>2
<1> QED
  BY <1>2, ReductionsInvariant, SumsInvariant, PTL

\* NoneLeftOut: the range of an array sees every element of it, and cMinMax, beyond what one
\* block can take, exactly the elements of its last chunk, for every launch whose blocks
\* halve evenly.
THEOREM NoneLeftOutHolds == Spec => []NoneLeftOut
<1>1. IInv /\ LInv => NoneLeftOut
  <2> SUFFICES ASSUME IInv, LInv, pc = "returned", job.op # "Sum", Halves(Threads(Pieces - 1))
               PROVE  /\ Cuts => Seen = IF NumValues <= job.maxThreads THEN Element
                                        ELSE {Voxel(Pieces - 1, p) : p \in 0 .. Size(Pieces - 1) - 1}
                      /\ ~Cuts /\ (job.op = "GetMinMax" => PiecesFillABlock) => Element \subseteq Seen
    BY DEF NoneLeftOut
  <2>1. /\ Job(job) /\ (piece = Pieces \/ (Cuts /\ outVal = Once(Element)))
        /\ Pieces \in Nat \ {0}
    BY ReductionsAssumption, LaunchIs DEF IInv, TypeOK
  <2>2. ASSUME Cuts, outVal = Once(Element) PROVE Seen = Element
    BY <2>2 DEF Seen, Once, Countable
  <2>3. ASSUME Cuts, piece = Pieces PROVE Seen = VoxelsOf(Pieces - 1)
    <3>1. job.op = "MinMax"
      BY <2>3 DEF Cuts
    <3>2. \A e \in Countable : outVal[e] = IF e \in VoxelsOf(Pieces - 1) THEN 1 ELSE 0
      BY <2>3, <3>1 DEF IInv, RangeInv
    <3>3. VoxelsOf(Pieces - 1) \subseteq Countable
      <4>1. Pieces - 1 \in 0 .. Pieces - 1
        BY <2>1
      <4>2. \A p \in 0 .. Size(Pieces - 1) - 1 : Voxel(Pieces - 1, p) \in Element
        BY <2>1, <4>1, LaunchIs, Zenon
      <4> QED
        BY <4>2 DEF VoxelsOf, Countable
    <3> QED
      BY <3>2, <3>3 DEF Seen
  <2>4. ASSUME ~Cuts, job.op = "GetMinMax" => PiecesFillABlock PROVE Element \subseteq Seen
    <3>1. piece = Pieces
      BY <2>1, <2>4
    <3>2. Halves(job.maxThreads)
      BY <2>4 DEF Threads
    <3>3. \A i \in 0 .. Pieces - 1 : Blocks(i) > 0
      BY <2>1, <2>4, PiecesHaveBlocks
    <3>4. \A i \in 0 .. Pieces - 1 : VoxelsOf(i) \subseteq Seen
      BY <2>4, <3>1, <3>2, <3>3 DEF IInv, ArrayInv
    <3>5. \A e \in Element : \E i \in 0 .. Pieces - 1 : e \in VoxelsOf(i)
      BY <2>1, <2>4, PiecesCover
    <3> QED
      BY <3>4, <3>5
  <2>5. ASSUME Cuts
        PROVE  Seen = IF NumValues <= job.maxThreads THEN Element ELSE VoxelsOf(Pieces - 1)
    <3>1. NumValues \in Int /\ job.maxThreads \in Nat
      BY <2>1 DEF Job, NumValues
    <3>2. \/ piece = Pieces /\ NumValues > job.maxThreads
          \/ NumValues <= job.maxThreads /\ outVal = Once(Element)
      BY <2>5 DEF LInv
    <3> QED
      BY <2>2, <2>3, <2>5, <3>1, <3>2
  <2> QED
    BY <2>4, <2>5 DEF VoxelsOf
<1> QED
  BY <1>1, ReductionsInvariant, SumsInvariant, PTL
=============================================================================
