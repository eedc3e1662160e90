---------------------------- MODULE ChunkingProofs ----------------------------
(***************************************************************************)
(* That the loops of calculateChunking cover every voxel of any image with *)
(* chunks inside it and all a kernel reads, on whatever extents            *)
(* calculateBuffers arrives at; and that calculateBuffers divides by zero  *)
(* only if one line of the image does not fit.                             *)
(***************************************************************************)
EXTENDS Chunking, ChunkGeometryProofs

\* There is a side of the largest square, w deep, of no more than n voxels.
LEMMA SquareSide ==
  ASSUME NEW n \in Nat, NEW w \in Nat \ {0}
  PROVE  \E s \in 0 .. n : s * s * w <= n /\ n < (s + 1) * (s + 1) * w
<1> DEFINE T == {s \in Nat : n < (s + 1) * (s + 1) * w}
<1>1. n \in T
  <2>1. (n + 1) * (n + 1) >= n + 1
    OBVIOUS
  <2>2. (n + 1) * (n + 1) * w >= (n + 1) * (n + 1)
    <3> DEFINE q == (n + 1) * (n + 1)
    <3>1. q \in Nat
      OBVIOUS
    <3> HIDE DEF q
    <3>2. q * w >= q
      BY <3>1
    <3> QED
      BY <3>2 DEF q
  <2>3. (n + 1) * (n + 1) * w \in Nat /\ (n + 1) * (n + 1) \in Nat
    OBVIOUS
  <2> QED
    BY <2>1, <2>2, <2>3
<1>2. PICK m \in T : \A s \in T : m <= s
  BY <1>1, LeastNumber
<1>3. m \in 0 .. n /\ n < (m + 1) * (m + 1) * w
  BY <1>1, <1>2
<1>4. m * m * w <= n
  <2>1. CASE m = 0
    BY <2>1
  <2>2. CASE m # 0
    <3>1. m - 1 \in Nat /\ m - 1 \notin T
      BY <1>2, <1>3, <2>2
    <3>2. ~ (n < (m - 1 + 1) * (m - 1 + 1) * w)
      BY <3>1
    <3>3. m - 1 + 1 = m /\ m * m * w \in Int
      BY <1>3
    <3> QED
      BY <3>2, <3>3
  <2> QED
    BY <2>1, <2>2
<1> QED
  BY <1>3, <1>4
-----------------------------------------------------------------------------
(***************************************************************************)
(* calculateBuffers                                                        *)
(***************************************************************************)
ArgsOK ==
  /\ im \in [DimSet -> Nat \ {0}]
  /\ kern \in [Axis -> Nat \ {0}]
  /\ numVoxels \in Nat \ {0}

\* The three axes in some order.
Order(o) ==
  /\ o[1] \in Axis /\ o[2] \in Axis /\ o[3] \in Axis
  /\ o[1] # o[2] /\ o[1] # o[3] /\ o[2] # o[3]

\* The extents are numbers at every step, and the second one is at most a square's side.
SizingInv ==
  /\ ArgsOK
  /\ pc # "order" => Order(order)
  /\ deviceDims \in [Axis -> Int]
  /\ pc = "rest" => /\ deviceDims[order[1]] = im[order[1]]
                    /\ deviceDims[order[2]] = Least(im[order[2]], SquareDim)
  /\ pc = "fault" => numVoxels < im[order[1]]

\* The side of the square is the greatest one whose lines fit.
LEMMA SquareDimIs ==
  ASSUME ArgsOK, Order(order)
  PROVE  /\ SquareDim \in Nat
         /\ SquareDim * SquareDim * im[order[1]] <= numVoxels
         /\ numVoxels < (SquareDim + 1) * (SquareDim + 1) * im[order[1]]
         /\ SquareDim = 0 => numVoxels < im[order[1]]
<1> DEFINE w == im[order[1]]
<1>1. w \in Nat \ {0} /\ numVoxels \in Nat
  BY DEF ArgsOK, Order, DimSet
<1>2. \E s \in 0 .. numVoxels : s * s * w <= numVoxels /\ numVoxels < (s + 1) * (s + 1) * w
  <2> HIDE DEF w
  <2> QED
    BY <1>1, SquareSide
<1>3. /\ SquareDim \in 0 .. numVoxels
      /\ SquareDim * SquareDim * w <= numVoxels
      /\ numVoxels < (SquareDim + 1) * (SquareDim + 1) * w
  BY <1>2 DEF SquareDim
<1>4. SquareDim = 0 => numVoxels < w
  <2> SUFFICES ASSUME SquareDim = 0 PROVE numVoxels < w
    OBVIOUS
  <2>1. numVoxels < (0 + 1) * (0 + 1) * w
    BY <1>3
  <2> HIDE DEF w
  <2> QED
    BY <1>1, <2>1
<1> QED
  BY <1>1, <1>3, <1>4

\* The divisors of the third step are positive.
LEMMA PositiveProduct ==
  ASSUME NEW n \in Nat \ {0}, NEW d \in Nat \ {0}
  PROVE  n * d \in Nat \ {0}
OBVIOUS

\* A truncated quotient is an integer.
LEMMA QuotientIsInt ==
  ASSUME NEW n \in Nat, NEW d \in Nat \ {0}
  PROVE  n \div d \in Int
OBVIOUS

\* The axes are put in order.
LEMMA ChooseAxesKeeps ==
  ASSUME SizingInv, ChooseAxes
  PROVE  SizingInv'
<1>1. pc' = "split" /\ UNCHANGED <<im, kern, numVoxels, deviceDims>>
  BY DEF ChooseAxes
<1>2. order' \in {<<"x", "y", "z">>, <<"x", "z", "y">>, <<"y", "x", "z">>, <<"y", "z", "x">>,
                  <<"z", "x", "y">>, <<"z", "y", "x">>}
  BY DEF ChooseAxes
<1>3. Order(order')
  BY <1>2 DEF Order, Axis
<1> QED
  BY <1>1, <1>3 DEF SizingInv, ArgsOK, Order

\* The memory is split between the axes.
LEMMA SplitKeeps ==
  ASSUME SizingInv, Split
  PROVE  SizingInv'
<1>1. pc' = "rest" /\ UNCHANGED <<im, kern, numVoxels, order>>
  BY DEF Split
<1>2. Order(order) /\ ArgsOK
  BY DEF SizingInv, Split
<1>3. SquareDim \in Nat
  BY <1>2, SquareDimIs
<1>4. im[order[1]] \in Nat /\ Least(im[order[2]], SquareDim) \in Nat
  BY <1>2, <1>3 DEF ArgsOK, Order, DimSet, Least
<1>5. /\ deviceDims' \in [Axis -> Int]
      /\ deviceDims'[order[1]] = im[order[1]]
      /\ deviceDims'[order[2]] = Least(im[order[2]], SquareDim)
  BY <1>2, <1>4 DEF Split, SizingInv, Order
<1>6. SquareDim' = SquareDim
  BY <1>1 DEF SquareDim
<1> QED
  BY <1>1, <1>2, <1>5, <1>6 DEF SizingInv, ArgsOK, Order

\* What is left over is given back.
LEMMA RestKeeps ==
  ASSUME SizingInv, Rest
  PROVE  SizingInv'
<1> DEFINE second == deviceDims[order[2]]
           first == deviceDims[order[1]]
<1>1. /\ pc = "rest" /\ UNCHANGED <<im, kern, numVoxels, order>>
      /\ pc' \in {"fault", "chunk"} /\ (pc' = "fault" <=> second = 0)
  BY DEF Rest
<1>2. Order(order) /\ ArgsOK /\ deviceDims \in [Axis -> Int]
  BY <1>1 DEF SizingInv
<1>3. /\ first = im[order[1]] /\ second = Least(im[order[2]], SquareDim)
      /\ SquareDim \in Nat /\ (SquareDim = 0 => numVoxels < im[order[1]])
      /\ im[order[1]] \in Nat \ {0} /\ im[order[2]] \in Nat \ {0} /\ im[order[3]] \in Nat \ {0}
      /\ im["z"] \in Nat \ {0} /\ numVoxels \in Nat
  BY <1>1, <1>2, SquareDimIs DEF SizingInv, ArgsOK, Order, DimSet, Axis
<1>4. CASE second = 0
  <2>1. pc' = "fault" /\ deviceDims' = deviceDims
    BY <1>4 DEF Rest
  <2>2. numVoxels < im[order[1]]
    BY <1>3, <1>4 DEF Least
  <2> QED
    BY <1>1, <1>2, <2>1, <2>2 DEF SizingInv, ArgsOK, Order
<1>5. CASE second # 0
  <2>1. second \in Nat \ {0} /\ first \in Nat \ {0}
    BY <1>3, <1>5 DEF Least
  <2>2. numVoxels \div (second * first) \in Int
    BY <1>3, <2>1, PositiveProduct, QuotientIsInt
  <2>3. GivenBack \in Int
    <3>1. CASE order[2] = "x"
      <4>1. GivenBack = numVoxels \div (im["z"] * second)
        BY <3>1 DEF GivenBack
      <4> QED
        BY <1>3, <2>1, <4>1, PositiveProduct, QuotientIsInt
    <3>2. CASE order[2] # "x"
      <4>1. GivenBack = numVoxels \div (im[order[3]] * im[order[1]])
        BY <3>2 DEF GivenBack
      <4> QED
        BY <1>3, <4>1, PositiveProduct, QuotientIsInt
    <3> QED
      BY <3>1, <3>2
  <2>4. Least(GivenBack, im[order[2]]) \in Int
    BY <1>3, <2>3 DEF Least
  <2>5. \/ deviceDims' = [deviceDims EXCEPT ![order[3]] = im[order[3]],
                                            ![order[2]] = Least(GivenBack, im[order[2]])]
        \/ deviceDims' = [deviceDims EXCEPT ![order[3]] = numVoxels \div (second * first)]
    BY <1>5 DEF Rest
  <2>6. deviceDims' \in [Axis -> Int]
    BY <1>2, <1>3, <2>2, <2>4, <2>5 DEF Order
  <2> QED
    BY <1>1, <1>2, <1>5, <2>6 DEF SizingInv, ArgsOK, Order
<1> QED
  BY <1>4, <1>5
-----------------------------------------------------------------------------
(***************************************************************************)
(* The volume of a buffer                                                  *)
(***************************************************************************)
\* A quotient of numbers is the number of times the divisor fits.
LEMMA QuotientBounds ==
  ASSUME NEW n \in Nat, NEW d \in Nat \ {0}
  PROVE  /\ n \div d \in Nat /\ (n \div d) * d <= n /\ n < (n \div d + 1) * d
<1>1. n = d * (n \div d) + (n % d) /\ n % d \in 0 .. d - 1 /\ n \div d \in Int
  OBVIOUS
<1> DEFINE q == n \div d
<1> HIDE DEF q
<1>2. q \in Int /\ d * q <= n /\ n < d * q + d
  BY <1>1 DEF q
<1>3. q >= 0
  <2> SUFFICES ASSUME q <= -1 PROVE FALSE
    BY <1>2
  <2>1. d * q <= d * (-1)
    BY <1>2
  <2> QED
    BY <1>2, <2>1
<1> QED
  BY <1>2, <1>3 DEF q

\* A remainder is no more than what is divided.
LEMMA RemainderBounds ==
  ASSUME NEW n \in Nat, NEW d \in Nat \ {0}
  PROVE  n % d \in 0 .. n
<1>1. n = d * (n \div d) + (n % d) /\ n % d \in 0 .. d - 1
  OBVIOUS
<1>2. n \div d \in Nat
  BY QuotientBounds
<1>3. d * (n \div d) \in Nat
  BY <1>2
<1> QED
  BY <1>1, <1>3

\* When the second axis is cut to a square's side and the image fits, the third axis is
\* left more than its extent, and gives the rest back.
LEMMA ThirdTakesAll ==
  ASSUME NEW nV \in Nat, NEW w \in Nat \ {0}, NEW i2 \in Nat \ {0}, NEW i3 \in Nat \ {0},
         NEW s \in Nat \ {0}, s * s * w <= nV, nV < (s + 1) * (s + 1) * w,
         w * i2 * i3 <= nV, s < i2, nV < (i3 + 1) * (s * w)
  PROVE  FALSE
<1>1. s <= i3
  <2> SUFFICES ASSUME i3 + 1 <= s PROVE FALSE
    OBVIOUS
  <2> DEFINE p == s * w
  <2>0. p \in Nat
    OBVIOUS
  <2>1. s * s * w = s * p /\ (i3 + 1) * (s * w) = (i3 + 1) * p
    OBVIOUS
  <2> HIDE DEF p
  <2>2. (i3 + 1) * p <= s * p
    BY <2>0
  <2> QED
    BY <2>0, <2>1, <2>2
<1>2. w * (s + 1) * i3 <= w * i2 * i3
  <2> DEFINE p == w * i3
  <2>0. p \in Nat
    OBVIOUS
  <2>1. w * (s + 1) * i3 = (s + 1) * p /\ w * i2 * i3 = i2 * p
    OBVIOUS
  <2> HIDE DEF p
  <2>2. (s + 1) * p <= i2 * p
    BY <2>0
  <2> QED
    BY <2>1, <2>2
<1>3. w * (s + 1) * i3 = w * (s * i3) + w * i3 /\ (i3 + 1) * (s * w) = w * (s * i3) + w * s
  OBVIOUS
<1>4. w * i3 < w * s
  <2>1. w * (s * i3) \in Int /\ w * i3 \in Int /\ w * s \in Int /\ w * (s + 1) * i3 \in Int /\ w * i2 * i3 \in Int
    OBVIOUS
  <2> QED
    BY <2>1, <1>2, <1>3
<1>5. w * s <= w * i3
  BY <1>1
<1> QED
  BY <1>4, <1>5

Sized == pc \notin {"order", "split", "rest", "fault"}

\* The extents are within the image's.  Unless the rest went to x they fit the memory,
\* and are the image's own when that fits.
VolumeInv ==
  Sized => /\ \A a \in Axis : deviceDims[a] \in 0 .. im[a]
           /\ ~GivenToX => /\ Product(deviceDims) <= numVoxels
                           /\ Product(im) <= numVoxels => \A a \in Axis : deviceDims[a] = im[a]

\* The volume of a box from its extents along the three axes in any order.
LEMMA ProductInOrder ==
  ASSUME NEW v, \A a \in Axis : v[a] \in Int, Order(order)
  PROVE  /\ Product(v) = v[order[3]] * (v[order[2]] * v[order[1]])
         /\ Product(v) = v[order[2]] * (v[order[3]] * v[order[1]])
         /\ Product(v) = v[order[1]] * v[order[2]] * v[order[3]]
<1> DEFINE x == v["x"]
           y == v["y"]
           z == v["z"]
<1>1. x \in Int /\ y \in Int /\ z \in Int
  BY DEF Axis
<1>2. Product(v) = x * y * z
  BY DEF Product
<1>3. <<v[order[1]], v[order[2]], v[order[3]]>> \in
        {<<x, y, z>>, <<x, z, y>>, <<y, x, z>>, <<y, z, x>>, <<z, x, y>>, <<z, y, x>>}
  BY DEF Order, Axis
<1> HIDE DEF x, y, z
<1>4. ASSUME NEW a, NEW b, NEW c,
             <<a, b, c>> \in {<<x, y, z>>, <<x, z, y>>, <<y, x, z>>, <<y, z, x>>, <<z, x, y>>, <<z, y, x>>}
      PROVE  x * y * z = c * (b * a) /\ x * y * z = b * (c * a) /\ x * y * z = a * b * c
  BY <1>1, <1>4
<1> QED
  BY <1>2, <1>3, <1>4

\* The extents arrived at fit the memory.
LEMMA RestFits ==
  ASSUME SizingInv, Rest
  PROVE  VolumeInv'
<1> DEFINE first == deviceDims[order[1]]
           second == deviceDims[order[2]]
           third == numVoxels \div (second * first)
           i1 == im[order[1]]
           i2 == im[order[2]]
           i3 == im[order[3]]
           n == numVoxels
           s == SquareDim
<1>1. /\ pc = "rest" /\ UNCHANGED <<im, kern, numVoxels, order>>
      /\ pc' \in {"fault", "chunk"} /\ (pc' = "fault" <=> second = 0)
  BY DEF Rest
<1>2. Order(order) /\ ArgsOK /\ deviceDims \in [Axis -> Int]
  BY <1>1 DEF SizingInv
<1>3. /\ first = i1 /\ second = Least(i2, s) /\ s \in Nat
      /\ s * s * i1 <= n /\ n < (s + 1) * (s + 1) * i1
      /\ i1 \in Nat \ {0} /\ i2 \in Nat \ {0} /\ i3 \in Nat \ {0} /\ n \in Nat \ {0}
  BY <1>1, <1>2, SquareDimIs DEF SizingInv, ArgsOK, Order, DimSet
<1>4. CASE second = 0
  BY <1>1, <1>4 DEF VolumeInv, Sized
<1>5. CASE second # 0
  <2>1. pc' = "chunk" /\ second \in Nat \ {0} /\ second <= i2
    BY <1>1, <1>3, <1>5 DEF Least
  <2>2. third \in Nat /\ third * (second * first) <= n /\ n < (third + 1) * (second * first)
    <3>1. second * first \in Nat \ {0}
      BY <1>3, <2>1, PositiveProduct
    <3> QED
      BY <1>3, <3>1, QuotientBounds
  <2>3. \A a \in Axis : im[a] \in Nat \ {0}
    BY <1>2 DEF ArgsOK, DimSet
  <2>4. /\ Product(im) = i2 * (i3 * i1)
        /\ Product(im) = i1 * i2 * i3
    BY <1>2, <2>3, ProductInOrder
  <2>5. CASE third > i3
    <3> DEFINE q == n \div (i3 * i1)
    <3>1. deviceDims' = [deviceDims EXCEPT ![order[3]] = i3, ![order[2]] = Least(GivenBack, i2)]
      BY <1>5, <2>5 DEF Rest
    <3>2. GivenBack \in Nat
      <4>1. CASE order[2] = "x"
        <5>1. im["z"] * second \in Nat \ {0}
          BY <1>3, <2>1, <2>3, PositiveProduct DEF Axis
        <5> QED
          BY <1>3, <4>1, <5>1, QuotientBounds DEF GivenBack
      <4>2. CASE order[2] # "x"
        <5>1. i3 * i1 \in Nat \ {0}
          BY <1>3, PositiveProduct
        <5> QED
          BY <1>3, <4>2, <5>1, QuotientBounds DEF GivenBack
      <4> QED
        BY <4>1, <4>2
    <3>3. /\ deviceDims'[order[1]] = i1 /\ deviceDims'[order[3]] = i3
          /\ deviceDims'[order[2]] = Least(GivenBack, i2)
      BY <1>2, <1>3, <3>1 DEF Order
    <3>4. Least(GivenBack, i2) \in 0 .. i2
      BY <1>3, <3>2 DEF Least
    <3>5. \A a \in Axis : deviceDims'[a] \in 0 .. im[a]
      BY <1>2, <1>3, <3>3, <3>4 DEF Order, Axis
    <3>6. ASSUME ~GivenToX'
          PROVE  /\ Product(deviceDims') <= n
                 /\ Product(im) <= n => \A a \in Axis : deviceDims'[a] = im[a]
      <4>1. order[2] # "x"
        BY <1>1, <3>3, <3>6 DEF GivenToX
      <4>2. /\ i3 * i1 \in Nat \ {0}
            /\ GivenBack \in Nat /\ GivenBack * (i3 * i1) <= n /\ n < (GivenBack + 1) * (i3 * i1)
        <5>1. i3 * i1 \in Nat \ {0}
          BY <1>3, PositiveProduct
        <5> QED
          BY <1>3, <4>1, <5>1, QuotientBounds DEF GivenBack
      <4>3. Product(deviceDims') = Least(GivenBack, i2) * (i3 * i1)
        <5>1. \A a \in Axis : deviceDims'[a] \in Int
          BY <2>3, <3>5
        <5> QED
          BY <1>2, <3>3, <5>1, ProductInOrder
      <4> DEFINE w == i3 * i1
                 g == GivenBack
      <4> HIDE DEF w, g, n, i2
      <4>4. Least(g, i2) * w <= g * w
        BY <1>3, <4>2 DEF Least, w, g
      <4>5. i2 * w <= n => i2 < g + 1
        <5> SUFFICES ASSUME i2 * w <= n, g + 1 <= i2 PROVE FALSE
          BY <1>3, <4>2 DEF g
        <5>1. (g + 1) * w <= i2 * w
          BY <1>3, <4>2 DEF w, g
        <5> QED
          BY <1>3, <4>2, <5>1 DEF w, g
      <4>6. i2 * w <= n => Least(g, i2) = i2
        BY <1>3, <4>2, <4>5 DEF Least, g
      <4>7. Product(deviceDims') <= n
        <5>1. g * w \in Int /\ Least(g, i2) * w \in Int /\ g * w <= n
          BY <1>3, <4>2 DEF Least, w, g
        <5> QED
          BY <1>3, <4>3, <4>4, <5>1 DEF w, g
      <4>8. Product(im) <= n => \A a \in Axis : deviceDims'[a] = im[a]
        BY <1>2, <2>4, <3>3, <4>6 DEF Order, Axis, w, g, i2
      <4> QED
        BY <4>7, <4>8
    <3> QED
      BY <1>1, <3>5, <3>6 DEF VolumeInv, Product
  <2>6. CASE ~ (third > i3)
    <3>1. deviceDims' = [deviceDims EXCEPT ![order[3]] = third]
      BY <1>5, <2>6 DEF Rest
    <3>2. /\ deviceDims'[order[1]] = i1 /\ deviceDims'[order[2]] = second
          /\ deviceDims'[order[3]] = third /\ third \in 0 .. i3
      BY <1>2, <1>3, <2>2, <2>6, <3>1 DEF Order
    <3>3. \A a \in Axis : deviceDims'[a] \in 0 .. im[a]
      BY <1>2, <1>3, <2>1, <3>2 DEF Order, Axis
    <3>4. Product(deviceDims') <= n
      <4>1. \A a \in Axis : deviceDims'[a] \in Int
        BY <2>3, <3>3
      <4>2. Product(deviceDims') = third * (second * i1)
        BY <1>2, <3>2, <4>1, ProductInOrder
      <4> QED
        BY <1>3, <2>2, <4>2
    <3>5. Product(im) <= n => \A a \in Axis : deviceDims'[a] = im[a]
      <4> SUFFICES ASSUME Product(im) <= n
                   PROVE  \A a \in Axis : deviceDims'[a] = im[a]
        OBVIOUS
      <4> HIDE DEF first, second, third, i1, i2, i3, n, s
      <4>1. i1 * i2 * i3 <= n
        BY <2>4 DEF n, i1, i2, i3
      <4>2. n < (third + 1) * (second * i1)
        BY <1>3, <2>2
      <4>3. n < (i3 + 1) * (second * i1)
        <5> DEFINE p == second * i1
        <5>1. p \in Nat
          BY <1>3, <2>1
        <5> HIDE DEF p
        <5>2. (third + 1) * p <= (i3 + 1) * p
          BY <1>3, <2>2, <2>6, <5>1
        <5>3. (third + 1) * p \in Int /\ (i3 + 1) * p \in Int /\ n < (third + 1) * p
          BY <1>3, <2>2, <4>2, <5>1 DEF p
        <5> QED
          BY <1>3, <5>2, <5>3 DEF p
      <4>4. second = i2
        <5> SUFFICES ASSUME second # i2 PROVE FALSE
          OBVIOUS
        <5>1. second = s /\ s < i2 /\ s \in Nat \ {0}
          BY <1>3, <2>1 DEF Least
        <5> QED
          BY <1>3, <4>1, <4>3, <5>1, ThirdTakesAll
      <4>5. i3 < third + 1
        <5> SUFFICES ASSUME third + 1 <= i3 PROVE FALSE
          BY <1>3, <2>2
        <5> DEFINE p == i2 * i1
        <5>1. p \in Nat /\ i1 * i2 * i3 = i3 * p
          BY <1>3
        <5>2. n < (third + 1) * p
          BY <4>2, <4>4
        <5> HIDE DEF p
        <5>3. (third + 1) * p <= i3 * p
          BY <1>3, <2>2, <5>1
        <5>4. (third + 1) * p \in Int /\ i3 * p \in Int
          BY <1>3, <2>2, <5>1
        <5> QED
          BY <1>3, <4>1, <5>1, <5>2, <5>3, <5>4
      <4>6. third = i3
        BY <1>3, <2>2, <2>6, <4>5
      <4> QED
        BY <1>2, <3>2, <4>4, <4>6 DEF Order, Axis, i1, i2, i3
    <3> QED
      BY <1>1, <3>3, <3>4, <3>5 DEF VolumeInv, Product
  <2> QED
    BY <2>5, <2>6
<1> QED
  BY <1>4, <1>5
-----------------------------------------------------------------------------
(***************************************************************************)
(* The slots of localChunks                                                *)
(***************************************************************************)
\* A number has one last digit to the base n.
LEMMA DigitsDiffer ==
  ASSUME NEW n \in Nat \ {0}, NEW a \in 0 .. n - 1, NEW b \in 0 .. n - 1,
         NEW p \in Nat, NEW q \in Nat
  PROVE  a + n * p = b + n * q => a = b /\ p = q
<1> SUFFICES ASSUME a + n * p = b + n * q PROVE a = b /\ p = q
  OBVIOUS
<1>1. n * p \in Nat /\ n * q \in Nat
  OBVIOUS
<1>2. p < q => n * p + n <= n * q
  <2> SUFFICES ASSUME p < q PROVE n * p + n <= n * q
    OBVIOUS
  <2>1. n * (p + 1) <= n * q /\ n * (p + 1) = n * p + n
    OBVIOUS
  <2> QED
    BY <1>1, <2>1
<1>3. q < p => n * q + n <= n * p
  <2> SUFFICES ASSUME q < p PROVE n * q + n <= n * p
    OBVIOUS
  <2>1. n * (q + 1) <= n * p /\ n * (q + 1) = n * q + n
    OBVIOUS
  <2> QED
    BY <1>1, <2>1
<1>4. p = q
  BY <1>1, <1>2, <1>3
<1> QED
  BY <1>1, <1>4

\* Two digits, the upper one below m: their range, and the carry.
LEMMA Digits ==
  ASSUME NEW n \in Nat \ {0}, NEW m \in Nat \ {0}, NEW a \in 0 .. n - 1, NEW p \in Nat
  PROVE  /\ a + n * p \in Nat
         /\ p <= m - 1 => a + n * p <= n * m - 1
         /\ n - 1 + n * (m - 1) = n * m - 1
         /\ 0 + n * (p + 1) = n - 1 + n * p + 1
<1>1. n * p \in Nat /\ n * m \in Nat
  OBVIOUS
<1>2. n * (m - 1) = n * m - n /\ n * (p + 1) = n * p + n
  OBVIOUS
<1>3. p <= m - 1 => n * p <= n * (m - 1)
  OBVIOUS
<1> QED
  BY <1>1, <1>2, <1>3

\* The counters of a turn of the loops.
Below(n) == {c \in [DimSet -> Nat] : \A d \in DimSet : c[d] < n[d]}

\* The address, a digit at a time.
Upper4(n, c) == c["chan"] + n["chan"] * c["frame"]
Upper3(n, c) == c["z"] + n["z"] * Upper4(n, c)
Upper2(n, c) == c["y"] + n["y"] * Upper3(n, c)

\* The partial sums of linearAddressAt are the digits' numbers, each within its bound.
LEMMA Addresses ==
  ASSUME NEW n \in [DimSet -> Nat \ {0}], NEW c \in Below(n)
  PROVE  /\ \A d \in DimSet : n[d] \in Nat \ {0} /\ c[d] \in 0 .. n[d] - 1
         /\ Upper4(n, c) \in 0 .. n["chan"] * n["frame"] - 1
         /\ Upper3(n, c) \in 0 .. n["z"] * (n["chan"] * n["frame"]) - 1
         /\ Upper2(n, c) \in 0 .. n["y"] * (n["z"] * (n["chan"] * n["frame"])) - 1
         /\ LinearAddressAt(n, c) = c["x"] + n["x"] * Upper2(n, c)
         /\ LinearAddressAt(n, c) \in 0 .. NumElements(n) - 1
<1> DEFINE m4 == n["chan"] * n["frame"]
           m3 == n["z"] * m4
           m2 == n["y"] * m3
<1>1. \A d \in DimSet : n[d] \in Nat \ {0} /\ c[d] \in 0 .. n[d] - 1
  BY DEF Below
<1>2. /\ n["x"] \in Nat \ {0} /\ c["x"] \in 0 .. n["x"] - 1
      /\ n["y"] \in Nat \ {0} /\ c["y"] \in 0 .. n["y"] - 1
      /\ n["z"] \in Nat \ {0} /\ c["z"] \in 0 .. n["z"] - 1
      /\ n["chan"] \in Nat \ {0} /\ c["chan"] \in 0 .. n["chan"] - 1
      /\ n["frame"] \in Nat \ {0} /\ c["frame"] \in 0 .. n["frame"] - 1
  BY <1>1 DEF DimSet, Axis
<1>3. m4 \in Nat \ {0}
  BY <1>2, PositiveProduct
<1>4. m3 \in Nat \ {0}
  <2> HIDE DEF m4
  <2> QED
    BY <1>2, <1>3, PositiveProduct
<1>5. m2 \in Nat \ {0}
  <2> HIDE DEF m3
  <2> QED
    BY <1>2, <1>4, PositiveProduct
<1>6. Upper4(n, c) \in Nat /\ Upper4(n, c) <= m4 - 1
  BY <1>2, Digits DEF Upper4
<1>7. Upper3(n, c) \in Nat /\ Upper3(n, c) <= m3 - 1
  <2> HIDE DEF m4
  <2> QED
    BY <1>2, <1>3, <1>6, Digits DEF Upper3
<1>8. Upper2(n, c) \in Nat /\ Upper2(n, c) <= m2 - 1
  <2> HIDE DEF m3
  <2> QED
    BY <1>2, <1>4, <1>7, Digits DEF Upper2
<1>9. LinearAddressAt(n, c) = c["x"] + n["x"] * Upper2(n, c)
  BY DEF LinearAddressAt, Upper2, Upper3, Upper4
<1>10. LinearAddressAt(n, c) \in Nat /\ LinearAddressAt(n, c) <= n["x"] * m2 - 1
  <2> HIDE DEF m2
  <2> QED
    BY <1>2, <1>5, <1>8, <1>9, Digits
<1>11. NumElements(n) = n["x"] * m2
  BY <1>2 DEF NumElements
<1>12. NumElements(n) \in Nat
  <2> HIDE DEF m2
  <2> QED
    BY <1>2, <1>5, <1>11
<1> HIDE DEF m4, m3, m2
<1>13. /\ Upper4(n, c) \in 0 .. m4 - 1 /\ Upper3(n, c) \in 0 .. m3 - 1
       /\ Upper2(n, c) \in 0 .. m2 - 1 /\ LinearAddressAt(n, c) \in 0 .. NumElements(n) - 1
  BY <1>3, <1>4, <1>5, <1>6, <1>7, <1>8, <1>10, <1>11, <1>12
<1> QED
  BY <1>1, <1>9, <1>13 DEF m4, m3, m2

\* No two turns of the loops store their chunk in the same slot.
LEMMA AddressesDiffer ==
  ASSUME NEW n \in [DimSet -> Nat \ {0}], NEW c \in Below(n), NEW e \in Below(n),
         LinearAddressAt(n, c) = LinearAddressAt(n, e)
  PROVE  c = e
<1>1. /\ Upper4(n, c) \in Nat /\ Upper3(n, c) \in Nat /\ Upper2(n, c) \in Nat
      /\ Upper4(n, e) \in Nat /\ Upper3(n, e) \in Nat /\ Upper2(n, e) \in Nat
      /\ LinearAddressAt(n, c) = c["x"] + n["x"] * Upper2(n, c)
      /\ LinearAddressAt(n, e) = e["x"] + n["x"] * Upper2(n, e)
  BY Addresses
<1>2. \A d \in DimSet : n[d] \in Nat \ {0} /\ c[d] \in 0 .. n[d] - 1 /\ e[d] \in 0 .. n[d] - 1
  BY Addresses
<1>3. c["x"] = e["x"] /\ Upper2(n, c) = Upper2(n, e)
  <2>1. c["x"] + n["x"] * Upper2(n, c) = e["x"] + n["x"] * Upper2(n, e)
    BY <1>1
  <2>2. /\ n["x"] \in Nat \ {0} /\ Upper2(n, c) \in Nat /\ Upper2(n, e) \in Nat
        /\ c["x"] \in 0 .. n["x"] - 1 /\ e["x"] \in 0 .. n["x"] - 1
    BY <1>1, <1>2 DEF DimSet, Axis
  <2> DEFINE r == n["x"]
             a == c["x"]
             b == e["x"]
             p == Upper2(n, c)
             q == Upper2(n, e)
  <2>3. /\ a + r * p = b + r * q /\ r \in Nat \ {0} /\ p \in Nat /\ q \in Nat
        /\ a \in 0 .. r - 1 /\ b \in 0 .. r - 1
    BY <2>1, <2>2
  <2> HIDE DEF r, a, b, p, q
  <2>4. a = b /\ p = q
    BY <2>3, DigitsDiffer
  <2> QED
    BY <2>4 DEF a, b, p, q
<1>4. c["y"] = e["y"] /\ Upper3(n, c) = Upper3(n, e)
  <2>1. c["y"] + n["y"] * Upper3(n, c) = e["y"] + n["y"] * Upper3(n, e)
    BY <1>3 DEF Upper2
  <2>2. /\ n["y"] \in Nat \ {0} /\ Upper3(n, c) \in Nat /\ Upper3(n, e) \in Nat
        /\ c["y"] \in 0 .. n["y"] - 1 /\ e["y"] \in 0 .. n["y"] - 1
    BY <1>1, <1>2 DEF DimSet, Axis
  <2> DEFINE r == n["y"]
             a == c["y"]
             b == e["y"]
             p == Upper3(n, c)
             q == Upper3(n, e)
  <2>3. /\ a + r * p = b + r * q /\ r \in Nat \ {0} /\ p \in Nat /\ q \in Nat
        /\ a \in 0 .. r - 1 /\ b \in 0 .. r - 1
    BY <2>1, <2>2
  <2> HIDE DEF r, a, b, p, q
  <2>4. a = b /\ p = q
    BY <2>3, DigitsDiffer
  <2> QED
    BY <2>4 DEF a, b, p, q
<1>5. c["z"] = e["z"] /\ Upper4(n, c) = Upper4(n, e)
  <2>1. c["z"] + n["z"] * Upper4(n, c) = e["z"] + n["z"] * Upper4(n, e)
    BY <1>4 DEF Upper3
  <2>2. /\ n["z"] \in Nat \ {0} /\ Upper4(n, c) \in Nat /\ Upper4(n, e) \in Nat
        /\ c["z"] \in 0 .. n["z"] - 1 /\ e["z"] \in 0 .. n["z"] - 1
    BY <1>1, <1>2 DEF DimSet, Axis
  <2> DEFINE r == n["z"]
             a == c["z"]
             b == e["z"]
             p == Upper4(n, c)
             q == Upper4(n, e)
  <2>3. /\ a + r * p = b + r * q /\ r \in Nat \ {0} /\ p \in Nat /\ q \in Nat
        /\ a \in 0 .. r - 1 /\ b \in 0 .. r - 1
    BY <2>1, <2>2
  <2> HIDE DEF r, a, b, p, q
  <2>4. a = b /\ p = q
    BY <2>3, DigitsDiffer
  <2> QED
    BY <2>4 DEF a, b, p, q
<1>6. c["chan"] = e["chan"] /\ c["frame"] = e["frame"]
  <2>1. c["chan"] + n["chan"] * c["frame"] = e["chan"] + n["chan"] * e["frame"]
    BY <1>5 DEF Upper4
  <2>2. /\ n["chan"] \in Nat \ {0} /\ c["frame"] \in Nat /\ e["frame"] \in Nat
        /\ c["chan"] \in 0 .. n["chan"] - 1 /\ e["chan"] \in 0 .. n["chan"] - 1
    BY <1>1, <1>2 DEF DimSet, Axis
  <2> DEFINE r == n["chan"]
             a == c["chan"]
             b == e["chan"]
             p == c["frame"]
             q == e["frame"]
  <2>3. /\ a + r * p = b + r * q /\ r \in Nat \ {0} /\ p \in Nat /\ q \in Nat
        /\ a \in 0 .. r - 1 /\ b \in 0 .. r - 1
    BY <2>1, <2>2
  <2> HIDE DEF r, a, b, p, q
  <2>4. a = b /\ p = q
    BY <2>3, DigitsDiffer
  <2> QED
    BY <2>4 DEF a, b, p, q
<1>7. \A d \in DimSet : c[d] = e[d]
  BY <1>3, <1>4, <1>5, <1>6 DEF DimSet, Axis
<1> QED
  BY <1>7 DEF Below

\* The turn after the last one of the inner loops has the next address.
LEMMA NextAddress ==
  ASSUME NEW n \in [DimSet -> Nat \ {0}], NEW c \in Below(n), NEW i \in 1 .. 5,
         c[Dim[i]] + 1 < n[Dim[i]], \A j \in 1 .. i - 1 : ~ (c[Dim[j]] + 1 < n[Dim[j]])
  PROVE  /\ NextCounters(c, i) \in Below(n)
         /\ LinearAddressAt(n, NextCounters(c, i)) = LinearAddressAt(n, c) + 1
<1> DEFINE e == NextCounters(c, i)
<1>1. \A d \in DimSet : n[d] \in Nat \ {0} /\ c[d] \in 0 .. n[d] - 1
  BY Addresses
<1>2. /\ Upper4(n, c) \in Nat /\ Upper3(n, c) \in Nat /\ Upper2(n, c) \in Nat
      /\ LinearAddressAt(n, c) = c["x"] + n["x"] * Upper2(n, c)
  BY Addresses
<1>3. \A d \in DimSet : e[d] = IF d = Dim[i] THEN c[d] + 1
                              ELSE IF \E j \in 1 .. i - 1 : d = Dim[j] THEN 0 ELSE c[d]
  BY DEF NextCounters
<1>4. e \in Below(n)
  <2>1. \A d \in DimSet : e[d] \in Nat /\ e[d] < n[d]
    BY <1>1, <1>3 DEF Dim
  <2>2. e \in [DimSet -> Nat]
    BY <2>1 DEF NextCounters
  <2> QED
    BY <2>1, <2>2 DEF Below
<1>5. LinearAddressAt(n, e) = e["x"] + n["x"] * Upper2(n, e)
  BY <1>4, Addresses
<1>6. Dim[1] = "x" /\ Dim[2] = "y" /\ Dim[3] = "z" /\ Dim[4] = "chan" /\ Dim[5] = "frame"
  BY DEF Dim
<1>7. \A j \in 1 .. i - 1 : c[Dim[j]] = n[Dim[j]] - 1
  BY <1>1, <1>6 DEF DimSet, Axis
<1>8. CASE i = 1
  <2>1. e["x"] = c["x"] + 1 /\ \A d \in DimSet \ {"x"} : e[d] = c[d]
    BY <1>3, <1>6, <1>8 DEF DimSet, Axis
  <2>2. Upper2(n, e) = Upper2(n, c)
    BY <2>1 DEF Upper2, Upper3, Upper4, DimSet, Axis
  <2>3. n["x"] * Upper2(n, c) \in Nat /\ c["x"] \in Nat
    BY <1>1, <1>2 DEF DimSet, Axis
  <2> QED
    BY <1>2, <1>4, <1>5, <2>1, <2>2, <2>3
<1>9. CASE i # 1
  <2>1. c["x"] = n["x"] - 1 /\ e["x"] = 0
    BY <1>3, <1>6, <1>7, <1>9 DEF DimSet, Axis
  <2>2. Upper2(n, e) = Upper2(n, c) + 1
    <3>1. CASE i = 2
      <4>1. e["y"] = c["y"] + 1 /\ \A d \in DimSet \ {"x", "y"} : e[d] = c[d]
        BY <1>3, <1>6, <3>1 DEF DimSet, Axis
      <4>2. Upper3(n, e) = Upper3(n, c)
        BY <4>1 DEF Upper3, Upper4, DimSet, Axis
      <4>3. n["y"] * Upper3(n, c) \in Nat /\ c["y"] \in Nat
        BY <1>1, <1>2 DEF DimSet, Axis
      <4> QED
        BY <4>1, <4>2, <4>3 DEF Upper2
    <3>2. CASE i # 2
      <4>1. c["y"] = n["y"] - 1 /\ e["y"] = 0
        BY <1>3, <1>6, <1>7, <1>9, <3>2 DEF DimSet, Axis
      <4>2. Upper3(n, e) = Upper3(n, c) + 1
        <5>1. CASE i = 3
          <6>1. e["z"] = c["z"] + 1 /\ \A d \in DimSet \ {"x", "y", "z"} : e[d] = c[d]
            BY <1>3, <1>6, <5>1 DEF DimSet, Axis
          <6>2. Upper4(n, e) = Upper4(n, c)
            BY <6>1 DEF Upper4, DimSet, Axis
          <6>3. n["z"] * Upper4(n, c) \in Nat /\ c["z"] \in Nat
            BY <1>1, <1>2 DEF DimSet, Axis
          <6> QED
            BY <6>1, <6>2, <6>3 DEF Upper3
        <5>2. CASE i # 3
          <6>1. c["z"] = n["z"] - 1 /\ e["z"] = 0
            BY <1>3, <1>6, <1>7, <1>9, <3>2, <5>2 DEF DimSet, Axis
          <6>2. Upper4(n, e) = Upper4(n, c) + 1
            <7>1. CASE i = 4
              <8>1. e["chan"] = c["chan"] + 1 /\ e["frame"] = c["frame"]
                BY <1>3, <1>6, <7>1 DEF DimSet, Axis
              <8>2. n["chan"] * c["frame"] \in Nat /\ c["chan"] \in Nat
                BY <1>1 DEF DimSet, Axis
              <8> QED
                BY <8>1, <8>2 DEF Upper4
            <7>2. CASE i = 5
              <8>1. /\ c["chan"] = n["chan"] - 1 /\ e["chan"] = 0
                    /\ e["frame"] = c["frame"] + 1
                BY <1>3, <1>6, <1>7, <7>2 DEF DimSet, Axis
              <8> QED
                BY <1>1, <8>1, Digits DEF Upper4, DimSet, Axis
            <7> QED
              BY <1>9, <3>2, <5>2, <7>1, <7>2
          <6> QED
            BY <1>1, <1>2, <6>1, <6>2, Digits DEF Upper3, DimSet, Axis
        <5> QED
          BY <5>1, <5>2
      <4> QED
        BY <1>1, <1>2, <4>1, <4>2, Digits DEF Upper2, DimSet, Axis
    <3> QED
      BY <3>1, <3>2
  <2> QED
    BY <1>1, <1>2, <1>4, <1>5, <2>1, <2>2, Digits DEF DimSet, Axis
<1> QED
  BY <1>8, <1>9

\* The last turn has the last slot.
LEMMA LastAddress ==
  ASSUME NEW n \in [DimSet -> Nat \ {0}], NEW c \in Below(n),
         \A i \in 1 .. 5 : ~ (c[Dim[i]] + 1 < n[Dim[i]])
  PROVE  LinearAddressAt(n, c) = NumElements(n) - 1
<1> DEFINE m4 == n["chan"] * n["frame"]
           m3 == n["z"] * m4
           m2 == n["y"] * m3
<1>1. \A d \in DimSet : n[d] \in Nat \ {0} /\ c[d] \in 0 .. n[d] - 1
  BY Addresses
<1>2. Dim[1] = "x" /\ Dim[2] = "y" /\ Dim[3] = "z" /\ Dim[4] = "chan" /\ Dim[5] = "frame"
  BY DEF Dim
<1>3. \A d \in DimSet : c[d] = n[d] - 1
  BY <1>1, <1>2 DEF DimSet, Axis
<1>4. /\ n["x"] \in Nat \ {0} /\ c["x"] = n["x"] - 1
      /\ n["y"] \in Nat \ {0} /\ c["y"] = n["y"] - 1
      /\ n["z"] \in Nat \ {0} /\ c["z"] = n["z"] - 1
      /\ n["chan"] \in Nat \ {0} /\ c["chan"] = n["chan"] - 1
      /\ n["frame"] \in Nat \ {0} /\ c["frame"] = n["frame"] - 1
  BY <1>1, <1>3 DEF DimSet, Axis
<1>5. m4 \in Nat \ {0}
  BY <1>4, PositiveProduct
<1>6. m3 \in Nat \ {0}
  <2> HIDE DEF m4
  <2> QED
    BY <1>4, <1>5, PositiveProduct
<1>7. m2 \in Nat \ {0}
  <2> HIDE DEF m3
  <2> QED
    BY <1>4, <1>6, PositiveProduct
<1>8. Upper4(n, c) = m4 - 1
  BY <1>4, Digits DEF Upper4
<1>9. Upper3(n, c) = m3 - 1
  <2> HIDE DEF m4
  <2> QED
    BY <1>4, <1>5, <1>8, Digits DEF Upper3
<1>10. Upper2(n, c) = m2 - 1
  <2> HIDE DEF m3
  <2> QED
    BY <1>4, <1>6, <1>9, Digits DEF Upper2
<1>11. LinearAddressAt(n, c) = n["x"] * m2 - 1
  <2>1. LinearAddressAt(n, c) = c["x"] + n["x"] * Upper2(n, c)
    BY Addresses
  <2> HIDE DEF m2
  <2> QED
    BY <1>4, <1>7, <1>10, <2>1, Digits
<1>12. NumElements(n) = n["x"] * m2
  BY <1>4 DEF NumElements
<1> QED
  BY <1>11, <1>12
-----------------------------------------------------------------------------
(***************************************************************************)
(* calculateChunking                                                       *)
(***************************************************************************)
Counters == Below(numChunks)
Slot(c) == LinearAddressAt(numChunks, c)

\* Before the loops there is no slot.  In them, the slots before that of the counters hold
\* the chunks of the turns before, and the others none.  After them every slot holds the
\* chunk of its turn.
FillInv ==
  /\ pc \in {"order", "split", "rest", "chunk", "fault", "undefined", "fill", "size", "done"}
  /\ pc \notin {"fill", "size", "done"} =>
       DOMAIN localChunks = {} /\ curChunk = [d \in DimSet |-> 0]
  /\ pc \in {"fill", "size", "done"} =>
       /\ WellDefined(im, deviceDims, kern)
       /\ DOMAIN localChunks = 0 .. NumElements(numChunks) - 1
  /\ pc = "fill" =>
       /\ curChunk \in Counters
       /\ \A c \in Counters : Slot(c) < Slot(curChunk) => localChunks[Slot(c)] = ChunkAt(c)
       /\ \A s \in DOMAIN localChunks :
            IF s < Slot(curChunk) THEN \E c \in Counters : s = Slot(c)
            ELSE localChunks[s] = NoChunk
  /\ pc \in {"size", "done"} =>
       /\ \A c \in Counters : localChunks[Slot(c)] = ChunkAt(c)
       /\ \A s \in DOMAIN localChunks : \E c \in Counters : s = Slot(c)

\* When the number of chunks is defined, it and the steps are positive, and an axis has as
\* many chunks as it takes to go through it with its step.
LEMMA Steps ==
  ASSUME ArgsOK, deviceDims \in [Axis -> Int], WellDefined(im, deviceDims, kern)
  PROVE  /\ numChunks \in [DimSet -> Nat \ {0}]
         /\ \A a \in Axis : /\ im[a] \in Nat \ {0} /\ chunkDelta[a] \in Nat \ {0}
                            /\ kern[a] \in Nat \ {0}
                            /\ numChunks[a] = CeilDiv(im[a], chunkDelta[a])
         /\ numChunks["chan"] = im["chan"] /\ numChunks["frame"] = im["frame"]
<1>1. \A a \in Axis : im[a] \in Nat \ {0} /\ kern[a] \in Nat \ {0} /\ deviceDims[a] \in Int
  BY DEF ArgsOK, DimSet
<1>2. ASSUME NEW a \in Axis
      PROVE  /\ chunkDelta[a] \in Nat \ {0}
             /\ numChunks[a] = CeilDiv(im[a], chunkDelta[a])
             /\ numChunks[a] \in Nat \ {0}
  <2>1. numChunks[a] = NumChunks(im, deviceDims, kern)[a]
    BY DEF numChunks, DimSet
  <2>2. CASE IsCut(im[a], deviceDims[a])
    <3>1. DeviceDelta(deviceDims, kern)[a] \in Nat
      <4>1. Margin(kern[a]) \in Int
        BY <1>1 DEF Margin
      <4>2. deviceDims[a] - 2 * Margin(kern[a]) \in Int
        BY <1>1, <4>1
      <4>3. Room(deviceDims[a], kern[a]) \in Nat
        BY <4>2, SizeModAssumption DEF Room
      <4> QED
        BY <4>3 DEF DeviceDelta
    <3>2. DeviceDelta(deviceDims, kern)[a] > 0
      BY <2>2 DEF WellDefined
    <3>3. chunkDelta[a] = DeviceDelta(deviceDims, kern)[a]
      BY <2>2 DEF chunkDelta, ChunkDelta
    <3>4. numChunks[a] = CeilDiv(im[a], DeviceDelta(deviceDims, kern)[a])
      BY <2>1, <2>2 DEF NumChunks
    <3>5. chunkDelta[a] \in Nat \ {0}
      BY <3>1, <3>2, <3>3
    <3> QED
      BY <1>1, <3>3, <3>4, <3>5, CeilDivBounds
  <2>3. CASE ~ IsCut(im[a], deviceDims[a])
    <3>1. chunkDelta[a] = im[a] /\ numChunks[a] = 1
      BY <2>1, <2>3 DEF chunkDelta, ChunkDelta, NumChunks
    <3>2. CeilDiv(im[a], im[a]) = 1
      <4> DEFINE n == im[a]
      <4>1. n \in Nat \ {0}
        BY <1>1
      <4> HIDE DEF n
      <4>2. (n + n - 1) \div n = 1
        BY <4>1
      <4> QED
        BY <4>2 DEF n, CeilDiv
    <3> QED
      BY <1>1, <3>1, <3>2
  <2> QED
    BY <2>2, <2>3
<1>3. /\ numChunks["chan"] = im["chan"] /\ numChunks["frame"] = im["frame"]
      /\ im["chan"] \in Nat \ {0} /\ im["frame"] \in Nat \ {0}
  BY DEF numChunks, DimSet, Axis, ArgsOK
<1>4. \A d \in DimSet : numChunks[d] \in Nat \ {0}
  BY <1>2, <1>3 DEF DimSet
<1>5. numChunks \in [DimSet -> Nat \ {0}]
  <2>1. numChunks = [d \in DimSet |-> numChunks[d]]
    BY DEF numChunks
  <2> QED
    BY <1>4, <2>1
<1> QED
  BY <1>1, <1>2, <1>3, <1>5

\* A chunk of the loops is a chunk.
LEMMA ChunkAtIs ==
  ASSUME ArgsOK, deviceDims \in [Axis -> Int], WellDefined(im, deviceDims, kern),
         NEW c \in Counters
  PROVE  /\ \A a \in Axis : c[a] \in 0 .. CeilDiv(im[a], chunkDelta[a]) - 1
         /\ ChunkAt(c) \in Chunk
         /\ ChunkAt(c) # NoChunk
<1>1. \A d \in DimSet : c[d] \in Nat /\ c[d] < numChunks[d]
  BY DEF Counters, Below
<1>2. \A a \in Axis : /\ im[a] \in Nat \ {0} /\ chunkDelta[a] \in Nat \ {0}
                      /\ kern[a] \in Nat \ {0}
                      /\ numChunks[a] = CeilDiv(im[a], chunkDelta[a])
                      /\ numChunks[a] \in Nat \ {0}
  BY Steps DEF DimSet
<1>3. \A a \in Axis : c[a] \in 0 .. CeilDiv(im[a], chunkDelta[a]) - 1
  BY <1>1, <1>2 DEF DimSet
<1>4. ASSUME NEW a \in Axis
      PROVE  /\ ImageROIStart(chunkDelta[a], c[a]) \in Int
             /\ ImageROIEnd(im[a], chunkDelta[a], c[a]) \in Int
             /\ ImageStart(chunkDelta[a], Margin(kern[a]), c[a]) \in Int
             /\ ImageEnd(im[a], chunkDelta[a], Margin(kern[a]), c[a]) \in Int
  <2>1. chunkDelta[a] * c[a] \in Int /\ Margin(kern[a]) \in Int /\ chunkDelta[a] \in Int
        /\ im[a] \in Int
    BY <1>2, <1>3 DEF Margin
  <2> QED
    BY <2>1 DEF ImageROIStart, ImageROIEnd, ImageStart, ImageEnd, Least, Greatest
<1>5. c["chan"] \in Nat /\ c["frame"] \in Nat
  BY <1>1 DEF DimSet
<1>6. ChunkAt(c) \in Chunk
  BY <1>4, <1>5 DEF ChunkAt, Chunk
<1> QED
  BY <1>3, <1>6, NoChunkAssumption

\* What the loops are over does not change while the extents do not.
LEMMA SameLoops ==
  ASSUME UNCHANGED <<im, kern, deviceDims>>
  PROVE  /\ numChunks' = numChunks /\ Counters' = Counters
         /\ WellDefined(im, deviceDims, kern)' = WellDefined(im, deviceDims, kern)
         /\ \A c : Slot(c)' = Slot(c) /\ ChunkAt(c)' = ChunkAt(c)
<1>1. numChunks' = numChunks /\ chunkDelta' = chunkDelta
  BY DEF numChunks, chunkDelta
<1> QED
  BY <1>1 DEF Counters, Slot, ChunkAt

\* The list of chunks has a slot for each set of counters.
LEMMA ResizeKeeps ==
  ASSUME SizingInv, FillInv, Resize
  PROVE  FillInv'
<1>1. pc = "chunk" /\ UNCHANGED <<im, kern, numVoxels, order, deviceDims, curChunk, maxDeviceDims>>
  BY DEF Resize
<1>2. DOMAIN localChunks = {} /\ curChunk = [d \in DimSet |-> 0]
  BY <1>1 DEF FillInv
<1>3. CASE WellDefined(im, deviceDims, kern)
  <2>1. /\ pc' = "fill"
        /\ localChunks' = [s \in 0 .. NumElements(numChunks) - 1 |-> NoChunk]
    BY <1>3 DEF Resize
  <2>2. numChunks \in [DimSet -> Nat \ {0}]
    BY <1>3, Steps DEF SizingInv
  <2>3. curChunk \in Counters /\ \A c \in Counters : Slot(c) \in Nat
    <3>1. \A d \in DimSet : numChunks[d] \in Nat \ {0}
      BY <2>2
    <3>2. curChunk \in Counters
      BY <1>2, <3>1 DEF Counters, Below
    <3> QED
      BY <2>2, <3>2, Addresses DEF Counters, Slot
  <2>4. Slot(curChunk) = 0
    <3>1. \A d \in DimSet : numChunks[d] \in Nat /\ curChunk[d] = 0
      BY <1>2, <2>2
    <3>2. Slot(curChunk) = 0 + numChunks["x"] * (0 + numChunks["y"] * (0 + numChunks["z"] * (0 + numChunks["chan"] * 0)))
      BY <3>1 DEF Slot, LinearAddressAt, DimSet, Axis
    <3> QED
      BY <3>1, <3>2 DEF DimSet, Axis
  <2>5. /\ DOMAIN localChunks' = 0 .. NumElements(numChunks) - 1
        /\ \A s \in DOMAIN localChunks' : s \in Nat /\ localChunks'[s] = NoChunk
    BY <2>1
  <2>6. /\ numChunks' = numChunks /\ Counters' = Counters /\ curChunk' = curChunk
        /\ WellDefined(im, deviceDims, kern)'
        /\ \A c : Slot(c)' = Slot(c) /\ ChunkAt(c)' = ChunkAt(c)
    BY <1>1, <1>3, SameLoops
  <2>7. Slot(curChunk)' = 0
    BY <2>4, <2>6
  <2>8. \A c \in Counters' : ~ (Slot(c)' < 0)
    BY <2>3, <2>6
  <2> QED
    BY <2>1, <2>3, <2>5, <2>6, <2>7, <2>8 DEF FillInv
<1>4. CASE ~ WellDefined(im, deviceDims, kern)
  <2>1. pc' = "undefined" /\ localChunks' = localChunks
    BY <1>4 DEF Resize
  <2> QED
    BY <1>1, <1>2, <2>1 DEF FillInv
<1> QED
  BY <1>3, <1>4

\* A turn of the five loops fills the slot of its counters, and no other.
LEMMA FillKeeps ==
  ASSUME SizingInv, FillInv, Fill
  PROVE  FillInv'
<1> DEFINE here == Slot(curChunk)
<1>1. /\ pc = "fill" /\ Advance
      /\ localChunks' = [localChunks EXCEPT ![here] = ChunkAt(curChunk)]
      /\ UNCHANGED <<im, kern, numVoxels, order, deviceDims, maxDeviceDims>>
  BY DEF Fill, Slot
<1>2. /\ WellDefined(im, deviceDims, kern)
      /\ DOMAIN localChunks = 0 .. NumElements(numChunks) - 1
      /\ curChunk \in Counters
      /\ \A c \in Counters : Slot(c) < here => localChunks[Slot(c)] = ChunkAt(c)
      /\ \A s \in DOMAIN localChunks :
           IF s < here THEN \E c \in Counters : s = Slot(c) ELSE localChunks[s] = NoChunk
  BY <1>1 DEF FillInv
<1>3. numChunks \in [DimSet -> Nat \ {0}]
  BY <1>2, Steps DEF SizingInv
<1>4. \A c \in Counters : Slot(c) \in DOMAIN localChunks /\ Slot(c) \in Nat
  BY <1>2, <1>3, Addresses DEF Counters, Slot
<1>5. \A c \in Counters : Slot(c) = here => c = curChunk
  BY <1>2, <1>3, AddressesDiffer DEF Counters, Slot
<1>6. /\ numChunks' = numChunks /\ Counters' = Counters
      /\ WellDefined(im, deviceDims, kern)'
      /\ \A c : Slot(c)' = Slot(c) /\ ChunkAt(c)' = ChunkAt(c)
  BY <1>1, <1>2, SameLoops
<1>7. /\ DOMAIN localChunks' = DOMAIN localChunks
      /\ localChunks'[here] = ChunkAt(curChunk)
      /\ \A s \in DOMAIN localChunks : s # here => localChunks'[s] = localChunks[s]
  BY <1>1, <1>2, <1>4
<1>8. \A c \in Counters : Slot(c) < here + 1 => localChunks'[Slot(c)] = ChunkAt(c)
  <2> SUFFICES ASSUME NEW c \in Counters, Slot(c) < here + 1
               PROVE  localChunks'[Slot(c)] = ChunkAt(c)
    OBVIOUS
  <2>1. Slot(c) = here \/ Slot(c) < here
    BY <1>2, <1>4
  <2> QED
    BY <1>2, <1>4, <1>5, <1>7, <2>1
<1>9. ASSUME NEW s \in DOMAIN localChunks
      PROVE  IF s < here + 1 THEN \E c \in Counters : s = Slot(c) ELSE localChunks'[s] = NoChunk
  <2>1. s \in Nat /\ here \in Nat
    BY <1>2, <1>4
  <2>2. CASE s = here
    BY <1>2, <2>1, <2>2
  <2>3. CASE s # here
    BY <1>2, <1>7, <2>1, <2>3
  <2> QED
    BY <2>2, <2>3
<1> DEFINE more == {i \in DOMAIN Dim : curChunk[Dim[i]] + 1 < numChunks[Dim[i]]}
<1>10. DOMAIN Dim = 1 .. 5
  BY DEF Dim
<1>11. CASE more = {}
  <2>1. pc' = "size"
    BY <1>1, <1>11 DEF Advance
  <2>2. here = NumElements(numChunks) - 1
    BY <1>2, <1>3, <1>10, <1>11, LastAddress DEF Counters, Slot
  <2>3. \A s \in DOMAIN localChunks : s < here + 1
    <3>1. here \in Nat
      BY <1>2, <1>4
    <3> QED
      BY <1>2, <2>2, <3>1
  <2>4. \A c \in Counters : localChunks'[Slot(c)] = ChunkAt(c)
    BY <1>4, <1>8, <2>3
  <2>5. \A s \in DOMAIN localChunks : \E c \in Counters : s = Slot(c)
    BY <1>9, <2>3
  <2>6. DOMAIN localChunks' = 0 .. NumElements(numChunks') - 1
    BY <1>2, <1>6, <1>7
  <2> QED
    BY <1>6, <1>7, <2>1, <2>4, <2>5, <2>6 DEF FillInv
<1>12. CASE more # {}
  <2>1. /\ pc' = pc
        /\ \E i \in more : /\ \A j \in more : i <= j
                           /\ curChunk' = NextCounters(curChunk, i)
    BY <1>1, <1>12 DEF Advance
  <2>2. PICK i \in more : /\ \A j \in more : i <= j
                          /\ curChunk' = NextCounters(curChunk, i)
    BY <2>1
  <2>3. /\ i \in 1 .. 5 /\ curChunk[Dim[i]] + 1 < numChunks[Dim[i]]
        /\ \A j \in 1 .. i - 1 : ~ (curChunk[Dim[j]] + 1 < numChunks[Dim[j]])
    BY <1>10, <2>2
  <2>4. /\ curChunk' \in Counters
        /\ Slot(curChunk') = here + 1
    BY <1>2, <1>3, <2>2, <2>3, NextAddress DEF Counters, Slot
  <2>5. Slot(curChunk)' = here + 1
    BY <1>6, <2>4 DEF Slot
  <2>6. DOMAIN localChunks' = 0 .. NumElements(numChunks') - 1
    BY <1>2, <1>6, <1>7
  <2>7. pc' = "fill"
    BY <1>1, <2>1
  <2>8. \A c \in Counters' : Slot(c)' < Slot(curChunk)' => localChunks'[Slot(c)'] = ChunkAt(c)'
    BY <1>6, <1>8, <2>5
  <2>9. \A s \in DOMAIN localChunks' :
          IF s < Slot(curChunk)' THEN \E c \in Counters' : s = Slot(c)'
          ELSE localChunks'[s] = NoChunk
    BY <1>6, <1>7, <1>9, <2>5
  <2> HIDE DEF here, more
  <2> QED
    BY <1>6, <2>4, <2>6, <2>7, <2>8, <2>9 DEF FillInv
<1> QED
  BY <1>11, <1>12

\* The result of setMaxDeviceDims is no smaller than any chunk, and along an axis is as
\* large as one of them.
MaxInv ==
  pc = "done" =>
    \A a \in Axis : /\ maxDeviceDims[a] \in Nat
                    /\ \A ch \in Filled : ChunkSize(ch)[a] \in 0 .. maxDeviceDims[a]
                    /\ \E ch \in Filled : ChunkSize(ch)[a] = maxDeviceDims[a]

ChunkingInv == SizingInv /\ VolumeInv /\ FillInv /\ MaxInv

\* A chunk that has been stored is that of some turn of the loops.
LEMMA FilledChunks ==
  ASSUME SizingInv, FillInv, NEW ch \in Filled
  PROVE  /\ WellDefined(im, deviceDims, kern)
         /\ \E c \in Counters : ch = ChunkAt(c)
<1>1. PICK s \in DOMAIN localChunks : ch = localChunks[s] /\ ch # NoChunk
  BY DEF Filled
<1>2. pc \in {"fill", "size", "done"} /\ WellDefined(im, deviceDims, kern)
  BY <1>1 DEF FillInv
<1>3. CASE pc = "fill"
  <2>1. PICK c \in Counters : s < Slot(curChunk) /\ s = Slot(c)
    BY <1>1, <1>3 DEF FillInv
  <2> QED
    BY <1>1, <1>2, <1>3, <2>1 DEF FillInv
<1>4. CASE pc \in {"size", "done"}
  <2>1. PICK c \in Counters : s = Slot(c)
    BY <1>1, <1>4 DEF FillInv
  <2> QED
    BY <1>1, <1>2, <1>4, <2>1 DEF FillInv
<1> QED
  BY <1>2, <1>3, <1>4

\* A chunk of the loops along an axis, in terms of the geometry.
LEMMA ChunkAlong ==
  ASSUME SizingInv, FillInv, NEW ch \in Filled, NEW a \in Axis
  PROVE  \E i \in 0 .. CeilDiv(im[a], chunkDelta[a]) - 1 :
           /\ im[a] \in Nat \ {0} /\ chunkDelta[a] \in Nat \ {0} /\ kern[a] \in Nat \ {0}
           /\ Margin(kern[a]) \in Nat
           /\ ch.imageROIstart[a] = ImageROIStart(chunkDelta[a], i)
           /\ ch.imageROIend[a] = ImageROIEnd(im[a], chunkDelta[a], i)
           /\ ch.imageStart[a] = ImageStart(chunkDelta[a], Margin(kern[a]), i)
           /\ ch.imageEnd[a] = ImageEnd(im[a], chunkDelta[a], Margin(kern[a]), i)
           /\ ChunkSize(ch)[a] = FullChunkSize(im[a], chunkDelta[a], Margin(kern[a]), i)
<1>1. WellDefined(im, deviceDims, kern) /\ \E c \in Counters : ch = ChunkAt(c)
  BY FilledChunks
<1>2. PICK c \in Counters : ch = ChunkAt(c)
  BY <1>1
<1>3. c[a] \in 0 .. CeilDiv(im[a], chunkDelta[a]) - 1
  BY <1>1, ChunkAtIs DEF SizingInv
<1>4. im[a] \in Nat \ {0} /\ chunkDelta[a] \in Nat \ {0} /\ kern[a] \in Nat \ {0}
  BY <1>1, Steps DEF SizingInv
<1>5. Margin(kern[a]) \in Nat
  BY <1>4 DEF Margin
<1>6. /\ ch.imageROIstart[a] = ImageROIStart(chunkDelta[a], c[a])
      /\ ch.imageROIend[a] = ImageROIEnd(im[a], chunkDelta[a], c[a])
      /\ ch.imageStart[a] = ImageStart(chunkDelta[a], Margin(kern[a]), c[a])
      /\ ch.imageEnd[a] = ImageEnd(im[a], chunkDelta[a], Margin(kern[a]), c[a])
  BY <1>2 DEF ChunkAt
<1>7. ChunkSize(ch)[a] = FullChunkSize(im[a], chunkDelta[a], Margin(kern[a]), c[a])
  BY <1>6 DEF ChunkSize, FullChunkSize
<1> QED
  BY <1>3, <1>4, <1>5, <1>6, <1>7

\* A chunk is not larger than the image, nor by more than a plane than its step and margins.
LEMMA ChunkSizes ==
  ASSUME SizingInv, FillInv, NEW ch \in Filled, NEW a \in Axis
  PROVE  /\ ChunkSize(ch)[a] \in 1 .. im[a]
         /\ ChunkSize(ch)[a] <= chunkDelta[a] + 2 * Margin(kern[a]) + 1
<1> DEFINE n == im[a]
           d == chunkDelta[a]
           m == Margin(kern[a])
<1>1. PICK i \in 0 .. CeilDiv(n, d) - 1 :
        /\ n \in Nat \ {0} /\ d \in Nat \ {0} /\ m \in Nat
        /\ ChunkSize(ch)[a] = FullChunkSize(n, d, m, i)
  BY ChunkAlong
<1> HIDE DEF n, d, m
<1>2. /\ 0 <= ImageStart(d, m, i) /\ ImageStart(d, m, i) <= ImageROIStart(d, i)
      /\ ImageROIStart(d, i) <= ImageROIEnd(n, d, i)
      /\ ImageROIEnd(n, d, i) <= ImageEnd(n, d, m, i) /\ ImageEnd(n, d, m, i) < n
  BY <1>1, ChunkInsideImage
<1>3. FullChunkSize(n, d, m, i) <= d + 2 * m + 1
  BY <1>1, ChunkSizeBound
<1>4. /\ ImageStart(d, m, i) \in Int /\ ImageEnd(n, d, m, i) \in Int
      /\ ImageROIStart(d, i) \in Int /\ ImageROIEnd(n, d, i) \in Int
  <2>1. d * i \in Int
    BY <1>1
  <2> QED
    BY <1>1, <2>1 DEF ImageStart, ImageEnd, ImageROIStart, ImageROIEnd, Least, Greatest
<1>5. FullChunkSize(n, d, m, i) \in 1 .. n
  BY <1>1, <1>2, <1>4 DEF FullChunkSize
<1> QED
  BY <1>1, <1>3, <1>5 DEF n, d, m

\* The buffers are sized for the largest chunk of the full list.
LEMMA SetMaxDeviceDimsKeeps ==
  ASSUME SizingInv, VolumeInv, FillInv, SetMaxDeviceDims
  PROVE  ChunkingInv'
<1>1. pc = "size" /\ pc' = "done"
      /\ UNCHANGED <<im, kern, numVoxels, order, deviceDims, curChunk, localChunks>>
  BY DEF SetMaxDeviceDims
<1>2. SizingInv'
  BY <1>1 DEF SizingInv, ArgsOK, Order
<1>3. FillInv'
  <2>1. /\ numChunks' = numChunks /\ Counters' = Counters
        /\ WellDefined(im, deviceDims, kern)' = WellDefined(im, deviceDims, kern)
        /\ \A c : Slot(c)' = Slot(c) /\ ChunkAt(c)' = ChunkAt(c)
    BY <1>1, SameLoops
  <2> QED
    BY <1>1, <2>1 DEF FillInv
<1>4. /\ \A s \in DOMAIN localChunks : localChunks[s] \in Filled
      /\ \E s \in DOMAIN localChunks : TRUE
  <2>1. /\ WellDefined(im, deviceDims, kern) /\ ArgsOK /\ deviceDims \in [Axis -> Int]
        /\ \A c \in Counters : localChunks[Slot(c)] = ChunkAt(c)
        /\ \A s \in DOMAIN localChunks : \E c \in Counters : s = Slot(c)
        /\ DOMAIN localChunks = 0 .. NumElements(numChunks) - 1
    BY <1>1 DEF FillInv, SizingInv
  <2>2. \A s \in DOMAIN localChunks : localChunks[s] # NoChunk
    BY <2>1, ChunkAtIs
  <2>3. numChunks \in [DimSet -> Nat \ {0}]
    BY <2>1, Steps
  <2>4. [d \in DimSet |-> 0] \in Counters
    BY <2>3 DEF Counters, Below
  <2>5. Slot([d \in DimSet |-> 0]) \in DOMAIN localChunks
    BY <2>1, <2>3, <2>4, Addresses DEF Counters, Slot
  <2> QED
    BY <2>2, <2>5 DEF Filled
<1>5. ASSUME NEW a \in Axis
      PROVE  /\ maxDeviceDims'[a] \in Nat
             /\ \A ch \in Filled : ChunkSize(ch)[a] \in 0 .. maxDeviceDims'[a]
             /\ \E ch \in Filled : ChunkSize(ch)[a] = maxDeviceDims'[a]
  <2> DEFINE sizes == {ChunkSize(localChunks[s])[a] : s \in DOMAIN localChunks}
             T == {im[a] - l : l \in sizes}
  <2>1. maxDeviceDims'[a] = CHOOSE n \in sizes : \A l \in sizes : l <= n
    BY DEF SetMaxDeviceDims
  <2>2. im[a] \in Nat /\ \A l \in sizes : l \in 1 .. im[a]
    BY <1>4, ChunkSizes DEF SizingInv, ArgsOK, DimSet
  <2>3. \E l \in sizes : TRUE
    BY <1>4
  <2>4. /\ \A ch \in Filled : ChunkSize(ch)[a] \in sizes
        /\ \A l \in sizes : \E ch \in Filled : ChunkSize(ch)[a] = l
    BY <1>4 DEF Filled
  <2> HIDE DEF sizes
  <2>5. T \in SUBSET Nat /\ T # {}
    BY <2>2, <2>3
  <2>6. PICK t \in T : \A u \in T : t <= u
    BY <2>5, LeastNumber
  <2>7. PICK n \in sizes : t = im[a] - n
    BY <2>6
  <2>8. \A l \in sizes : l <= n
    <3> SUFFICES ASSUME NEW l \in sizes PROVE l <= n
      OBVIOUS
    <3>1. im[a] - n <= im[a] - l
      BY <2>6, <2>7
    <3>2. im[a] \in Nat /\ n \in Nat /\ l \in Nat
      BY <2>2
    <3> QED
      BY <3>1, <3>2
  <2>9. maxDeviceDims'[a] \in sizes /\ \A l \in sizes : l <= maxDeviceDims'[a]
    BY <2>1, <2>8
  <2> QED
    BY <2>2, <2>4, <2>9
<1>6. Filled' = Filled
  BY <1>1 DEF Filled
<1>7. MaxInv'
  BY <1>5, <1>6 DEF MaxInv, ChunkSize
<1>8. VolumeInv'
  BY <1>1 DEF VolumeInv, Sized, GivenToX, Product
<1> QED
  BY <1>2, <1>3, <1>7, <1>8 DEF ChunkingInv

\* Every step of calculateBuffers, calculateChunking and setMaxDeviceDims keeps what is
\* said of the extents, of the list of chunks as far as it is filled, and of the buffers.
THEOREM ChunkingInvariant == Spec => []ChunkingInv
<1>1. Init => ChunkingInv
  <2> SUFFICES ASSUME Init PROVE ChunkingInv
    OBVIOUS
  <2>1. SizingInv
    BY BufferDimsAssumption DEF Init, SizingInit, SizingInv, ArgsOK
  <2>2. pc = "order" /\ localChunks = <<>> /\ curChunk = [d \in DimSet |-> 0]
    BY DEF Init, SizingInit
  <2>3. DOMAIN localChunks = {}
    BY <2>2
  <2> QED
    BY <2>1, <2>2, <2>3 DEF ChunkingInv, VolumeInv, Sized, FillInv, MaxInv
<1>2. ChunkingInv /\ [Next]_vars => ChunkingInv'
  <2> SUFFICES ASSUME ChunkingInv, [Next]_vars PROVE ChunkingInv'
    OBVIOUS
  <2>1. SizingInv /\ VolumeInv /\ FillInv /\ MaxInv
    BY DEF ChunkingInv
  <2>2. CASE CalculateBuffers /\ UNCHANGED chunkVars
    <3>1. SizingInv'
      BY <2>1, <2>2, ChooseAxesKeeps, SplitKeeps, RestKeeps DEF CalculateBuffers
    <3>2. /\ pc \in {"order", "split", "rest"} /\ pc' \in {"split", "rest", "chunk", "fault"}
          /\ UNCHANGED <<curChunk, localChunks, maxDeviceDims>>
      BY <2>2 DEF CalculateBuffers, ChooseAxes, Split, Rest, chunkVars
    <3>3. VolumeInv'
      BY <2>1, <2>2, RestFits DEF CalculateBuffers, ChooseAxes, Split, VolumeInv, Sized
    <3> QED
      BY <2>1, <3>1, <3>2, <3>3 DEF ChunkingInv, FillInv, MaxInv
  <2>3. CASE Resize
    <3>1. /\ pc' \in {"fill", "undefined"} /\ pc = "chunk"
          /\ UNCHANGED <<im, kern, numVoxels, order, deviceDims>>
      BY <2>3 DEF Resize
    <3>2. VolumeInv'
      BY <2>1, <3>1 DEF VolumeInv, Sized, GivenToX, Product
    <3> QED
      BY <2>1, <2>3, <3>1, <3>2, ResizeKeeps DEF ChunkingInv, MaxInv, SizingInv, ArgsOK, Order
  <2>4. CASE Fill
    <3>1. /\ pc' \in {"fill", "size"} /\ pc = "fill"
          /\ UNCHANGED <<im, kern, numVoxels, order, deviceDims>>
      BY <2>4 DEF Fill, Advance
    <3>2. VolumeInv'
      BY <2>1, <3>1 DEF VolumeInv, Sized, GivenToX, Product
    <3> QED
      BY <2>1, <2>4, <3>1, <3>2, FillKeeps DEF ChunkingInv, MaxInv, SizingInv, ArgsOK, Order
  <2>5. CASE SetMaxDeviceDims
    BY <2>1, <2>5, SetMaxDeviceDimsKeeps
  <2>6. CASE UNCHANGED vars
    <3>1. UNCHANGED <<im, kern, numVoxels, order, deviceDims, pc, curChunk, localChunks, maxDeviceDims>>
      BY <2>6 DEF vars
    <3>2. /\ numChunks' = numChunks /\ Counters' = Counters
          /\ WellDefined(im, deviceDims, kern)' = WellDefined(im, deviceDims, kern)
          /\ \A c : Slot(c)' = Slot(c) /\ ChunkAt(c)' = ChunkAt(c)
      BY <3>1, SameLoops
    <3>3. FillInv'
      BY <2>1, <3>1, <3>2 DEF FillInv
    <3>4. SizingInv'
      BY <2>1, <3>1 DEF SizingInv, ArgsOK, Order, SquareDim
    <3>5. MaxInv'
      BY <2>1, <3>1 DEF MaxInv, Filled, ChunkSize
    <3>6. VolumeInv'
      BY <2>1, <3>1 DEF VolumeInv, Sized, GivenToX, Product
    <3> QED
      BY <3>3, <3>4, <3>5, <3>6 DEF ChunkingInv
  <2> QED
    BY <2>2, <2>3, <2>4, <2>5, <2>6 DEF Next
<1> QED
  BY <1>1, <1>2, PTL DEF Spec
-----------------------------------------------------------------------------
(***************************************************************************)
(* What follows from the invariant                                         *)
(***************************************************************************)
\* A chunk has a region of interest and a sent region that lie in the image: the transfers
\* of CudaImageContainer never leave the host buffer, however the image is cut.
THEOREM ChunksInsideImageHolds == Spec => []ChunksInsideImage
<1>1. ChunkingInv => ChunksInsideImage
  <2> SUFFICES ASSUME ChunkingInv, NEW ch \in Filled, NEW a \in Axis
               PROVE  /\ 0 <= ch.imageStart[a]
                      /\ ch.imageStart[a] <= ch.imageROIstart[a]
                      /\ ch.imageROIstart[a] <= ch.imageROIend[a]
                      /\ ch.imageROIend[a] <= ch.imageEnd[a]
                      /\ ch.imageEnd[a] < im[a]
    BY DEF ChunksInsideImage
  <2>1. SizingInv /\ FillInv
    BY DEF ChunkingInv
  <2> QED
    BY <2>1, ChunkAlong, ChunkInsideImage
<1> QED
  BY <1>1, ChunkingInvariant, PTL

\* What a kernel reads around a voxel of a region of interest is sent to the device with
\* the chunk, for every kernel, even or odd, interpolated or not.
THEOREM NeighbourhoodSentHolds == Spec => []NeighbourhoodSent
<1>1. ChunkingInv => NeighbourhoodSent
  <2> SUFFICES ASSUME ChunkingInv, NEW ch \in Filled, NEW a \in Axis,
                      NEW v \in ch.imageROIstart[a] .. ch.imageROIend[a]
               PROVE  Window(im[a], kern, a, v) \subseteq ch.imageStart[a] .. ch.imageEnd[a]
    BY DEF NeighbourhoodSent
  <2>1. SizingInv /\ FillInv /\ kern \in [Axis -> Nat \ {0}]
    BY DEF ChunkingInv, SizingInv, ArgsOK
  <2> QED
    BY <2>1, ChunkAlong, WindowIsSent
<1> QED
  BY <1>1, ChunkingInvariant, PTL

\* calculateBuffers divides by zero only when a line of the image does not fit.
THEOREM FaultsOnlyWithoutALineHolds == Spec => []FaultsOnlyWithoutALine
<1>1. ChunkingInv => FaultsOnlyWithoutALine
  BY DEF ChunkingInv, SizingInv, FaultsOnlyWithoutALine
<1> QED
  BY <1>1, ChunkingInvariant, PTL

\* A box that is no longer along any axis has no more voxels.
LEMMA ProductGrows ==
  ASSUME NEW a \in Nat, NEW b \in Nat, NEW c \in Nat,
         NEW l \in 0 .. a, NEW m \in 0 .. b, NEW n \in 0 .. c
  PROVE  l * m * n <= a * b * c
<1>1. l * m <= a * m /\ a * m <= a * b
  OBVIOUS
<1>2. l * m \in Nat /\ a * b \in Nat
  OBVIOUS
<1> DEFINE p == l * m
           q == a * b
<1>3. p \in 0 .. q /\ q \in Nat
  BY <1>1, <1>2
<1> HIDE DEF p, q
<1>4. p * n <= q * n /\ q * n <= q * c
  BY <1>3
<1>5. p * n <= q * c
  BY <1>3, <1>4
<1> QED
  BY <1>5 DEF p, q

\* The buffers hold every chunk that is sent to them.
THEOREM BuffersHoldEveryChunkHolds == Spec => []BuffersHoldEveryChunk
<1>1. ChunkingInv => BuffersHoldEveryChunk
  <2> SUFFICES ASSUME ChunkingInv, pc = "done", NEW ch \in Filled
               PROVE  Product(ChunkSize(ch)) <= Product(maxDeviceDims)
    BY DEF BuffersHoldEveryChunk
  <2>1. \A a \in Axis : maxDeviceDims[a] \in Nat /\ ChunkSize(ch)[a] \in 0 .. maxDeviceDims[a]
    BY DEF ChunkingInv, MaxInv
  <2> QED
    BY <2>1, ProductGrows DEF Product, Axis
<1> QED
  BY <1>1, ChunkingInvariant, PTL

\* A chunk of an axis that is cut, and has room beside its margins, is at most a plane
\* longer than what calculateBuffers gave the axis; of one that is not cut, as long as it.
LEMMA ChunkOverRoom ==
  ASSUME ChunkingInv, pc = "done", NEW ch \in Filled, NEW a \in Axis,
         CutAlong(a) => deviceDims[a] > 2 * Margin(kern[a])
  PROVE  ChunkSize(ch)[a] - (IF CutAlong(a) THEN 1 ELSE 0) \in 0 .. deviceDims[a]
<1>1. /\ SizingInv /\ FillInv /\ im[a] \in Nat \ {0} /\ kern[a] \in Nat \ {0}
      /\ deviceDims[a] \in 0 .. im[a]
  BY DEF ChunkingInv, VolumeInv, Sized, SizingInv, ArgsOK, DimSet
<1>2. /\ ChunkSize(ch)[a] \in 1 .. im[a]
      /\ ChunkSize(ch)[a] <= chunkDelta[a] + 2 * Margin(kern[a]) + 1
  BY <1>1, ChunkSizes
<1>3. CASE ~CutAlong(a)
  BY <1>1, <1>2, <1>3 DEF CutAlong, IsCut
<1>4. CASE CutAlong(a)
  <2>1. Margin(kern[a]) \in Nat /\ deviceDims[a] - 2 * Margin(kern[a]) \in Nat \ {0}
    BY <1>1, <1>4 DEF Margin
  <2>2. Room(deviceDims[a], kern[a]) \in 0 .. deviceDims[a] - 2 * Margin(kern[a])
    BY <2>1, SizeModAssumption, RemainderBounds DEF Room
  <2>3. chunkDelta[a] \in 0 .. deviceDims[a] - 2 * Margin(kern[a])
    BY <1>4, <2>1, <2>2 DEF chunkDelta, ChunkDelta, DeviceDelta, CutAlong
  <2> QED
    BY <1>1, <1>2, <1>4, <2>1, <2>3
<1> QED
  BY <1>3, <1>4

\* The buffers fit the memory they were sized by, but for one plane along each axis that is
\* cut, unless the rest went to x or a cut axis has no room beside its margins.
THEOREM FitsButForAPlaneHolds == Spec => []FitsButForAPlane
<1>1. ChunkingInv => FitsButForAPlane
  <2> DEFINE over == [a \in Axis |-> maxDeviceDims[a] - IF CutAlong(a) THEN 1 ELSE 0]
  <2> SUFFICES ASSUME ChunkingInv, pc = "done", ~GivenToX,
                      \A a \in Axis : CutAlong(a) => deviceDims[a] > 2 * Margin(kern[a])
               PROVE  Product(over) <= numVoxels
    BY DEF FitsButForAPlane
  <2>1. /\ Product(deviceDims) <= numVoxels /\ numVoxels \in Nat
        /\ \A a \in Axis : deviceDims[a] \in Nat
    BY DEF ChunkingInv, VolumeInv, Sized, SizingInv, ArgsOK, DimSet
  <2>2. \A a \in Axis : over[a] \in 0 .. deviceDims[a]
    <3> SUFFICES ASSUME NEW a \in Axis PROVE over[a] \in 0 .. deviceDims[a]
      OBVIOUS
    <3>1. PICK ch \in Filled : ChunkSize(ch)[a] = maxDeviceDims[a]
      BY DEF ChunkingInv, MaxInv
    <3> QED
      BY <3>1, ChunkOverRoom
  <2>3. Product(over) <= Product(deviceDims)
    <3> HIDE DEF over
    <3> QED
      BY <2>1, <2>2, ProductGrows DEF Product, Axis
  <2>4. Product(over) \in Int /\ Product(deviceDims) \in Int
    <3> HIDE DEF over
    <3>1. \A a \in Axis : over[a] \in Int /\ deviceDims[a] \in Int
      BY <2>1, <2>2
    <3> QED
      BY <3>1 DEF Product, Axis
  <2> QED
    BY <2>1, <2>3, <2>4
<1> QED
  BY <1>1, ChunkingInvariant, PTL

\* An image that fits the memory is not cut, unless the rest went to x: one chunk for each
\* channel of each frame, of the size of the image.
THEOREM WholeUnlessGivenToXHolds == Spec => []WholeUnlessGivenToX
<1>1. ChunkingInv => WholeUnlessGivenToX
  <2> SUFFICES ASSUME ChunkingInv, pc = "done", Product(im) <= numVoxels, ~GivenToX
               PROVE  /\ DOMAIN localChunks = 0 .. im["chan"] * im["frame"] - 1
                      /\ \A ch \in Filled : \A a \in Axis : ChunkSize(ch)[a] = im[a]
    BY DEF WholeUnlessGivenToX
  <2>1. /\ SizingInv /\ FillInv /\ im \in [DimSet -> Nat \ {0}]
        /\ \A a \in Axis : deviceDims[a] = im[a]
        /\ DOMAIN localChunks = 0 .. NumElements(numChunks) - 1
    BY DEF ChunkingInv, VolumeInv, Sized, SizingInv, ArgsOK, FillInv
  <2>2. \A a \in Axis : im[a] \in Nat \ {0} /\ ~IsCut(im[a], deviceDims[a])
    BY <2>1 DEF IsCut, DimSet
  <2>3. \A a \in Axis : numChunks[a] = 1 /\ chunkDelta[a] = im[a]
    BY <2>2 DEF numChunks, NumChunks, chunkDelta, ChunkDelta, DimSet
  <2>4. NumElements(numChunks) = im["chan"] * im["frame"]
    <3>1. /\ numChunks["x"] = 1 /\ numChunks["y"] = 1 /\ numChunks["z"] = 1
          /\ numChunks["chan"] = im["chan"] /\ numChunks["frame"] = im["frame"]
          /\ im["chan"] \in Nat /\ im["frame"] \in Nat
      BY <2>1, <2>3 DEF numChunks, DimSet, Axis
    <3> QED
      BY <3>1 DEF NumElements
  <2>5. ASSUME NEW ch \in Filled, NEW a \in Axis PROVE ChunkSize(ch)[a] = im[a]
    <3> DEFINE n == im[a]
               m == Margin(kern[a])
    <3>1. PICK i \in 0 .. CeilDiv(n, n) - 1 :
            n \in Nat \ {0} /\ m \in Nat /\ ChunkSize(ch)[a] = FullChunkSize(n, n, m, i)
      BY <2>1, <2>3, ChunkAlong
    <3> HIDE DEF n, m
    <3>2. i = 0
      <4>1. i \in Nat /\ n * i \in Nat /\ n * i < n
        BY <3>1, ChunkStartsInside
      <4> QED
        BY <3>1, <4>1
    <3>3. FullChunkSize(n, n, m, 0) = n
      BY <3>1 DEF FullChunkSize, ImageStart, ImageEnd, ImageROIEnd, Least, Greatest
    <3> QED
      BY <3>1, <3>2, <3>3 DEF n
  <2> QED
    BY <2>1, <2>4, <2>5
<1> QED
  BY <1>1, ChunkingInvariant, PTL

\* When the loops are over every slot has its chunk, and every voxel of every channel and
\* frame is in the region of interest of some chunk.
THEOREM EveryVoxelCoveredHolds == Spec => []EveryVoxelCovered
<1>1. ChunkingInv => EveryVoxelCovered
  <2> SUFFICES ASSUME ChunkingInv, pc \in {"size", "done"} PROVE EveryVoxelCovered
    BY DEF EveryVoxelCovered
  <2>1. /\ WellDefined(im, deviceDims, kern) /\ ArgsOK /\ deviceDims \in [Axis -> Int]
        /\ \A c \in Counters : localChunks[Slot(c)] = ChunkAt(c)
        /\ \A s \in DOMAIN localChunks : \E c \in Counters : s = Slot(c)
        /\ DOMAIN localChunks = 0 .. NumElements(numChunks) - 1
    BY DEF ChunkingInv, FillInv, SizingInv
  <2>2. \A s \in DOMAIN localChunks : localChunks[s] # NoChunk
    BY <2>1, ChunkAtIs
  <2>3. numChunks \in [DimSet -> Nat \ {0}]
    BY <2>1, Steps
  <2>4. ASSUME NEW c \in Counters PROVE ChunkAt(c) \in Filled
    <3>1. Slot(c) \in DOMAIN localChunks
      BY <2>1, <2>3, Addresses DEF Counters, Slot
    <3> QED
      BY <2>1, <2>2, <3>1 DEF Filled
  <2>5. ASSUME NEW v \in [DimSet -> Nat], \A d \in DimSet : v[d] <= im[d] - 1
        PROVE  \E ch \in Filled : InROI(ch, v)
    <3>1. \A a \in Axis : \E i \in 0 .. CeilDiv(im[a], chunkDelta[a]) - 1 :
            ImageROIStart(chunkDelta[a], i) <= v[a] /\ v[a] <= ImageROIEnd(im[a], chunkDelta[a], i)
      <4> SUFFICES ASSUME NEW a \in Axis
                   PROVE  \E i \in 0 .. CeilDiv(im[a], chunkDelta[a]) - 1 :
                            ImageROIStart(chunkDelta[a], i) <= v[a] /\ v[a] <= ImageROIEnd(im[a], chunkDelta[a], i)
        OBVIOUS
      <4>1. im[a] \in Nat \ {0} /\ chunkDelta[a] \in Nat \ {0}
        BY <2>1, Steps
      <4>2. v[a] \in 0 .. im[a] - 1
        BY <2>5, <4>1 DEF DimSet
      <4> QED
        BY <4>1, <4>2, ROIsCoverAxis
    <3> DEFINE at(a) == CHOOSE i \in 0 .. CeilDiv(im[a], chunkDelta[a]) - 1 :
                          ImageROIStart(chunkDelta[a], i) <= v[a] /\ v[a] <= ImageROIEnd(im[a], chunkDelta[a], i)
               c == [d \in DimSet |-> IF d \in Axis THEN at(d) ELSE v[d]]
    <3>2. \A a \in Axis : /\ at(a) \in 0 .. CeilDiv(im[a], chunkDelta[a]) - 1
                          /\ ImageROIStart(chunkDelta[a], at(a)) <= v[a]
                          /\ v[a] <= ImageROIEnd(im[a], chunkDelta[a], at(a))
      BY <3>1
    <3> HIDE DEF at
    <3>3. c \in Counters
      <4>1. ASSUME NEW d \in DimSet PROVE c[d] \in Nat /\ c[d] < numChunks[d]
        <5>1. numChunks[d] \in Nat \ {0} /\ v[d] \in Nat /\ v[d] <= im[d] - 1 /\ im[d] \in Nat
          BY <2>1, <2>3, <2>5 DEF ArgsOK
        <5>2. CASE d \in Axis
          <6>1. c[d] = at(d) /\ numChunks[d] = CeilDiv(im[d], chunkDelta[d])
            BY <2>1, <5>2, Steps
          <6> QED
            BY <3>2, <5>1, <5>2, <6>1
        <5>3. CASE d \notin Axis
          <6>1. c[d] = v[d] /\ numChunks[d] = im[d]
            BY <2>1, <5>3, Steps DEF DimSet
          <6> QED
            BY <5>1, <6>1
        <5> QED
          BY <5>2, <5>3
      <4> QED
        BY <4>1 DEF Counters, Below
    <3>4. InROI(ChunkAt(c), v)
      <4>1. c["chan"] = v["chan"] /\ c["frame"] = v["frame"] /\ \A a \in Axis : c[a] = at(a)
        BY DEF DimSet, Axis
      <4> HIDE DEF c
      <4>2. /\ ChunkAt(c).channel = c["chan"] /\ ChunkAt(c).frame = c["frame"]
            /\ \A a \in Axis : /\ ChunkAt(c).imageROIstart[a] = ImageROIStart(chunkDelta[a], c[a])
                               /\ ChunkAt(c).imageROIend[a] = ImageROIEnd(im[a], chunkDelta[a], c[a])
        BY DEF ChunkAt
      <4> QED
        BY <3>2, <4>1, <4>2 DEF InROI
    <3> QED
      BY <2>4, <3>3, <3>4
  <2>6. ASSUME NEW k \in 0 .. im["chan"] - 1, NEW f \in 0 .. im["frame"] - 1,
               NEW x \in 0 .. im["x"] - 1, NEW y \in 0 .. im["y"] - 1, NEW z \in 0 .. im["z"] - 1
        PROVE  \E ch \in Filled :
                 InROI(ch, [d \in DimSet |-> CASE d = "x" -> x [] d = "y" -> y [] d = "z" -> z
                                               [] d = "chan" -> k [] d = "frame" -> f])
    <3> DEFINE v == [d \in DimSet |-> CASE d = "x" -> x [] d = "y" -> y [] d = "z" -> z
                                        [] d = "chan" -> k [] d = "frame" -> f]
    <3>1. /\ im["x"] \in Nat /\ im["y"] \in Nat /\ im["z"] \in Nat
          /\ im["chan"] \in Nat /\ im["frame"] \in Nat
      BY <2>1 DEF ArgsOK, DimSet, Axis
    <3>2. /\ v["x"] = x /\ v["y"] = y /\ v["z"] = z /\ v["chan"] = k /\ v["frame"] = f
          /\ v = [d \in DimSet |-> v[d]]
      BY DEF DimSet, Axis
    <3> HIDE DEF v
    <3>3. v \in [DimSet -> Nat] /\ \A d \in DimSet : v[d] <= im[d] - 1
      BY <3>1, <3>2 DEF DimSet, Axis
    <3>4. \E ch \in Filled : InROI(ch, v)
      BY <2>5, <3>3
    <3> QED
      BY <3>4 DEF v
  <2> QED
    BY <2>2, <2>6 DEF EveryVoxelCovered
<1> QED
  BY <1>1, ChunkingInvariant, PTL
=============================================================================
