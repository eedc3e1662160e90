----------------------------- MODULE FilterPlans -----------------------------
(***************************************************************************)
(* What each filter does with a chunk: the body of its loop over the       *)
(* chunks as a sequence of steps, and what its help says the output is.    *)
(* ChunkedFilter runs a plan; the region around it is the same in every    *)
(* filter.                                                                 *)
(*                                                                         *)
(* Kernels are reduced to their extent along the axis the image is cut     *)
(* along (z), and the computation of a kernel to its name: a value is the  *)
(* term of names it was computed by.                                       *)
(***************************************************************************)
EXTENDS Integers, SequencesExt

(***************************************************************************)
(* Steps.  A buffer is named by its role: getCurBuffer, getNextBuffer,     *)
(* getThirdBuffer, or the buffer of a second CudaDeviceImages.             *)
(***************************************************************************)
SendStep(term, into) == [op |-> "send", term |-> term, into |-> into]
ClearStep(into) == [op |-> "clear", into |-> into]
ReduceStep(fn, of) == [op |-> "reduce", fn |-> fn, of |-> of]
LaunchStep(fn, reads, into, increment) ==
  [op |-> "launch", fn |-> fn, reads |-> reads, into |-> into, increment |-> increment]

\* A kernel reads a buffer around the voxel it computes, or at that voxel only.
Near(role, k) == [role |-> role, extent |-> k]
AtVoxel(role) == Near(role, 1)

\* kernel<<<...>>>(*getCurBuffer(), *getNextBuffer(), ...); incrementBuffer();
Stencil(fn, k) == LaunchStep(fn, <<Near("cur", k)>>, "next", TRUE)

\* for (int j = 0; j < numIterations; ++j)
Repeat(steps, n) == FlattenSeq([j \in 1 .. n |-> steps])

In == <<"in">>      \* imageIn, or image1In
In2 == <<"in2">>

\* needed: NUM_BUFF_NEEDED; ring and scratch: the buffers of the CudaDeviceImages;
\* extent: what calculateBuffers is given for kernelDims; loads: whether a Kernel is made.
TwoBuffers(k, steps) ==
  [needed |-> 2, ring |-> 2, scratch |-> 0, extent |-> k, loads |-> TRUE,
   steps |-> <<SendStep(In, "cur")>> \o steps, result |-> "cur"]
ThreeBuffers(k, steps, result) ==
  [TwoBuffers(k, steps) EXCEPT !.needed = 3, !.ring = 3, !.result = result]

(***************************************************************************)
(* The filters                                                             *)
(***************************************************************************)
cMaxFilter(k, n) == TwoBuffers(k, Repeat(<<Stencil("max", k)>>, n))
cMinFilter(k, n) == TwoBuffers(k, Repeat(<<Stencil("min", k)>>, n))
cMeanFilter(k, n) == TwoBuffers(k, Repeat(<<Stencil("mean", k)>>, n))
cStdFilter(k, n) == TwoBuffers(k, Repeat(<<Stencil("std", k)>>, n))
cVarFilter(k, n) == TwoBuffers(k, Repeat(<<Stencil("var", k)>>, n))
cMultiplySum(k, n) == TwoBuffers(k, Repeat(<<Stencil("multiplySum", k)>>, n))

\* For a kernel that is not 1x1x1: that one is copied on the host.
cMedianFilter(k, n) == TwoBuffers(k, Repeat(<<Stencil("median", k)>>, n))

cClosure(k, n) ==
  TwoBuffers(k, Repeat(<<Stencil("max", k)>>, n) \o Repeat(<<Stencil("min", k)>>, n))
cOpener(k, n) ==
  TwoBuffers(k, Repeat(<<Stencil("min", k)>>, n) \o Repeat(<<Stencil("max", k)>>, n))

\* kernDims(5*75+1) sizes the margin; no kernel is loaded.
cIdentityFilter ==
  [TwoBuffers(5 * 75 + 1, <<Stencil("identity", 1)>>) EXCEPT !.loads = FALSE]

GaussAlong == [x |-> "gaussX", y |-> "gaussY", z |-> "gaussZ"]
LoGAlong == [x |-> "logX", y |-> "logY", z |-> "logZ"]
ExtentAlong(a, k) == IF a = "z" THEN k ELSE 1
Axes == <<"x", "y", "z">>

SeparableMultiplySum(k) ==
  [j \in 1 .. 3 |-> Stencil(GaussAlong[Axes[j]], ExtentAlong(Axes[j], k))]

cGaussian(k, n) == TwoBuffers(k, Repeat(SeparableMultiplySum(k), n))

\* The image is blurred, sent again, and the difference goes into the third buffer.
cHighPassFilter(k) ==
  ThreeBuffers(k, SeparableMultiplySum(k) \o
    <<SendStep(In, "next"),
      LaunchStep("difference", <<AtVoxel("next"), AtVoxel("cur")>>, "third", FALSE)>>, "third")

\* The part of cLoG for axis a: the image is sent again, smoothed along the other axes of
\* on (those with a sigma that is not 0), and added to the scratch buffer in place.
AddLoGAlong(a, on, k) ==
  <<SendStep(In, "cur")>>
  \o FlattenSeq([j \in 1 .. 3 |->
       IF Axes[j] \in on
       THEN <<Stencil(IF Axes[j] = a THEN LoGAlong[a] ELSE GaussAlong[Axes[j]],
                      ExtentAlong(Axes[j], k))>>
       ELSE <<>>])
  \o <<LaunchStep("add", <<AtVoxel("cur"), AtVoxel("scratch")>>, "scratch", FALSE)>>

cLoG(on, k) ==
  [needed |-> 3, ring |-> 2, scratch |-> 1, extent |-> k, loads |-> TRUE,
   steps |-> <<ClearStep("scratch")>> \o
     FlattenSeq([j \in 1 .. 3 |-> IF Axes[j] \in on THEN AddLoGAlong(Axes[j], on, k) ELSE <<>>]),
   result |-> "scratch"]

\* calculateBuffers is called without a kernel, and none is loaded.
cElementWiseDifference ==
  [ThreeBuffers(1,
     <<SendStep(In2, "next"),
       LaunchStep("difference", <<AtVoxel("cur"), AtVoxel("next")>>, "third", FALSE)>>, "third")
   EXCEPT !.loads = FALSE]

\* Without a noise variance (-1) it is estimated, from the chunk, before the launch: the
\* mean of the local variances, and the greatest value.
cWienerFilter(k, given) ==
  TwoBuffers(k,
    (IF given THEN <<>>
     ELSE <<LaunchStep("var", <<Near("cur", k)>>, "next", FALSE),
            ReduceStep("sum", "next"), ReduceStep("max", "cur")>>)
    \o <<Stencil("wiener", k)>>)

(***************************************************************************)
(* What the help promises: the value of a voxel, and how far along the cut *)
(* axis it depends on the image                                            *)
(***************************************************************************)
Applied(fn, n, term) ==
  LET apply[j \in 0 .. n] == IF j = 0 THEN term ELSE <<fn, apply[j - 1]>>
  IN apply[n]

Promise(term, reach) == [term |-> term, reach |-> reach]

Neighbourhood(fn, k, n) == Promise(Applied(fn, n, In), n * (k \div 2))

\* "Dilation followed by an erosion"; "erode follow by a dilation".
Closed(k, n) == Promise(Applied("min", n, Applied("max", n, In)), 2 * n * (k \div 2))
Opened(k, n) == Promise(Applied("max", n, Applied("min", n, In)), 2 * n * (k \div 2))

Blur(term) == Applied("gaussZ", 1, Applied("gaussY", 1, Applied("gaussX", 1, term)))
Blurred(k) == Promise(Blur(In), k \div 2)
BlurredTwice(k) == Promise(Blur(Blur(In)), 2 * (k \div 2))

\* "Subtracting a Gaussian blurred version of the input."
HighPassed(k) == Promise(<<"difference", In, Blur(In)>>, k \div 2)

\* The Laplacian of the Gaussian with sigmas along x and z.
LoGXZ(k) ==
  Promise(<<"add", <<"logZ", <<"gaussX", In>>>>,
                   <<"add", <<"gaussZ", <<"logX", In>>>>, <<"zero">>>>>>, k \div 2)

\* "Subtracts the second array from the first."
Subtracted == Promise(<<"difference", In, In2>>, 0)

\* With the noise given; and with the noise of the image, of whatever length.
Denoised(k) == Neighbourhood("wiener", k, 1)
DenoisedByEstimate(length) ==
  Promise(<<"wiener", In, <<"sum", <<"var", In>>>>, <<"max", In>>>>, length)

(***************************************************************************)
(* What a plan computes if every step is done before the next one begins.  *)
(* ChunkedFilter's workers are ahead of their devices, and must come to    *)
(* the same.                                                               *)
(***************************************************************************)
\* getCurBuffer, getNextBuffer, getThirdBuffer, and the buffer of the other images.
RoleBuffer(plan, cur, role) ==
  IF role = "scratch" THEN plan.ring
  ELSE (cur + [cur |-> 0, next |-> 1, third |-> 2][role]) % plan.ring

Roles(plan) == {"cur", "next", "third"} \cup (IF plan.scratch > 0 THEN {"scratch"} ELSE {})

\* The role a step writes to, and the ones it reads.
Written(step) == IF step.op = "reduce" THEN {} ELSE {step.into}
Used(step) ==
  IF step.op = "reduce" THEN {step.of}
  ELSE IF step.op = "launch" THEN {step.reads[r].role : r \in DOMAIN step.reads} ELSE {}

\* The steps are of the four kinds, kernels have odd extents, and a buffer is cleared when
\* no launch is pending: cudaMemset is no launch and waits for none.
WellFormed(plan) ==
  /\ plan.steps \in Seq(Range(plan.steps))
  /\ plan.result \in Roles(plan)
  /\ \A k \in DOMAIN plan.steps :
       LET step == plan.steps[k]
       IN /\ step.op \in {"send", "clear", "reduce", "launch"}
          /\ Written(step) \cup Used(step) \subseteq Roles(plan)
          /\ step.op = "clear" /\ k > 1 => plan.steps[k - 1].op # "launch"
          /\ step.op = "launch" =>
               /\ step.reads \in Seq(Range(step.reads)) \ {<<>>}
               /\ step.increment \in BOOLEAN
               /\ \A r \in DOMAIN step.reads :
                    step.reads[r].extent \in Nat /\ step.reads[r].extent % 2 = 1

\* What a buffer holds: the term of its voxels, and how far around itself each of them
\* looks, by each of the ways it was computed.
Holding(term, reaches) == [known |-> TRUE, term |-> term, reaches |-> reaches]
Nothing == [known |-> FALSE, term |-> <<"unset">>, reaches |-> {}]

Held(plan, now, role) == now.buffers[RoleBuffer(plan, now.cur, role)]

\* A number that was reduced is one of the whole image, of this length.
Computed(plan, length, now, step) ==
  LET read(r) == Held(plan, now, step.reads[r].role)
  IN Holding(
       <<step.fn>> \o [r \in DOMAIN step.reads |-> read(r).term] \o now.scalars,
       (UNION {{x + step.reads[r].extent \div 2 : x \in read(r).reaches} : r \in DOMAIN step.reads})
         \cup (IF now.scalars = <<>> THEN {} ELSE {length}))

Output(plan, length, now, step) ==
  IF step.op = "send" THEN Holding(step.term, {0})
  ELSE IF step.op = "clear" THEN Holding(<<"zero">>, {0})
  ELSE Computed(plan, length, now, step)

\* What is held, and reduced, after a step.
After(plan, length, now, step) ==
  [cur |-> IF step.op = "launch" /\ step.increment THEN (now.cur + 1) % plan.ring ELSE now.cur,
   scalars |-> IF step.op = "reduce"
               THEN Append(now.scalars, <<step.fn, Held(plan, now, step.of).term>>)
               ELSE now.scalars,
   buffers |-> [b \in DOMAIN now.buffers |->
     IF b \in {RoleBuffer(plan, now.cur, role) : role \in Written(step)}
     THEN Output(plan, length, now, step) ELSE now.buffers[b]]]

Before(plan, base) ==
  [cur |-> base, scalars |-> <<>>,
   buffers |-> [b \in 0 .. (plan.ring + plan.scratch) - 1 |-> Nothing]]

\* After k steps, of a chunk that is begun with buffer base as the current one.
StepByStep(plan, length, base) ==
  LET after[k \in 0 .. Len(plan.steps)] ==
        IF k = 0 THEN Before(plan, base)
        ELSE After(plan, length, after[k - 1], plan.steps[k])
  IN after

\* Whichever buffer is the current one, no step uses what nothing was put into, and the
\* result is what is promised, and looks no further.
KeepsPromise(plan, length, promise) ==
  \A base \in 0 .. plan.ring - 1 :
    LET after == StepByStep(plan, length, base)
        result == Held(plan, after[Len(plan.steps)], plan.result)
    IN /\ \A k \in DOMAIN plan.steps : \A role \in Used(plan.steps[k]) :
            Held(plan, after[k - 1], role).known
       /\ result.known /\ result.term = promise.term
       /\ \A x \in result.reaches : x <= promise.reach
=============================================================================
