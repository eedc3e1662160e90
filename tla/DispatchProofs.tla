---------------------------- MODULE DispatchProofs ----------------------------
(***************************************************************************)
(* That every call, whatever its arguments, ends with all of its outputs   *)
(* or with an error, reaches the backend exactly when its arguments are    *)
(* right, and leaves behind only what is known to be left.                 *)
(***************************************************************************)
EXTENDS Dispatch, FiniteSetTheorems, WellFoundedInduction, TLAPS

-----------------------------------------------------------------------------
(***************************************************************************)
(* The command table                                                       *)
(***************************************************************************)
\* A command has no output beside an image, and no parameter's name stands for no error.
ImageAlone(l) ==
  /\ \A i \in DOMAIN l : i \in Nat \ {0} /\ l[i].name # "none"
  /\ \A i, j \in DOMAIN l : l[i].io = "out" /\ l[j].io = "out" /\ isImage(l[i]) => i = j

NoImage(l) == \A i \in DOMAIN l : l[i].io = "out" => ~isImage(l[i])

\* The parameters of each command, by the cases of the table.
LEMMA Layouts ==
  /\ \A cmd \in KernelFilters : Layout(cmd) = <<ImageIn, ImageOut, KernelIn, NumIterations, Device>>
  /\ Layout("EntropyFilter") = <<ImageIn, ImageOut, KernelIn, Device>>
  /\ Layout("WienerFilter") =
       <<ImageIn, ImageOut, KernelIn, Opt("noiseVariance", "double", <<-1>>), Device>>
  /\ Layout("ElementWiseDifference") =
       <<In("image1In", "ImageRef", Deferred), In("image2In", "ImageRef", Deferred), ImageOut, Device>>
  /\ Layout("Gaussian") = <<ImageIn, ImageOut, Sigmas, NumIterations, Device>>
  /\ \A cmd \in {"HighPassFilter", "LoG"} : Layout(cmd) = <<ImageIn, ImageOut, Sigmas, Device>>
  /\ Layout("IdentityFilter") = <<ImageIn, ImageOut, Device>>
  /\ Layout("NLMeans") =
       <<ImageIn, ImageOut, In("h", "Scalar", "double"), Opt("searchWindowRadius", "double", <<10>>),
         Opt("nhoodRadius", "double", <<2>>), Device>>
  /\ Layout("GetMinMax") =
       <<ImageIn, Out("minVal", "Scalar", Deferred), Out("maxVal", "Scalar", Deferred), Device>>
  /\ Layout("Sum") = <<ImageIn, Out("imageOut", "Scalar", Deferred), Device>>
  /\ Layout("Help") = <<Opt("command", "string", <<>>)>>
  /\ Layout("Info") = <<StructOut("cmdInfo")>>
  /\ Layout("DeviceCount") = <<Out("numCudaDevices", "Scalar", "int32_t"), StructOut("memStats")>>
  /\ Layout("DeviceStats") = <<StructOut("deviceStatsArray")>>
<1>1. \A cmd \in KernelFilters :
        /\ cmd # "EntropyFilter" /\ cmd # "WienerFilter" /\ cmd # "ElementWiseDifference"
        /\ cmd # "Gaussian" /\ cmd \notin {"HighPassFilter", "LoG"} /\ cmd # "IdentityFilter"
        /\ cmd # "NLMeans" /\ cmd # "GetMinMax" /\ cmd # "Sum" /\ cmd # "Help" /\ cmd # "Info"
        /\ cmd # "DeviceCount" /\ cmd # "DeviceStats"
  BY DEF KernelFilters
<1> QED
  BY <1>1, Zenon DEF Layout

\* What the parameters are called, and what errors and crashes without a parameter are.
Names == {"imageIn", "image1In", "image2In", "imageOut", "kernel", "sigmas", "numIterations",
          "device", "noiseVariance", "h", "searchWindowRadius", "nhoodRadius", "minVal",
          "maxVal", "command", "cmdInfo", "numCudaDevices", "memStats", "deviceStatsArray"}
Causes == {"none", NoObject, "arguments", "type", "internal", "backend",
           "cell", "null string", "overrun", "no axis", "no image", "extents", "filter"}

\* No parameter is named like the cause of an error or of a crash, or not at all.
LEMMA NoNameIsACause == Names \cap Causes = {}
  BY DEF Names, Causes, NoObject

\* Every parameter has one of the names; only Help has a string; a vector is of doubles, and
\* an image that is not converted of the type of the dispatch; what comes in is complete
\* before the options begin, and its deferred parameters are images of the caller's own, of
\* which every filter has one; an image that comes out has a name of its own.
Regular(cmd, l) ==
  /\ Len(l) \in Nat /\ DOMAIN l = 1 .. Len(l)
  /\ \A i \in DOMAIN l :
       /\ l[i].name \in Names
       /\ l[i].base = "string" => cmd = "Help" /\ l[i].trait = "Scalar"
       /\ l[i].trait = "ImageRef" => isDeferred(l[i])
       /\ l[i].trait = "Vector" => l[i].base = "double"
       /\ l[i].io # "out" /\ isDeferred(l[i]) =>
            l[i].io = "in" /\ l[i].trait = "ImageRef" /\ cmd \notin HelperCommands
  /\ \A i, j \in DOMAIN l :
       /\ l[i].io = "in" /\ l[j].io = "opt" => i < j
       /\ l[i].io = "out" /\ isImage(l[i]) /\ l[j].io # "out" => l[i].name # l[j].name
  /\ cmd \notin HelperCommands =>
       \E i \in DOMAIN l : l[i].io = "in" /\ isImage(l[i]) /\ isDeferred(l[i])

\* What is said below of a layout.
Good(cmd, l) == ImageAlone(l) /\ (cmd \in HelperCommands => NoImage(l)) /\ Regular(cmd, l)

\* Every command's list of parameters has what the proofs need of it.
LEMMA LayoutsAreGood ==
  ASSUME NEW cmd \in Commands
  PROVE  Good(cmd, Layout(cmd))
<1>1. CASE cmd \in KernelFilters
  <2>1. Good(cmd,
           <<ImageIn, ImageOut, KernelIn, NumIterations, Device>>)
    BY <1>1 DEF Good, ImageAlone, NoImage, Regular, Names, isImage,
         isDeferred, Deferred, ImageIn, ImageOut, KernelIn, NumIterations,
         Device, In, Out, Opt, Param, Sigmas, StructOut, HelperCommands, KernelFilters
  <2> QED
    BY <1>1, <2>1, Layouts, Zenon
<1>2. CASE cmd = "EntropyFilter"
  <2>1. Good(cmd,
           <<ImageIn, ImageOut, KernelIn, Device>>)
    BY <1>2 DEF Good, ImageAlone, NoImage, Regular, Names, isImage,
         isDeferred, Deferred, ImageIn, ImageOut, KernelIn, NumIterations,
         Device, In, Out, Opt, Param, Sigmas, StructOut, HelperCommands
  <2> QED
    BY <1>2, <2>1, Layouts, Zenon
<1>3. CASE cmd = "WienerFilter"
  <2>1. Good(cmd,
           <<ImageIn, ImageOut, KernelIn, Opt("noiseVariance", "double", <<-1>>), Device>>)
    BY <1>3 DEF Good, ImageAlone, NoImage, Regular, Names, isImage,
         isDeferred, Deferred, ImageIn, ImageOut, KernelIn, NumIterations,
         Device, In, Out, Opt, Param, Sigmas, StructOut, HelperCommands
  <2> QED
    BY <1>3, <2>1, Layouts, Zenon
<1>4. CASE cmd = "ElementWiseDifference"
  <2>1. Good(cmd,
           <<In("image1In", "ImageRef", Deferred), In("image2In", "ImageRef", Deferred),
             ImageOut, Device>>)
    BY <1>4 DEF Good, ImageAlone, NoImage, Regular, Names, isImage,
         isDeferred, Deferred, ImageIn, ImageOut, KernelIn, NumIterations,
         Device, In, Out, Opt, Param, Sigmas, StructOut, HelperCommands
  <2> QED
    BY <1>4, <2>1, Layouts, Zenon
<1>5. CASE cmd = "Gaussian"
  <2>1. Good(cmd,
           <<ImageIn, ImageOut, Sigmas, NumIterations, Device>>)
    BY <1>5 DEF Good, ImageAlone, NoImage, Regular, Names, isImage,
         isDeferred, Deferred, ImageIn, ImageOut, KernelIn, NumIterations,
         Device, In, Out, Opt, Param, Sigmas, StructOut, HelperCommands
  <2> QED
    BY <1>5, <2>1, Layouts, Zenon
<1>6. CASE cmd \in {"HighPassFilter", "LoG"}
  <2>1. Good(cmd,
           <<ImageIn, ImageOut, Sigmas, Device>>)
    BY <1>6 DEF Good, ImageAlone, NoImage, Regular, Names, isImage,
         isDeferred, Deferred, ImageIn, ImageOut, KernelIn, NumIterations,
         Device, In, Out, Opt, Param, Sigmas, StructOut, HelperCommands
  <2> QED
    BY <1>6, <2>1, Layouts, Zenon
<1>7. CASE cmd = "IdentityFilter"
  <2>1. Good(cmd,
           <<ImageIn, ImageOut, Device>>)
    BY <1>7 DEF Good, ImageAlone, NoImage, Regular, Names, isImage,
         isDeferred, Deferred, ImageIn, ImageOut, KernelIn, NumIterations,
         Device, In, Out, Opt, Param, Sigmas, StructOut, HelperCommands
  <2> QED
    BY <1>7, <2>1, Layouts, Zenon
<1>8. CASE cmd = "NLMeans"
  <2>1. Good(cmd,
           <<ImageIn, ImageOut, In("h", "Scalar", "double"),
             Opt("searchWindowRadius", "double", <<10>>), Opt("nhoodRadius", "double", <<2>>), Device>>)
    BY <1>8 DEF Good, ImageAlone, NoImage, Regular, Names, isImage,
         isDeferred, Deferred, ImageIn, ImageOut, KernelIn, NumIterations,
         Device, In, Out, Opt, Param, Sigmas, StructOut, HelperCommands
  <2> QED
    BY <1>8, <2>1, Layouts, Zenon
<1>9. CASE cmd = "GetMinMax"
  <2>1. Good(cmd,
           <<ImageIn, Out("minVal", "Scalar", Deferred), Out("maxVal", "Scalar", Deferred), Device>>)
    BY <1>9 DEF Good, ImageAlone, NoImage, Regular, Names, isImage,
         isDeferred, Deferred, ImageIn, ImageOut, KernelIn, NumIterations,
         Device, In, Out, Opt, Param, Sigmas, StructOut, HelperCommands
  <2> QED
    BY <1>9, <2>1, Layouts, Zenon
<1>10. CASE cmd = "Sum"
  <2>1. Good(cmd,
           <<ImageIn, Out("imageOut", "Scalar", Deferred), Device>>)
    BY <1>10 DEF Good, ImageAlone, NoImage, Regular, Names, isImage,
         isDeferred, Deferred, ImageIn, ImageOut, KernelIn, NumIterations,
         Device, In, Out, Opt, Param, Sigmas, StructOut, HelperCommands
  <2> QED
    BY <1>10, <2>1, Layouts, Zenon
<1>11. CASE cmd = "Help"
  <2>1. Good(cmd,
           <<Opt("command", "string", <<>>)>>)
    BY <1>11 DEF Good, ImageAlone, NoImage, Regular, Names, isImage,
         isDeferred, Deferred, ImageIn, ImageOut, KernelIn, NumIterations,
         Device, In, Out, Opt, Param, Sigmas, StructOut, HelperCommands
  <2> QED
    BY <1>11, <2>1, Layouts, Zenon
<1>12. CASE cmd = "Info"
  <2>1. Good(cmd,
           <<StructOut("cmdInfo")>>)
    BY <1>12 DEF Good, ImageAlone, NoImage, Regular, Names, isImage,
         isDeferred, Deferred, ImageIn, ImageOut, KernelIn, NumIterations,
         Device, In, Out, Opt, Param, Sigmas, StructOut, HelperCommands
  <2> QED
    BY <1>12, <2>1, Layouts, Zenon
<1>13. CASE cmd = "DeviceCount"
  <2>1. Good(cmd,
           <<Out("numCudaDevices", "Scalar", "int32_t"), StructOut("memStats")>>)
    BY <1>13 DEF Good, ImageAlone, NoImage, Regular, Names, isImage,
         isDeferred, Deferred, ImageIn, ImageOut, KernelIn, NumIterations,
         Device, In, Out, Opt, Param, Sigmas, StructOut, HelperCommands
  <2> QED
    BY <1>13, <2>1, Layouts, Zenon
<1>14. CASE cmd = "DeviceStats"
  <2>1. Good(cmd,
           <<StructOut("deviceStatsArray")>>)
    BY <1>14 DEF Good, ImageAlone, NoImage, Regular, Names, isImage,
         isDeferred, Deferred, ImageIn, ImageOut, KernelIn, NumIterations,
         Device, In, Out, Opt, Param, Sigmas, StructOut, HelperCommands
  <2> QED
    BY <1>14, <2>1, Layouts, Zenon
<1> QED
  BY <1>1, <1>2, <1>3, <1>4, <1>5, <1>6, <1>7, <1>8, <1>9, <1>10, <1>11, <1>12, <1>13, <1>14
  DEF Commands, HelperCommands
-----------------------------------------------------------------------------
(***************************************************************************)
(* The invariant of a call                                                 *)
(***************************************************************************)
\* Whether the interpreter takes output i: Python takes all, MATLAB as many as were asked for.
Shown(i) == Python \/ Position(Outs, i) <= call.nlhs

Before == {"load", "defaults", "convert", "execute", "process", "create"}
After == {"run", "outputs", "store", "returned"}

\* An output has a cell if the interpreter takes it, and no object before it is made.
OutputInv ==
  /\ pc \in (Before \cup After) \ {"load"} =>
       /\ \A i \in Outs : script[i] # NoCell <=> Shown(i)
       /\ \A i \in ImageOuts : Shown(i)
  /\ pc \in Before /\ Python => \A i \in Outs : script[i] = Null

\* The structures a helper command makes, and in Python their fields.
Helpers == IF Python THEN Structs \cup {Fields} ELSE Structs
Helper == call.cmd \in HelperCommands

\* What the call has made and not handed over, by where it is.
OwnedInv ==
  /\ pc \in Before => owned = {}
  /\ pc \in {"run", "outputs"} =>
       IF Helper THEN owned \subseteq Helpers
       ELSE owned = {} \/ (owned = ImageOuts /\ \A i \in ImageOuts : script[i] # Null)
  /\ pc = "store" => owned \subseteq IF Helper THEN Outs \cup Helpers ELSE Outs
  /\ pc = "returned" => owned \subseteq IF Helper /\ Python THEN {Fields} ELSE {}
  /\ pc = "raised" /\ owned # {} => Python /\ owned \subseteq ImageOuts /\ error = "backend"

\* Python's error indicator is set by an integer that overflows, and by memory that is not
\* found: then an output image has no object, and the call is going to fail.
ErrorInv ==
  /\ pc \in Before \cup After =>
       \/ pyErr \in {"none", "overflow"}
       \/ pc \in {"run", "outputs"} /\ \E i \in ImageOuts : script[i] = Null
  /\ pc = "raised" => error # "none" /\ (Python => pyErr # "none")
  /\ pc = "returned" => result = {i \in Outs : script[i] # NoCell}
  /\ pc # "returned" => result = {}

CallInv ==
  /\ call \in Calls
  /\ pc \in Before \cup After \cup {"raised", "crashed"}
  /\ Helper => pc \notin {"process", "create", "run"}
  /\ OutputInv
  /\ OwnedInv
  /\ ErrorInv

\* A set of parameters that is not empty has a first one.
LEMMA First ==
  ASSUME NEW T \in SUBSET Nat, T # {}
  PROVE  Least(T) \in T /\ \A n \in T : Least(T) <= n
<1>1. PICK m \in T : \A n \in T : ~ (<<n, m>> \in OpToRel(<, Nat))
  BY NatLessThanWellFounded, WFMin, Zenon
<1>2. ASSUME NEW n \in T PROVE m <= n
  <2>1. ~ (n < m)
    BY <1>1 DEF OpToRel
  <2> QED
    BY <2>1
<1> QED
  BY <1>2 DEF Least

\* What the table says of the call's own parameters.
LEMMA TableFacts ==
  ASSUME call \in Calls
  PROVE  /\ Params \subseteq Nat \ {0} /\ Outs \subseteq Params /\ InOpts \subseteq Params
         /\ Structs \subseteq Outs /\ Scalars \subseteq Outs /\ ImageOuts \subseteq Outs
         /\ Structs \cap Scalars = {} /\ Structs \cap ImageOuts = {} /\ Scalars \cap ImageOuts = {}
         /\ \A i \in Params : P(i).name # "none"
         /\ \A i \in ImageOuts : Outs = {i}
         /\ Helper => ImageOuts = {}
         /\ call.nlhs \in Nat
<1>1. call.cmd \in Commands /\ call.nlhs \in Nat
  BY DispatchAssumption
<1>2. Good(call.cmd, Layout(call.cmd))
  BY <1>1, LayoutsAreGood
<1>3. /\ \A i \in Params : i \in Nat \ {0} /\ P(i).name # "none"
      /\ \A i, j \in Params : P(i).io = "out" /\ P(j).io = "out" /\ isImage(P(i)) => i = j
      /\ Helper => \A i \in Params : P(i).io = "out" => ~isImage(P(i))
  BY <1>2 DEF Good, ImageAlone, NoImage, Params, P, Helper
<1> QED
  BY <1>1, <1>3 DEF Outs, InOpts, Ins, Opts, Structs, Scalars, ImageOuts, isImage

\* An error thrown in Python leaves what the call owns, and the indicator set; in MATLAB
\* nothing is left.
LEMMA RaiseRaises ==
  ASSUME CallInv, NEW pending, NEW cause, RaiseOver(pending, cause), cause # "none",
         cause = "backend" \/ owned = {}, pc # "returned",
         cause = "backend" => owned \subseteq ImageOuts,
         UNCHANGED <<call, result>>,
         script' = script
  PROVE  CallInv'
<1>1. /\ pc' = "raised" /\ error' = cause
      /\ pyErr' = (IF Python /\ pending = "none" THEN cause ELSE pending)
      /\ owned' = (IF Python THEN owned ELSE {})
  BY DEF RaiseOver
<1>2. /\ Params' = Params /\ Outs' = Outs /\ ImageOuts' = ImageOuts /\ Structs' = Structs
      /\ (Python <=> Python') /\ (Helper <=> Helper')
  BY DEF Params, Outs, ImageOuts, Structs, P, Python, Helper
<1>3. OutputInv'
  BY <1>1, <1>2 DEF OutputInv, CallInv, Before, After
<1>4. OwnedInv'
  BY <1>1, <1>2 DEF OwnedInv, CallInv, Before, After
<1>5. ErrorInv'
  BY <1>1, <1>2 DEF ErrorInv, CallInv, Before, After
<1> QED
  BY <1>1, <1>2, <1>3, <1>4, <1>5 DEF CallInv, Before, After
\* What only depends on the call does not change while it does not.
LEMMA SameCall ==
  ASSUME call' = call
  PROVE  /\ Params' = Params /\ Outs' = Outs /\ ImageOuts' = ImageOuts /\ Structs' = Structs
         /\ Scalars' = Scalars /\ (Python <=> Python') /\ (Helper <=> Helper')
         /\ Helpers' = Helpers /\ \A i : Shown(i)' <=> Shown(i)
<1>1. /\ Params' = Params /\ Outs' = Outs /\ ImageOuts' = ImageOuts /\ Structs' = Structs
      /\ Scalars' = Scalars /\ (Python <=> Python') /\ (Helper <=> Helper')
  BY DEF Params, Outs, ImageOuts, Structs, Scalars, P, Python, Helper
<1>2. Helpers' = Helpers
  BY <1>1 DEF Helpers
<1>3. \A i : Shown(i)' <=> Shown(i)
  BY <1>1 DEF Shown, Position
<1> QED
  BY <1>1, <1>2, <1>3

\* A crash leaves the rest as it was.
LEMMA CrashKeeps ==
  ASSUME CallInv, NEW cause, Crash(cause), UNCHANGED <<call, script, result>>, pc # "returned"
  PROVE  CallInv'
<1>1. pc' = "crashed"
  BY DEF Crash
<1> QED
  BY <1>1, SameCall DEF CallInv, OutputInv, OwnedInv, ErrorInv, Before, After

\* A step before the outputs are made that goes on to a later one.
LEMMA MoveKeeps ==
  ASSUME CallInv, UNCHANGED <<call, script, owned, result>>, pc \in Before \ {"load"},
         pc' \in Before \ {"load"}, pyErr' \in {pyErr, "overflow"},
         Helper => pc' \notin {"process", "create", "run"}
  PROVE  CallInv'
<1>1. /\ Params' = Params /\ Outs' = Outs /\ ImageOuts' = ImageOuts /\ Structs' = Structs
      /\ (Python <=> Python') /\ (Helper <=> Helper') /\ \A i : Shown(i)' <=> Shown(i)
  BY SameCall
<1>2. OutputInv'
  BY <1>1 DEF CallInv, OutputInv, Before
<1>3. OwnedInv'
  BY <1>1 DEF CallInv, OwnedInv, Before
<1>4. ErrorInv'
  BY <1>1 DEF CallInv, ErrorInv, Before
<1> QED
  BY <1>1, <1>2, <1>3, <1>4 DEF CallInv, Before

\* Loading the arguments makes no reference.
LEMMA LoadKeeps ==
  ASSUME CallInv, LoadPython \/ LoadMatlab
  PROVE  CallInv'
<1>1. /\ pc = "load" /\ owned = {} /\ pyErr \in {"none", "overflow"}
      /\ UNCHANGED <<call, values, inType, ran, result>>
  BY DEF CallInv, OwnedInv, ErrorInv, Before, LoadPython, LoadMatlab
<1>2. /\ Params' = Params /\ Outs' = Outs /\ ImageOuts' = ImageOuts /\ Structs' = Structs
      /\ (Python <=> Python') /\ (Helper <=> Helper') /\ \A i : Shown(i)' <=> Shown(i)
  BY <1>1, SameCall
<1>3. Null # NoCell
  BY DEF Null, NoCell, Object
<1>4. CASE pc' = "raised" /\ Raise("arguments") /\ UNCHANGED script
  BY <1>1, <1>4, RaiseRaises DEF Raise
<1>5. CASE /\ Goto("defaults")
           /\ \A i \in Outs : script'[i] # NoCell <=> Shown(i)
           /\ \A i \in ImageOuts : Shown(i)
           /\ Python => \A i \in Outs : script'[i] = Null
  <2>1. pc' = "defaults" /\ UNCHANGED <<error, pyErr, owned>>
    BY <1>5 DEF Goto
  <2>2. OutputInv'
    BY <1>1, <1>2, <1>5, <2>1 DEF CallInv, OutputInv, Before
  <2>3. OwnedInv'
    BY <1>1, <1>2, <2>1 DEF CallInv, OwnedInv, Before
  <2>4. ErrorInv'
    BY <1>1, <1>2, <2>1 DEF CallInv, ErrorInv, Before
  <2> QED
    BY <1>1, <1>2, <2>1, <2>2, <2>3, <2>4 DEF CallInv, Before
<1>6. CASE LoadPython /\ Parses
  <2>1. Python /\ \A i \in Outs : i \notin InOpts /\ i \in Params
    BY <1>6 DEF LoadPython, Outs, InOpts, Ins, Opts
  <2>2. /\ script' = [i \in Params |-> IF i \in InOpts /\ Given(i) THEN Argument(i) ELSE Null]
        /\ Goto("defaults")
    BY <1>6 DEF LoadPython
  <2>3. \A i \in Outs : script'[i] = Null
    BY <2>1, <2>2
  <2> QED
    BY <1>3, <1>5, <2>1, <2>2, <2>3 DEF Shown, ImageOuts
<1>7. CASE LoadMatlab /\ Counts
  <2>1. ~Python /\ \A i \in Outs : i \in Params
    BY <1>7 DEF LoadMatlab, Outs
  <2>2. /\ script' = [i \in Params |->
              IF i \in Outs THEN Mex!Cell(Position(Outs, i), call.nlhs, Null)
              ELSE Mex!Cell(Position(InOpts, i), Len(call.args), IF Given(i) THEN Argument(i) ELSE Null)]
        /\ Goto("defaults")
    BY <1>7 DEF LoadMatlab
  <2>3. \A i \in Outs : script'[i] = IF Position(Outs, i) <= call.nlhs THEN Null ELSE NoCell
    BY <2>1, <2>2 DEF Mex!Cell, Mex!NoCell, Mex!Null, Mex!Object, NoCell, Null, Object
  <2>4. ASSUME NEW i \in ImageOuts PROVE Shown(i)
    <3>1. Outs = {i} /\ i \in Nat /\ call.nlhs \in Nat
      BY TableFacts DEF CallInv
    <3>2. {j \in Outs : j <= i} = {i} /\ Cardinality({i}) = 1
      BY <3>1, FS_Singleton
    <3>3. call.nlhs > 0
      BY <1>7, <3>1, <3>2 DEF Counts, Mex!Counts
    <3> QED
      BY <3>1, <3>2, <3>3 DEF Shown, Position
  <2> QED
    BY <1>3, <1>5, <2>1, <2>2, <2>3, <2>4 DEF Shown
<1>8. CASE ~ (LoadPython /\ Parses) /\ ~ (LoadMatlab /\ Counts)
  BY <1>4, <1>8 DEF LoadPython, LoadMatlab, Raise, RaiseOver
<1> QED
  BY <1>6, <1>7, <1>8

\* Converting arguments may set the error indicator, and owns nothing new.
LEMMA ConvertKeeps ==
  ASSUME CallInv, NEW S, S \subseteq InOpts, NEW next \in {"execute", "create"},
         pc \in {"convert", "process"}, Helper => next # "create",
         ConvertSubset(S, next), UNCHANGED <<call, script, inType, ran, result>>
  PROVE  CallInv'
<1> DEFINE Stops == {i \in S : script[i] = NoCell \/ Rejected(i) \/ NoAxis(i)}
           i == Least(Stops)
<1>1. \A T : PyErrAfter(T) \in {pyErr, "overflow"}
  BY DEF PyErrAfter
<1>2. CASE pc' = next /\ pyErr' = PyErrAfter(S) /\ UNCHANGED <<error, owned>>
  BY <1>1, <1>2, MoveKeeps DEF Before
<1>3. CASE \E cause : Crash(cause)
  BY <1>3, CrashKeeps
<1>4. owned = {} /\ pc # "returned"
  BY DEF CallInv, OwnedInv, Before
<1>5. CASE Stops # {} /\ RaiseOver(PyErrAfter({j \in S : j <= i}), P(i).name)
  <2>1. Stops \subseteq Params /\ Stops \subseteq Nat /\ \A k \in Params : P(k).name # "none"
    BY TableFacts DEF CallInv
  <2>2. i \in Stops
    BY <1>5, <2>1, First
  <2>3. P(i).name # "none"
    BY <2>1, <2>2
  <2> HIDE DEF Stops, i
  <2>4. PICK name : name = P(i).name
    OBVIOUS
  <2> QED
    BY <1>4, <1>5, <2>3, <2>4, RaiseRaises
<1>6. CASE RaiseOver(IF Python THEN "encoding" ELSE pyErr, "internal")
  BY <1>4, <1>6, RaiseRaises
<1> QED
  BY <1>2, <1>3, <1>5, <1>6 DEF ConvertSubset

\* Execute chooses the pixel type, or a helper makes its structures, which the call owns.
LEMMA ExecuteKeeps ==
  ASSUME CallInv, ExecuteHelper \/ Execute
  PROVE  CallInv'
<1>1. pc = "execute" /\ owned = {} /\ UNCHANGED <<call, result>>
  BY DEF CallInv, OwnedInv, Before, ExecuteHelper, Execute
<1>2. CASE Execute
  <2>1. CASE Raise("type")
    BY <1>1, <1>2, <2>1, RaiseRaises DEF Raise, Execute
  <2>2. CASE Goto("process")
    BY <1>1, <1>2, <2>2, MoveKeeps DEF Execute, Goto, Before, Helper
  <2> QED
    BY <1>2, <2>1, <2>2 DEF Execute
<1>3. CASE ExecuteHelper /\ \A i \in Structs : script[i] # NoCell
  <2>1. /\ script' = [i \in Params |-> IF i \in Structs THEN Made(P(i).name) ELSE script[i]]
        /\ owned' = owned \union Structs \union
             IF Python /\ Structs # {} /\ StructSize(call.cmd) > 0 THEN {Fields} ELSE {}
        /\ pc' = "outputs" /\ UNCHANGED <<error, pyErr>> /\ Helper
    BY <1>3 DEF ExecuteHelper, Helper
  <2>2. /\ Params' = Params /\ Outs' = Outs /\ ImageOuts' = ImageOuts /\ Structs' = Structs
        /\ (Python <=> Python') /\ (Helper <=> Helper') /\ Helpers' = Helpers
        /\ \A i : Shown(i)' <=> Shown(i)
    BY <1>1, SameCall
  <2>3. \A i \in Structs : Made(P(i).name) # NoCell
    BY DEF Made, NoCell, Null, Object
  <2>4. ImageOuts = {} /\ Outs \subseteq Params
    BY <2>1, TableFacts DEF CallInv
  <2>5. \A i \in Outs : script'[i] # NoCell <=> script[i] # NoCell
    BY <1>3, <2>1, <2>3, <2>4
  <2>6. OutputInv'
    BY <1>1, <2>1, <2>2, <2>4, <2>5 DEF CallInv, OutputInv, Before, After
  <2>7. OwnedInv'
    <3>1. owned' \subseteq Helpers
      BY <1>1, <2>1 DEF Helpers
    <3> QED
      BY <2>1, <2>2, <3>1 DEF OwnedInv, Before
  <2>8. ErrorInv'
    BY <1>1, <2>1, <2>2 DEF CallInv, ErrorInv, Before, After
  <2> QED
    BY <1>1, <2>1, <2>2, <2>6, <2>7, <2>8 DEF CallInv, Before, After
<1>4. CASE ExecuteHelper /\ ~ \A i \in Structs : script[i] # NoCell
  BY <1>1, <1>4, CrashKeeps DEF ExecuteHelper
<1> QED
  BY <1>2, <1>3, <1>4

\* An output image is made, and owned, or memory has run out.
LEMMA CreateKeeps ==
  ASSUME CallInv, CreateOut \/ CreateOutFails
  PROVE  CallInv'
<1>1. pc = "create" /\ pc' = "run" /\ owned = {} /\ ~Helper
      /\ UNCHANGED <<call, inType, ran, error, result>>
  BY DEF CallInv, OwnedInv, Before, CreateOut, CreateOutFails
<1>2. /\ Params' = Params /\ Outs' = Outs /\ ImageOuts' = ImageOuts
      /\ (Python <=> Python') /\ (Helper <=> Helper') /\ \A i : Shown(i)' <=> Shown(i)
  BY <1>1, SameCall
<1>3. ImageOuts \subseteq Outs /\ Outs \subseteq Params
  BY TableFacts DEF CallInv
<1>4. CASE CreateOut
  <2>1. /\ owned' = ImageOuts /\ pyErr' = pyErr
        /\ \A i \in ImageOuts : script'[i] # Null /\ script'[i] # NoCell
        /\ \A i \in Outs \ ImageOuts : script'[i] = script[i]
    <3>1. \A n, d, s, o : Array(n, d, s, o) # Null /\ Array(n, d, s, o) # NoCell
      BY DEF Array, Null, NoCell, Object
    <3>2. \A i \in ImageOuts : \E n, d, s, o : script'[i] = Array(n, d, s, o)
      <4> SUFFICES ASSUME NEW i \in ImageOuts PROVE \E n, d, s, o : script'[i] = Array(n, d, s, o)
        OBVIOUS
      <4>1. i \in Params
        BY <1>3
      <4> QED
        BY <1>4, <4>1 DEF CreateOut
    <3>3. \A i \in Outs \ ImageOuts : script'[i] = script[i]
      BY <1>3, <1>4 DEF CreateOut
    <3>4. owned' = ImageOuts /\ pyErr' = pyErr
      BY <1>1, <1>4 DEF CreateOut
    <3> QED
      BY <3>1, <3>2, <3>3, <3>4
  <2>2. OutputInv'
    BY <1>1, <1>2, <1>3, <2>1 DEF CallInv, OutputInv, Before, After
  <2>3. OwnedInv'
    BY <1>1, <1>2, <2>1 DEF OwnedInv, Before
  <2>4. ErrorInv'
    BY <1>1, <1>2, <2>1 DEF CallInv, ErrorInv, Before, After
  <2> QED
    BY <1>1, <1>2, <2>2, <2>3, <2>4 DEF CallInv, After
<1>5. CASE CreateOutFails
  <2>1. /\ Python /\ ImageOuts # {} /\ script' = script /\ owned' = {}
        /\ \A i \in Outs : script[i] = Null
    BY <1>1, <1>5 DEF CallInv, OutputInv, Before, CreateOutFails
  <2>2. OutputInv'
    BY <1>1, <1>2, <2>1 DEF CallInv, OutputInv, Before, After
  <2>3. OwnedInv'
    BY <1>1, <1>2, <2>1 DEF OwnedInv, Before
  <2>4. \E i \in ImageOuts' : script'[i] = Null
    BY <1>2, <1>3, <2>1
  <2>5. ErrorInv'
    BY <1>1, <1>2, <2>4 DEF CallInv, ErrorInv
  <2> QED
    BY <1>1, <1>2, <2>2, <2>3, <2>5 DEF CallInv, After
<1> QED
  BY <1>4, <1>5

\* The backend returns, raises or crashes: nothing more is owned.
LEMMA RunKeeps ==
  ASSUME CallInv, Run
  PROVE  CallInv'
<1>1. pc = "run" /\ ~Helper /\ UNCHANGED <<call, script, values, inType, result>>
  BY DEF CallInv, Run
<1>2. CASE \E cause : Crash(cause)
  BY <1>1, <1>2, CrashKeeps
<1>3. CASE Raise("backend")
  <2>1. owned \subseteq ImageOuts
    BY <1>1 DEF CallInv, OwnedInv
  <2> QED
    BY <1>1, <1>3, <2>1, RaiseRaises DEF Raise
<1>4. CASE Goto("outputs")
  <2>1. pc' = "outputs" /\ UNCHANGED <<error, pyErr, owned>>
    BY <1>4 DEF Goto
  <2>2. /\ Params' = Params /\ Outs' = Outs /\ ImageOuts' = ImageOuts
        /\ (Python <=> Python') /\ (Helper <=> Helper') /\ \A i : Shown(i)' <=> Shown(i)
    BY <1>1, SameCall
  <2>3. OutputInv'
    BY <1>1, <2>1, <2>2 DEF CallInv, OutputInv, Before, After
  <2>4. OwnedInv'
    BY <1>1, <2>1, <2>2 DEF CallInv, OwnedInv, Before
  <2>5. ErrorInv'
    BY <1>1, <2>1, <2>2 DEF CallInv, ErrorInv, Before, After
  <2> QED
    BY <1>1, <2>1, <2>2, <2>3, <2>4, <2>5 DEF CallInv, After
<1> QED
  BY <1>2, <1>3, <1>4 DEF Run

\* Scalar outputs become objects of the call's; an image output is there, or the call fails.
LEMMA ConvertOutputsKeeps ==
  ASSUME CallInv, ConvertOutputs
  PROVE  CallInv'
<1> DEFINE Missing == {i \in ImageOuts : script[i] = Null}
<1>1. pc = "outputs" /\ UNCHANGED <<call, values, inType, ran, result>>
  BY DEF ConvertOutputs
<1>2. /\ ImageOuts \subseteq Outs /\ Scalars \subseteq Outs /\ Outs \subseteq Params /\ Params \subseteq Nat
      /\ Scalars \cap ImageOuts = {} /\ \A i \in Params : P(i).name # "none"
      /\ Structs \subseteq Outs
  BY TableFacts DEF CallInv
<1>3. /\ Params' = Params /\ Outs' = Outs /\ ImageOuts' = ImageOuts /\ Helpers' = Helpers
      /\ (Python <=> Python') /\ (Helper <=> Helper') /\ \A i : Shown(i)' <=> Shown(i)
  BY <1>1, SameCall
<1>4. CASE Crash("cell") /\ UNCHANGED script
  BY <1>1, <1>4, CrashKeeps
<1>5. CASE Missing # {} /\ Raise(P(Least(Missing)).name) /\ UNCHANGED script
  <2>1. Least(Missing) \in Missing
    BY <1>2, <1>5, First
  <2>2. owned = {}
    <3>1. ~Helper
      BY <1>5, TableFacts DEF CallInv
    <3> QED
      BY <1>1, <1>5, <3>1 DEF CallInv, OwnedInv
  <2>3. P(Least(Missing)).name # "none"
    BY <1>2, <2>1
  <2> QED
    BY <1>1, <1>5, <2>2, <2>3, RaiseRaises DEF Raise
<1>6. CASE /\ \A i \in Scalars : script[i] # NoCell
           /\ Missing = {}
           /\ script' = [i \in Params |-> IF i \in Scalars THEN Made(P(i).name) ELSE script[i]]
           /\ owned' = owned \union Scalars
           /\ pc' = "store"
           /\ UNCHANGED <<error, pyErr>>
  <2>1. \A i \in Scalars : Made(P(i).name) # NoCell
    BY DEF Made, NoCell, Null, Object
  <2>2. \A i \in Outs : script'[i] # NoCell <=> script[i] # NoCell
    BY <1>2, <1>6, <2>1
  <2>3. OutputInv'
    BY <1>1, <1>2, <1>3, <1>6, <2>2 DEF CallInv, OutputInv, Before, After
  <2>4. OwnedInv'
    <3>1. owned \subseteq IF Helper THEN Helpers ELSE ImageOuts
      BY <1>1 DEF CallInv, OwnedInv
    <3>2. owned' \subseteq IF Helper THEN Outs \cup Helpers ELSE Outs
      BY <1>2, <1>6, <3>1
    <3> QED
      BY <1>3, <1>6, <3>2 DEF OwnedInv, Before
  <2>5. ErrorInv'
    <3>1. pyErr \in {"none", "overflow"}
      BY <1>1, <1>6 DEF CallInv, ErrorInv, After
    <3> QED
      BY <1>1, <1>6, <3>1 DEF CallInv, ErrorInv
  <2> QED
    BY <1>1, <1>3, <1>6, <2>3, <2>4, <2>5 DEF CallInv, After
<1> QED
  BY <1>4, <1>5, <1>6 DEF ConvertOutputs

\* The outputs are handed over.
LEMMA StoreKeeps ==
  ASSUME CallInv, Store
  PROVE  CallInv'
<1>1. /\ pc = "store" /\ pc' = "returned"
      /\ result' = {i \in Outs : script[i] # NoCell} /\ owned' = owned \ Outs
      /\ UNCHANGED <<call, script, values, inType, ran, error, pyErr>>
  BY DEF Store
<1>2. /\ Params' = Params /\ Outs' = Outs /\ ImageOuts' = ImageOuts
      /\ (Python <=> Python') /\ (Helper <=> Helper') /\ \A i : Shown(i)' <=> Shown(i)
  BY <1>1, SameCall
<1>3. OutputInv'
  BY <1>1, <1>2 DEF CallInv, OutputInv, Before, After
<1>4. OwnedInv'
  <2>1. Structs \subseteq Outs
    BY TableFacts DEF CallInv
  <2>2. owned' \subseteq IF Helper /\ Python THEN {Fields} ELSE {}
    BY <1>1, <2>1 DEF CallInv, OwnedInv, Helpers
  <2> QED
    BY <1>1, <1>2, <2>2 DEF OwnedInv, Before
<1>5. ErrorInv'
  BY <1>1, <1>2 DEF CallInv, ErrorInv, Before, After
<1> QED
  BY <1>1, <1>2, <1>3, <1>4, <1>5 DEF CallInv, After
-----------------------------------------------------------------------------
(***************************************************************************)
(* What a call is refused for                                              *)
(***************************************************************************)
\* The parameters that come in, and what stands for them among the arguments.
LEMMA Incoming ==
  ASSUME call \in Calls
  PROVE  /\ IsFiniteSet(InOpts) /\ IsFiniteSet(Ins) /\ IsFiniteSet(Outs)
         /\ InOpts \subseteq Nat \ {0} /\ Outs \subseteq Nat \ {0} /\ Ins \subseteq InOpts
         /\ InOpts \cap Outs = {} /\ Len(call.args) \in Nat /\ call.nlhs \in Nat
         /\ \A i \in Params : P(i).name \notin Causes
         /\ \A i \in InOpts : P(i).base = "string" => call.cmd = "Help"
         /\ \A i \in InOpts : isDeferred(P(i)) => i \in Ins /\ P(i).trait = "ImageRef" /\ ~Helper
         /\ \A i \in Ins, j \in Opts : i < j
         /\ \A i \in ImageOuts, j \in InOpts : P(i).name # P(j).name
         /\ ~Helper => FirstImage \in Ins /\ isImage(P(FirstImage)) /\ isDeferred(P(FirstImage))
<1> DEFINE l == Layout(call.cmd)
<1>1. /\ call.cmd \in Commands /\ call.nlhs \in Nat /\ Len(call.args) \in Nat
  BY DispatchAssumption
<1>2. Good(call.cmd, l)
  BY <1>1, LayoutsAreGood
<1>3. ImageAlone(l) /\ Regular(call.cmd, l)
  BY <1>2 DEF Good
<1>4. /\ \A i \in DOMAIN l :
           /\ i \in Nat \ {0} /\ l[i].name \in Names /\ (l[i].base = "string" => call.cmd = "Help")
           /\ l[i].io # "out" /\ isDeferred(l[i]) =>
                l[i].io = "in" /\ l[i].trait = "ImageRef" /\ call.cmd \notin HelperCommands
      /\ \A i, j \in DOMAIN l :
           /\ l[i].io = "in" /\ l[j].io = "opt" => i < j
           /\ l[i].io = "out" /\ isImage(l[i]) /\ l[j].io # "out" => l[i].name # l[j].name
      /\ call.cmd \notin HelperCommands =>
           \E i \in DOMAIN l : l[i].io = "in" /\ isImage(l[i]) /\ isDeferred(l[i])
  BY <1>3 DEF ImageAlone, Regular
<1>5. Params = DOMAIN l /\ \A i : P(i) = l[i]
  BY DEF Params, P
<1>6. IsFiniteSet(Params)
  <2>1. Len(l) \in Nat /\ DOMAIN l = 1 .. Len(l)
    BY <1>3 DEF Regular
  <2> QED
    BY <1>5, <2>1, FS_Interval
<1>7. /\ InOpts \subseteq Params /\ Ins \subseteq InOpts /\ Outs \subseteq Params
      /\ InOpts \cap Outs = {}
  BY DEF InOpts, Ins, Opts, Outs
<1>8. IsFiniteSet(InOpts) /\ IsFiniteSet(Ins) /\ IsFiniteSet(Outs)
  BY <1>6, <1>7, FS_Subset
<1>9. ~Helper => FirstImage \in Ins /\ isImage(P(FirstImage)) /\ isDeferred(P(FirstImage))
  <2> DEFINE Images == {i \in Ins : isImage(P(i)) /\ isDeferred(P(i))}
  <2>1. SUFFICES ASSUME ~Helper PROVE FirstImage \in Images
    OBVIOUS
  <2>2. Images # {}
    BY <1>4, <1>5, <2>1 DEF Ins, Helper
  <2>3. Images \subseteq Nat
    BY <1>4, <1>5, <1>7
  <2>4. Least(Images) \in Images
    BY <2>2, <2>3, First
  <2> QED
    BY <2>4 DEF FirstImage
<1>10. \A i \in InOpts : isDeferred(P(i)) => i \in Ins /\ P(i).trait = "ImageRef" /\ ~Helper
  BY <1>4, <1>5 DEF InOpts, Ins, Opts, Helper
<1>11. \A i \in ImageOuts, j \in InOpts : P(i).name # P(j).name
  BY <1>4, <1>5 DEF InOpts, Ins, Opts, ImageOuts, Outs
<1> QED
  BY <1>1, <1>4, <1>5, <1>7, <1>8, <1>9, <1>10, <1>11, NoNameIsACause DEF Ins, Opts

\* An argument's position is within the list.
LEMMA Places ==
  ASSUME call \in Calls, NEW T \in {InOpts, Outs}, NEW i \in T
  PROVE  /\ Position(T, i) \in Nat \ {0} /\ Position(T, i) <= Cardinality(T)
         /\ Cardinality(T) \in Nat
<1>1. IsFiniteSet(T) /\ {j \in T : j <= i} \subseteq T /\ i \in {j \in T : j <= i}
  BY Incoming
<1>2. IsFiniteSet({j \in T : j <= i})
  BY <1>1, FS_Subset
<1>3. Cardinality({j \in T : j <= i}) <= Cardinality(T) /\ Cardinality(T) \in Nat
  BY <1>1, FS_Subset, FS_CardinalityType
<1>4. Cardinality({j \in T : j <= i}) \in Nat \ {0}
  BY <1>1, <1>2, FS_EmptySet, FS_CardinalityType
<1> QED
  BY <1>3, <1>4 DEF Position

\* What is required comes first, so a list that is long enough has all of it.
LEMMA RequiredIsGiven ==
  ASSUME call \in Calls, Cardinality(Ins) <= Len(call.args), NEW i \in Ins
  PROVE  Given(i)
<1>1. /\ IsFiniteSet(Ins) /\ Ins \subseteq InOpts /\ InOpts \subseteq Nat /\ Len(call.args) \in Nat
      /\ \A m \in Ins, j \in Opts : m < j
  BY Incoming
<1>2. {j \in InOpts : j <= i} \subseteq Ins
  BY <1>1 DEF InOpts
<1>3. Cardinality({j \in InOpts : j <= i}) <= Cardinality(Ins)
  BY <1>1, <1>2, FS_Subset
<1>4. Position(InOpts, i) \in Nat /\ Cardinality(Ins) \in Nat
  BY <1>1, Places, FS_CardinalityType
<1> QED
  BY <1>1, <1>3, <1>4 DEF Given, Position

\* What is given is an object that can be passed.
LEMMA GivenIsPassable ==
  ASSUME call \in Calls, NEW i \in InOpts, Given(i)
  PROVE  Passable(call.engine, Argument(i))
<1>1. Position(InOpts, i) \in 1 .. Len(call.args)
  BY Places, Incoming DEF Given
<1> QED
  BY <1>1, DispatchAssumption DEF Argument

\* Whether the engine takes the list of arguments; what it takes is right as far as it looks.
Loads == IF Python THEN Parses ELSE Counts

\* Of a call that loads: every required argument is given.
LEMMA LoadedIsPlausible ==
  ASSUME call \in Calls, Loads
  PROVE  /\ \A i \in Ins : Given(i)
         /\ \A i \in InOpts : isImage(P(i)) /\ Given(i) => Argument(i).kind = "array"
         /\ IF Python THEN Len(call.args) \in Cardinality(Ins)..Cardinality(InOpts) ELSE Counts
<1>1. /\ Len(call.args) \in Nat /\ Cardinality(Ins) \in Nat /\ Cardinality(InOpts) \in Nat
  BY Incoming, FS_CardinalityType
<1>2. Cardinality(Ins) <= Len(call.args) /\ Len(call.args) <= Cardinality(InOpts)
  BY DEF Loads, Parses, Py!Parses, Counts, Mex!Counts
<1>3. ASSUME NEW i \in InOpts, isImage(P(i)), Given(i) PROVE Argument(i).kind = "array"
  <2>1. CASE Python
    BY <1>3, <2>1 DEF Loads, Parses, Py!Expands, Py!isImage, isImage
  <2>2. CASE ~Python
    BY <1>3, <2>2, GivenIsPassable DEF Passable, Python
  <2> QED
    BY <2>1, <2>2
<1> QED
  BY <1>1, <1>2, <1>3, RequiredIsGiven DEF Loads

\* A call that does not load is wrong.
LEMMA UnloadedIsUnacceptable ==
  ASSUME call \in Calls, ~Loads
  PROVE  ~Acceptable
<1>1. CASE ~Python
  BY <1>1 DEF Loads, Acceptable
<1>2. CASE Python /\ ~Py!Parses(Cardinality(Ins), Cardinality(InOpts), Len(call.args))
  <2>1. /\ Len(call.args) \in Nat /\ Cardinality(Ins) \in Nat /\ Cardinality(InOpts) \in Nat
    BY Incoming, FS_CardinalityType
  <2> QED
    BY <1>2, <2>1 DEF Acceptable, Py!Parses
<1>3. CASE \E i \in InOpts : Given(i) /\ ~Py!Expands(P(i), Argument(i))
  <2>1. PICK i \in InOpts : Given(i) /\ ~Py!Expands(P(i), Argument(i))
    BY <1>3
  <2>2. Wrong(i)
    BY <2>1 DEF Wrong, Py!Expands, Py!isImage, isImage
  <2> QED
    BY <2>2 DEF Acceptable
<1> QED
  BY <1>1, <1>2, <1>3 DEF Loads, Parses

\* What a parameter's cell holds, and the type that a parameter is converted to.
Passed(i) == IF Given(i) THEN Argument(i) ELSE IF Python THEN Null ELSE NoCell
TypeFor(i) == IF i \in Ins /\ isDeferred(P(i)) THEN Argument(FirstImage).type ELSE "none"

\* An argument is rejected exactly when it is wrong.
LEMMA RejectedIsWrong ==
  ASSUME call \in Calls, Loads, NEW i \in InOpts, script[i] = Passed(i), inType = TypeFor(i)
  PROVE  Rejected(i) <=> Wrong(i)
<1>1. CASE Given(i)
  <2>1. script[i] = Argument(i) /\ script[i] # NoCell
    BY <1>1, GivenIsPassable DEF Passed, Passable
  <2>2. isImage(P(i)) => Argument(i).kind = "array"
    BY <1>1, LoadedIsPlausible
  <2> QED
    BY <1>1, <2>1, <2>2 DEF Rejected, HasObject, Wrong, NotEmpty, TypeFor
<1>2. CASE ~Given(i)
  <2>1. script[i] # NoCell => Python /\ script[i] = Null
    BY <1>2 DEF Passed
  <2>2. Python => isEmpty(Null)
    BY DEF isEmpty, Py!isEmpty, Null, Object
  <2> QED
    BY <1>2, <2>1, <2>2 DEF Rejected, HasObject, Wrong, NotEmpty
<1> QED
  BY <1>1, <1>2

\* What is judged of a call does not change as it goes on.
LEMMA SameJudgement ==
  ASSUME call' = call
  PROVE  /\ InOpts' = InOpts /\ Ins' = Ins /\ FirstImage' = FirstImage /\ (Loads' <=> Loads)
         /\ (Acceptable' <=> Acceptable) /\ (Omitted' <=> Omitted) /\ ImageIns' = ImageIns
         /\ \A i : /\ P(i)' = P(i) /\ (Given(i)' <=> Given(i)) /\ Argument(i)' = Argument(i)
                   /\ (Wrong(i)' <=> Wrong(i)) /\ Passed(i)' = Passed(i) /\ TypeFor(i)' = TypeFor(i)
                   /\ (NotEmpty(i)' <=> NotEmpty(i))
<1>1. Params' = Params /\ (\A i : P(i)' = P(i)) /\ (Python' <=> Python)
  BY DEF Params, P, Python
<1>2. Ins' = Ins /\ Opts' = Opts /\ Outs' = Outs
  BY <1>1 DEF Ins, Opts, Outs
<1>3. InOpts' = InOpts /\ FirstImage' = FirstImage
  BY <1>1, <1>2 DEF InOpts, FirstImage
<1>4. \A i : (Given(i)' <=> Given(i)) /\ Argument(i)' = Argument(i)
  BY <1>3 DEF Given, Argument, Position
<1>5. \A o : isEmpty(o)' <=> isEmpty(o)
  BY <1>1 DEF isEmpty
<1>6. \A i : /\ (NotEmpty(i)' <=> NotEmpty(i))
             /\ Passed(i)' = Passed(i) /\ TypeFor(i)' = TypeFor(i)
  BY <1>1, <1>2, <1>3, <1>4, <1>5 DEF NotEmpty, Passed, TypeFor
<1>7. \A i : Wrong(i)' <=> Wrong(i)
  BY <1>1, <1>2, <1>3, <1>4, <1>6 DEF Wrong, Takes
<1>8. Loads' <=> Loads
  BY <1>1, <1>2, <1>3, <1>4 DEF Loads, Parses, Counts
<1>9. Acceptable' <=> Acceptable
  BY <1>1, <1>2, <1>3, <1>4, <1>7 DEF Acceptable, Counts
<1>10. (Omitted' <=> Omitted) /\ ImageIns' = ImageIns
  BY <1>1, <1>2, <1>3, <1>4 DEF Omitted, ImageIns
<1> QED
  BY <1>1, <1>2, <1>3, <1>4, <1>6, <1>7, <1>8, <1>9, <1>10

\* A parameter has the object that was passed for it, until a result takes its place.
ArgumentInv ==
  pc \in (Before \cup After) \ {"load"} => Loads /\ \A i \in InOpts : script[i] = Passed(i)

\* The call has come so far only with arguments that are right so far, and was refused only
\* for one that is wrong, by its name if the error has one.
RefusalInv ==
  /\ pc \in Before => ~ran
  /\ pc \in {"load", "defaults", "convert"} => inType = "none"
  /\ pc \in (Before \cup After) \ {"load", "defaults", "convert"} =>
       \A i \in InOpts : ~isDeferred(P(i)) => ~Wrong(i)
  /\ pc \in {"process", "create", "run"} =>
       inType = Argument(FirstImage).type /\ inType \in PixelTypes
  /\ pc \in {"create"} \cup After => Acceptable
  /\ ran => Acceptable
  /\ pc \in After \ {"run"} => ran
  /\ pc = "raised" =>
       /\ ran \/ ~Acceptable
       /\ \A i \in InOpts : P(i).name = error => \E j \in InOpts : P(j).name = error /\ Wrong(j)
  /\ pc = "crashed" => error \in Causes
  /\ pc \notin {"raised", "crashed"} => error = "none"

\* The first image has voxels only if it was an array that is not empty; then the output has
\* voxels too, if there was memory for it.
VoxelInv ==
  /\ pc \in Before \ {"create"} /\ ~Helper => ~HasVoxels(FirstImage)
  /\ pc = "create" /\ HasVoxels(FirstImage) =>
       NotEmpty(FirstImage) /\ Argument(FirstImage).kind = "array"
  /\ pc = "run" /\ HasVoxels(FirstImage) =>
       (\A i \in ImageOuts : HasVoxels(i)) \/ (Python /\ pyErr = "memory")

FateInv == ArgumentInv /\ RefusalInv /\ VoxelInv

\* A call may be refused when an argument is wrong, or after its backend was entered.
LEMMA RaisedFate ==
  ASSUME FateInv, NEW pending, NEW cause, RaiseOver(pending, cause), UNCHANGED <<call, ran>>,
         ran \/ ~Acceptable,
         \A i \in InOpts : P(i).name = cause => \E j \in InOpts : P(j).name = cause /\ Wrong(j)
  PROVE  FateInv'
<1>1. pc' = "raised" /\ error' = cause
  BY DEF RaiseOver
<1>2. ArgumentInv' /\ VoxelInv'
  BY <1>1 DEF ArgumentInv, VoxelInv, Before, After
<1>3. RefusalInv'
  BY <1>1, SameJudgement DEF FateInv, RefusalInv, Before, After
<1> QED
  BY <1>2, <1>3 DEF FateInv

\* A crash has a cause, and a backend that crashes was given what is right.
LEMMA CrashedFate ==
  ASSUME NEW cause \in Causes, Crash(cause), call' = call, ran' => Acceptable
  PROVE  FateInv'
<1>1. pc' = "crashed" /\ error' = cause
  BY DEF Crash
<1>2. ArgumentInv' /\ VoxelInv'
  BY <1>1 DEF ArgumentInv, VoxelInv, Before, After
<1>3. RefusalInv'
  BY <1>1, SameJudgement DEF RefusalInv, Before, After
<1> QED
  BY <1>2, <1>3 DEF FateInv

\* Loading gives each parameter what was passed for it.
LEMMA LoadFate ==
  ASSUME CallInv, FateInv, LoadPython \/ LoadMatlab
  PROVE  FateInv'
<1>1. /\ pc = "load" /\ call \in Calls /\ UNCHANGED <<call, values, inType, ran, result>>
  BY DEF CallInv, LoadPython, LoadMatlab
<1>2. CASE Raise("arguments") /\ ~Loads
  <2>1. \A i \in InOpts : P(i).name # "arguments"
    BY <1>1, Incoming DEF InOpts, Ins, Opts, Causes
  <2> QED
    BY <1>1, <1>2, <2>1, UnloadedIsUnacceptable, RaisedFate DEF Raise
<1>3. CASE Goto("defaults") /\ Loads /\ \A i \in InOpts : script'[i] = Passed(i)
  <2>1. pc' = "defaults" /\ error' = error /\ pyErr' = pyErr
    BY <1>3 DEF Goto
  <2>2. ArgumentInv'
    BY <1>1, <1>3, SameJudgement DEF ArgumentInv
  <2>3. RefusalInv'
    BY <1>1, <2>1, SameJudgement DEF FateInv, RefusalInv, Before, After
  <2>4. VoxelInv'
    BY <1>1, <2>1, SameJudgement, SameCall
    DEF FateInv, VoxelInv, HasVoxels, Before
  <2> QED
    BY <2>2, <2>3, <2>4 DEF FateInv
<1>4. \A i \in InOpts : i \in Params /\ i \notin Outs
  BY <1>1, Incoming DEF InOpts, Ins, Opts
<1>5. CASE LoadPython /\ Parses
  <2>1. /\ script' = [i \in Params |-> IF i \in InOpts /\ Given(i) THEN Argument(i) ELSE Null]
        /\ Goto("defaults") /\ Python
    BY <1>5 DEF LoadPython
  <2> QED
    BY <1>3, <1>4, <1>5, <2>1 DEF Loads, Passed
<1>6. CASE LoadMatlab /\ Counts
  <2>1. /\ script' = [i \in Params |->
              IF i \in Outs THEN Mex!Cell(Position(Outs, i), call.nlhs, Null)
              ELSE Mex!Cell(Position(InOpts, i), Len(call.args), IF Given(i) THEN Argument(i) ELSE Null)]
        /\ Goto("defaults") /\ ~Python
    BY <1>6 DEF LoadMatlab
  <2>2. \A i \in InOpts : script'[i] = Passed(i)
    BY <1>4, <2>1 DEF Passed, Given, Mex!Cell, Mex!NoCell, Mex!Null, Mex!Object, NoCell, Null, Object
  <2> QED
    BY <1>3, <1>6, <2>1, <2>2 DEF Loads
<1> QED
  BY <1>2, <1>5, <1>6 DEF LoadPython, LoadMatlab, Loads

\* A conversion ends with all of its arguments right, or with the first that is not.
LEMMA ConvertFate ==
  ASSUME CallInv, FateInv, NEW S, NEW next, ConvertSubset(S, next),
         \/ /\ pc = "convert" /\ next = "execute"
            /\ S = {i \in InOpts : ~isDeferred(P(i))}
         \/ /\ pc = "process" /\ next = "create"
            /\ S = {i \in InOpts : isDeferred(P(i))},
         UNCHANGED <<call, script, inType, ran, result>>
  PROVE  FateInv'
<1> DEFINE Stops == {i \in S : script[i] = NoCell \/ Rejected(i) \/ NoAxis(i)}
<1>1. /\ call \in Calls /\ Loads /\ ~ran /\ S \subseteq InOpts
      /\ \A i \in InOpts : i \in Params /\ i \in Nat /\ script[i] = Passed(i)
      /\ \A i \in Params : P(i).name \notin Causes
  BY Incoming DEF CallInv, FateInv, ArgumentInv, RefusalInv, Before, InOpts, Ins, Opts
<1>2. \A i \in S : inType = TypeFor(i)
  BY <1>1, Incoming DEF FateInv, RefusalInv, TypeFor
<1>3. \A i \in S : Rejected(i) <=> Wrong(i)
  BY <1>1, <1>2, RejectedIsWrong
<1>5. ASSUME Stops = {}, pc' = next, error' = error,
             values' = [i \in Params |->
               IF i \in S /\ HasObject(i) THEN convert_impl(P(i), script[i]) ELSE values[i]]
      PROVE  FateInv'
  <2>1. /\ values' = [i \in Params |->
             IF i \in S /\ HasObject(i) THEN convert_impl(P(i), script[i]) ELSE values[i]]
        /\ pc' = next /\ error' = error
    BY <1>5
  <2>2. \A i \in S : ~Wrong(i)
    BY <1>3, <1>5
  <2>3. ArgumentInv'
    BY <1>1, SameJudgement DEF ArgumentInv
  <2>4. CASE pc = "convert"
    <3>1. RefusalInv'
      BY <1>1, <2>1, <2>2, <2>4, SameJudgement DEF FateInv, RefusalInv, Before, After
    <3>2. ~Helper => values'[FirstImage] = values[FirstImage]
      BY <1>1, <2>1, <2>4, Incoming
    <3>3. VoxelInv'
      BY <1>1, <2>1, <2>4, <3>2, SameJudgement, SameCall
      DEF FateInv, VoxelInv, HasVoxels, Before
    <3> QED
      BY <2>3, <3>1, <3>3 DEF FateInv
  <2>5. CASE pc = "process"
    <3>1. ~Helper
      BY <2>5 DEF CallInv
    <3>2. /\ FirstImage \in Ins /\ isImage(P(FirstImage)) /\ FirstImage \in S /\ Ins \subseteq InOpts
          /\ FirstImage \in Params
      BY <1>1, <2>5, <3>1, Incoming
    <3>3. Acceptable
      <4>1. \A i \in InOpts : ~Wrong(i)
        BY <2>2, <2>5 DEF FateInv, RefusalInv, Before
      <4> QED
        BY <1>1, <2>5, <4>1, LoadedIsPlausible DEF Acceptable, FateInv, RefusalInv
    <3>4. RefusalInv'
      BY <1>1, <2>1, <2>5, <3>3, SameJudgement DEF FateInv, RefusalInv, Before, After, Acceptable
    <3>5. values'[FirstImage].of # NoObject =>
            NotEmpty(FirstImage) /\ Argument(FirstImage).kind = "array"
      <4>1. values[FirstImage].of = NoObject
        BY <2>5, <3>1 DEF FateInv, VoxelInv, HasVoxels, Before
      <4>2. values'[FirstImage].of # NoObject => HasObject(FirstImage)
        BY <2>1, <3>2, <4>1
      <4>3. Given(FirstImage) /\ Argument(FirstImage).kind = "array"
        BY <1>1, <3>2, LoadedIsPlausible
      <4> QED
        BY <1>1, <3>2, <4>2, <4>3 DEF HasObject, NotEmpty, Passed
    <3>6. VoxelInv'
      BY <1>1, <2>1, <2>5, <3>5, SameJudgement, SameCall
      DEF FateInv, VoxelInv, HasVoxels, Before
    <3> QED
      BY <2>3, <3>4, <3>6 DEF FateInv
  <2> QED
    BY <2>4, <2>5
<1>6. ASSUME Stops # {}, NEW pending, NEW cause, RaiseOver(pending, cause), Rejected(Least(Stops)),
             cause = P(Least(Stops)).name \/ cause = "internal"
      PROVE  FateInv'
  <2> DEFINE i == Least(Stops)
  <2>1. Stops \subseteq Nat
    BY <1>1
  <2>2. i \in Stops
    BY <1>6, <2>1, First
  <2> HIDE DEF i
  <2>3. i \in InOpts /\ i \in S /\ Rejected(i) /\ (cause = P(i).name \/ cause = "internal")
    BY <1>1, <1>6, <2>2 DEF i
  <2>4. Wrong(i) /\ ~Acceptable
    BY <1>3, <2>3 DEF Acceptable
  <2>5. \A j \in InOpts : P(j).name # "internal"
    BY <1>1 DEF Causes
  <2>6. \A j \in InOpts : P(j).name = cause => P(i).name = cause
    BY <2>3, <2>5
  <2> QED
    BY <1>6, <2>3, <2>4, <2>6, RaisedFate
<1>7. ASSUME NEW cause \in Causes, Crash(cause) PROVE FateInv'
  BY <1>1, <1>7, CrashedFate
<1> QED
  <2>1. {"cell", "no axis", "null string", "overrun"} \subseteq Causes
    BY DEF Causes
  <2> HIDE DEF Stops
  <2> QED
    BY <1>5, <1>6, <1>7, <2>1 DEF ConvertSubset, Stops

\* A call that gets as far is run, or refused for the type of its image.
LEMMA ExecuteFate ==
  ASSUME CallInv, FateInv, ExecuteHelper \/ Execute
  PROVE  FateInv'
<1>1. /\ pc = "execute" /\ call \in Calls /\ Loads /\ ~ran /\ UNCHANGED <<call, values, result>>
      /\ \A i \in InOpts : script[i] = Passed(i)
      /\ \A i \in Params : P(i).name \notin Causes
  BY Incoming DEF CallInv, FateInv, ArgumentInv, RefusalInv, Before, ExecuteHelper, Execute
<1>2. CASE Execute
  <2>1. /\ ~Helper /\ UNCHANGED <<script, ran>>
        /\ \/ /\ script[FirstImage].type \in PixelTypes
              /\ inType' = script[FirstImage].type /\ Goto("process")
           \/ script[FirstImage].type \notin PixelTypes /\ Raise("type")
    BY <1>2 DEF Execute, Helper
  <2>2. /\ FirstImage \in InOpts /\ Given(FirstImage)
        /\ script[FirstImage] = Argument(FirstImage)
    BY <1>1, <2>1, Incoming, LoadedIsPlausible DEF Passed
  <2>3. CASE script[FirstImage].type \notin PixelTypes /\ Raise("type")
    <3>1. ~Acceptable
      BY <2>1, <2>2, <2>3 DEF Acceptable, Helper
    <3>2. \A i \in InOpts : P(i).name # "type"
      BY <1>1 DEF Causes, InOpts, Ins, Opts
    <3> QED
      BY <1>1, <2>1, <2>3, <3>1, <3>2, RaisedFate DEF Raise
  <2>4. CASE /\ script[FirstImage].type \in PixelTypes
             /\ inType' = script[FirstImage].type /\ Goto("process")
    <3>1. pc' = "process" /\ error' = error /\ pyErr' = pyErr
      BY <2>4 DEF Goto
    <3>2. ArgumentInv'
      BY <1>1, <2>1, SameJudgement DEF ArgumentInv
    <3>3. RefusalInv'
      BY <1>1, <2>1, <2>2, <2>4, <3>1, SameJudgement DEF FateInv, RefusalInv, Before, After
    <3>4. VoxelInv'
      BY <1>1, <2>1, <3>1, SameJudgement, SameCall
      DEF FateInv, VoxelInv, HasVoxels, Before
    <3> QED
      BY <3>2, <3>3, <3>4 DEF FateInv
  <2> QED
    BY <2>1, <2>3, <2>4
<1>3. CASE ExecuteHelper
  <2>1. /\ Helper /\ ran' = TRUE
        /\ \/ /\ pc' = "outputs" /\ error' = error
              /\ script' = [i \in Params |-> IF i \in Structs THEN Made(P(i).name) ELSE script[i]]
           \/ Crash("cell")
    BY <1>3 DEF ExecuteHelper, Helper
  <2>2. Acceptable
    <3>1. \A i \in InOpts : ~isDeferred(P(i))
      BY <1>1, <2>1, Incoming
    <3>2. \A i \in InOpts : ~Wrong(i)
      BY <1>1, <3>1 DEF FateInv, RefusalInv, Before
    <3> QED
      BY <1>1, <2>1, <3>2, LoadedIsPlausible DEF Acceptable, Helper
  <2>3. CASE /\ pc' = "outputs" /\ error' = error
             /\ script' = [i \in Params |-> IF i \in Structs THEN Made(P(i).name) ELSE script[i]]
    <3>1. \A i \in InOpts : i \in Params /\ i \notin Structs
      BY <1>1, Incoming DEF Structs, InOpts, Ins, Opts
    <3>2. \A i \in InOpts : script'[i] = script[i]
      BY <2>3, <3>1
    <3>3. ArgumentInv'
      BY <1>1, <3>2, SameJudgement DEF ArgumentInv
    <3>4. RefusalInv'
      BY <1>1, <2>1, <2>2, <2>3, SameJudgement DEF FateInv, RefusalInv, Before, After, Acceptable
    <3>5. VoxelInv'
      BY <2>3 DEF VoxelInv, Before
    <3> QED
      BY <3>3, <3>4, <3>5 DEF FateInv
  <2>4. CASE Crash("cell")
    BY <1>1, <2>2, <2>4, CrashedFate DEF Causes
  <2> QED
    BY <2>1, <2>3, <2>4
<1> QED
  BY <1>2, <1>3

\* A sequence turned round twice is the sequence.
LEMMA ReverseTwice ==
  ASSUME NEW s \in Seq(Nat)
  PROVE  Reverse(Reverse(s)) = s
<1>1. Len(s) \in Nat /\ s = [i \in 1 .. Len(s) |-> s[i]]
  OBVIOUS
<1>2. /\ Len(Reverse(s)) = Len(s)
      /\ \A i \in 1 .. Len(s) : Reverse(s)[i] = s[(Len(s) - i) + 1]
  BY <1>1 DEF Reverse
<1>3. \A i \in 1 .. Len(s) : (Len(s) - i) + 1 \in 1 .. Len(s) /\ (Len(s) - ((Len(s) - i) + 1)) + 1 = i
  BY <1>1
<1>4. \A i \in 1 .. Len(s) : Reverse(s)[(Len(s) - i) + 1] = s[i]
  BY <1>2, <1>3
<1>5. Reverse(Reverse(s)) = [i \in 1 .. Len(s) |-> Reverse(s)[(Len(s) - i) + 1]]
  BY <1>2 DEF Reverse
<1> QED
  BY <1>1, <1>4, <1>5

\* The output that is made for an image is empty only if the image is.
LEMMA CreateFate ==
  ASSUME CallInv, FateInv, CreateOut \/ CreateOutFails
  PROVE  FateInv'
<1>1. /\ pc = "create" /\ pc' = "run" /\ call \in Calls /\ ~Helper /\ Loads /\ error' = error
      /\ UNCHANGED <<call, inType, ran>> /\ \A i \in InOpts : script[i] = Passed(i)
  BY DEF CallInv, FateInv, ArgumentInv, Before, CreateOut, CreateOutFails
<1>2. /\ FirstImage \in InOpts /\ FirstImage \notin ImageOuts /\ Given(FirstImage)
      /\ \A i \in InOpts : i \in Params /\ i \notin ImageOuts
      /\ \A i \in ImageOuts : i \in Params /\ P(i).name # NoObject
  BY <1>1, Incoming, LoadedIsPlausible DEF InOpts, Ins, Opts, ImageOuts, Outs, Causes
<1>3. RefusalInv'
  BY <1>1, SameJudgement DEF FateInv, RefusalInv, Before, After
<1>4. CASE CreateOut
  <2> DEFINE im == script[FirstImage]
             dims == getDimInfo(im)
             made == [i \in ImageOuts |->
                        Array(P(i).name, OutMap(call.cmd, inType),
                              IF isColumnMajor(im) THEN dims ELSE Reverse(dims),
                              IF isColumnMajor(im) THEN "F" ELSE "C")]
  <2>1. /\ script' = [i \in Params |-> IF i \in ImageOuts THEN made[i] ELSE script[i]]
        /\ values' = [i \in Params |->
             IF i \in ImageOuts /\ ~isEmpty(made[i]) THEN View(made[i]) ELSE values[i]]
    BY <1>4 DEF CreateOut
  <2>2. ArgumentInv'
    BY <1>1, <1>2, <2>1, SameJudgement DEF ArgumentInv
  <2>3. ASSUME HasVoxels(FirstImage)', NEW i \in ImageOuts PROVE HasVoxels(i)'
    <3>1. HasVoxels(FirstImage)
      BY <1>1, <1>2, <2>1, <2>3, SameJudgement DEF HasVoxels
    <3>2. NotEmpty(FirstImage) /\ im = Argument(FirstImage) /\ im.kind = "array"
      BY <1>1, <1>2, <3>1 DEF FateInv, VoxelInv, Passed
    <3>3. im.shape \in Seq(Nat)
      BY <1>1, <1>2, <3>2, GivenIsPassable DEF Passable
    <3>4. (IF isColumnMajor(im) THEN dims ELSE Reverse(dims)) = im.shape
      BY <3>3, ReverseTwice DEF getDimInfo
    <3>5. /\ made[i].shape = im.shape /\ made[i].kind = "array" /\ made[i].name = P(i).name
      BY <3>4 DEF Array, Object
    <3>6. ~isEmpty(made[i])
      BY <3>2, <3>5 DEF NotEmpty, isEmpty, Py!isEmpty, Mex!isEmpty
    <3>7. values'[i] = View(made[i])
      BY <1>2, <2>1, <3>6
    <3>8. values'[i].of = P(i).name
      BY <3>5, <3>7 DEF View, ImageView, Value
    <3> QED
      BY <1>2, <3>8 DEF HasVoxels
  <2>4. VoxelInv'
    BY <1>1, <2>3, SameJudgement, SameCall DEF VoxelInv, Before
  <2> QED
    BY <1>3, <2>2, <2>4 DEF FateInv
<1>5. CASE CreateOutFails
  <2>1. Python /\ pyErr' = "memory" /\ script' = script
    BY <1>5 DEF CreateOutFails
  <2>2. ArgumentInv'
    BY <1>1, <2>1, SameJudgement DEF ArgumentInv
  <2>3. VoxelInv'
    BY <1>1, <2>1, SameCall DEF VoxelInv, Before
  <2> QED
    BY <1>3, <2>2, <2>3 DEF FateInv
<1> QED
  BY <1>4, <1>5

\* The backend runs with right arguments only.
LEMMA RunFate ==
  ASSUME CallInv, FateInv, Run
  PROVE  FateInv'
<1>1. /\ pc = "run" /\ call \in Calls /\ Acceptable /\ ran' = TRUE /\ error = "none"
      /\ UNCHANGED <<call, script, values, inType>>
      /\ \A i \in Params : P(i).name \notin Causes
  BY Incoming DEF CallInv, FateInv, RefusalInv, After, Run
<1>2. CASE Goto("outputs")
  <2>1. pc' = "outputs" /\ error' = error
    BY <1>2 DEF Goto
  <2>2. ArgumentInv'
    BY <1>1, SameJudgement DEF FateInv, ArgumentInv, Before, After
  <2>3. RefusalInv' /\ VoxelInv'
    BY <1>1, <2>1, SameJudgement
    DEF FateInv, RefusalInv, VoxelInv, Before, After, Acceptable
  <2> QED
    BY <2>2, <2>3 DEF FateInv
<1>3. CASE Raise("backend")
  <2>1. pc' = "raised" /\ error' = "backend"
    BY <1>3 DEF Raise, RaiseOver
  <2>2. \A i \in InOpts : P(i).name # "backend"
    BY <1>1 DEF Causes, InOpts, Ins, Opts
  <2>3. ArgumentInv' /\ VoxelInv'
    BY <2>1 DEF ArgumentInv, VoxelInv, Before, After
  <2>4. RefusalInv'
    BY <1>1, <2>1, <2>2, SameJudgement DEF RefusalInv, Before, After
  <2> QED
    BY <2>3, <2>4 DEF FateInv
<1>4. ASSUME NEW cause \in Causes, Crash(cause) PROVE FateInv'
  BY <1>1, <1>4, CrashedFate
<1> QED
  <2>1. {"no image", "extents", "filter"} \subseteq Causes
    BY DEF Causes
  <2> QED
    BY <1>2, <1>3, <1>4, <2>1 DEF Run

\* Returning the outputs does not change what the call has been through.
LEMMA OutputsFate ==
  ASSUME CallInv, FateInv, ConvertOutputs \/ Store
  PROVE  FateInv'
<1>1. /\ pc \in {"outputs", "store"} /\ call \in Calls /\ ran /\ error = "none"
      /\ UNCHANGED <<call, values, inType, ran>>
      /\ \A i \in InOpts : i \in Params /\ i \notin Outs
  BY Incoming DEF CallInv, FateInv, RefusalInv, After, ConvertOutputs, Store, InOpts, Ins, Opts
<1>2. ASSUME pc' \in {"store", "returned"}, error' = error,
             \A i \in InOpts : script'[i] = script[i]
      PROVE  FateInv'
  <2>1. ArgumentInv'
    BY <1>1, <1>2, SameJudgement DEF FateInv, ArgumentInv, Before, After
  <2>2. RefusalInv' /\ VoxelInv'
    BY <1>1, <1>2, SameJudgement
    DEF FateInv, RefusalInv, VoxelInv, Before, After
  <2> QED
    BY <2>1, <2>2 DEF FateInv
<1>3. CASE Store
  BY <1>2, <1>3 DEF Store
<1>4. CASE ConvertOutputs
  <2> DEFINE Missing == {i \in ImageOuts : script[i] = Null}
  <2>1. CASE /\ script' = [i \in Params |-> IF i \in Scalars THEN Made(P(i).name) ELSE script[i]]
             /\ pc' = "store" /\ UNCHANGED error
    BY <1>1, <1>2, <2>1 DEF Scalars
  <2>2. CASE Crash("cell")
    <3>1. Acceptable
      BY <1>1 DEF FateInv, RefusalInv
    <3> QED
      BY <1>1, <2>2, <3>1, CrashedFate DEF Causes
  <2>3. CASE Missing # {} /\ Raise(P(Least(Missing)).name)
    <3>1. Missing \subseteq Nat
      BY <1>1, Incoming DEF ImageOuts
    <3>2. Least(Missing) \in ImageOuts
      BY <2>3, <3>1, First
    <3>3. \A i \in InOpts : P(i).name # P(Least(Missing)).name
      BY <1>1, <3>2, Incoming
    <3> QED
      BY <1>1, <2>3, <3>3, RaisedFate DEF Raise
  <2> QED
    BY <1>4, <2>1, <2>2, <2>3 DEF ConvertOutputs
<1> QED
  BY <1>3, <1>4
-----------------------------------------------------------------------------
(***************************************************************************)
(* What the backend is given                                               *)
(***************************************************************************)
\* The number of elements, an extent at a time.
Extent(s, k) == IF k <= Len(s) THEN s[k] ELSE 1

\* The products of the first extents, one extent at a time.
LEMMA Products ==
  ASSUME NEW s \in Seq(Nat)
  PROVE  \E r : /\ Product(s) = r[Len(s)] /\ r[0] = 1
                /\ \A n \in 0 .. Len(s) : r[n] \in Nat
                /\ \A n \in 1 .. Len(s) : r[n] = r[n - 1] * s[n]
<1> DEFINE Is(p, m) == p = [n \in 0 .. m |-> IF n = 0 THEN 1 ELSE p[n - 1] * s[n]]
           Bad == {m \in 0 .. Len(s) : ~ \E p : Is(p, m)}
           r == CHOOSE p : Is(p, Len(s))
<1>1. Len(s) \in Nat /\ \A k \in 1 .. Len(s) : s[k] \in Nat
  <2>1. \A k \in 1 .. Len(s) : s[k] \in Nat
    BY SMT
  <2>2. Len(s) \in Nat
    BY SMT
  <2> QED
    BY <2>1, <2>2
<1>2. Bad = {}
  <2> SUFFICES ASSUME Bad # {} PROVE FALSE
    OBVIOUS
  <2>1. Bad \subseteq Nat
    BY <1>1
  <2>2. PICK m : m \in Bad /\ \A n \in Bad : m <= n
    BY <2>1, First
  <2>3. m \in 0 .. Len(s) /\ m \in Nat
    BY <1>1, <2>2
  <2>4. m # 0
    <3>1. Is([n \in 0 .. 0 |-> 1], 0)
      OBVIOUS
    <3> QED
      BY <2>2, <3>1
  <2>5. m - 1 \in 0 .. Len(s) /\ ~ (m <= m - 1)
    BY <1>1, <2>3, <2>4
  <2>6. PICK p : Is(p, m - 1)
    BY <2>2, <2>5
  <2> DEFINE q == [n \in 0 .. m |-> IF n = m THEN p[m - 1] * s[m] ELSE p[n]]
  <2>7. ASSUME NEW n \in 0 .. m PROVE q[n] = IF n = 0 THEN 1 ELSE q[n - 1] * s[n]
    <3>1. CASE n = m
      BY <2>3, <2>4, <3>1
    <3>2. CASE n # m
      <4>1. n \in 0 .. m - 1 /\ (n # 0 => n - 1 \in 0 .. m /\ n - 1 # m)
        BY <2>3, <3>2
      <4>2. p[n] = IF n = 0 THEN 1 ELSE p[n - 1] * s[n]
        BY <2>6, <4>1
      <4> QED
        BY <3>2, <4>1, <4>2
    <3> QED
      BY <3>1, <3>2
  <2>8. Is(q, m)
    BY <2>7
  <2> QED
    BY <2>2, <2>8
<1>3. Is(r, Len(s))
  <2>1. Len(s) \in 0 .. Len(s)
    BY <1>1
  <2>2. \E p : Is(p, Len(s))
    BY <1>2, <2>1
  <2> HIDE DEF Is
  <2> QED
    BY <2>2
<1>4. Product(s) = r[Len(s)]
  BY DEF Product
<1> HIDE DEF r
<1>5. r[0] = 1 /\ \A n \in 1 .. Len(s) : r[n] = r[n - 1] * s[n]
  <2>1. \A n \in 0 .. Len(s) : r[n] = IF n = 0 THEN 1 ELSE r[n - 1] * s[n]
    BY <1>3, Zenon
  <2>2. 0 \in 0 .. Len(s) /\ \A n \in 1 .. Len(s) : n \in 0 .. Len(s) /\ n # 0
    BY <1>1
  <2> QED
    BY <2>1, <2>2, Zenon
<1>6. \A n \in 0 .. Len(s) : r[n] \in Nat
  <2> DEFINE Odd == {n \in 0 .. Len(s) : r[n] \notin Nat}
  <2> SUFFICES ASSUME Odd # {} PROVE FALSE
    OBVIOUS
  <2>1. Odd \subseteq Nat
    BY <1>1
  <2>2. PICK m : m \in Odd /\ \A n \in Odd : m <= n
    BY <2>1, First
  <2>3. m \in 1 .. Len(s) /\ m - 1 \in 0 .. Len(s) /\ ~ (m <= m - 1)
    BY <1>1, <1>5, <2>2
  <2>4. r[m - 1] \in Nat
    BY <2>2, <2>3
  <2> QED
    BY <1>1, <1>5, <2>2, <2>3, <2>4
<1> QED
  BY <1>4, <1>5, <1>6

\* The product of up to five extents, the missing ones being one.
LEMMA ProductOfExtents ==
  ASSUME NEW s \in Seq(Nat), Len(s) <= 5
  PROVE  Product(s) = Extent(s, 1) * Extent(s, 2) * Extent(s, 3) * Extent(s, 4) * Extent(s, 5)
<1>1. PICK r : /\ Product(s) = r[Len(s)] /\ r[0] = 1
               /\ \A n \in 0 .. Len(s) : r[n] \in Nat
               /\ \A n \in 1 .. Len(s) : r[n] = r[n - 1] * s[n]
  BY Products
<1>2. Len(s) \in {0, 1, 2, 3, 4, 5} /\ \A k \in 1 .. Len(s) : s[k] \in Nat
  <2>1. \A k \in 1 .. Len(s) : s[k] \in Nat
    BY SMT
  <2>2. Len(s) \in Nat
    BY SMT
  <2>3. \A n \in Nat : n <= 5 => n \in {0, 1, 2, 3, 4, 5}
    BY SMT
  <2> QED
    BY <2>1, <2>2, <2>3
<1>3. CASE Len(s) = 0
  BY <1>1, <1>3 DEF Extent
<1>4. CASE Len(s) = 1
  BY <1>1, <1>2, <1>4 DEF Extent
<1>5. CASE Len(s) = 2
  BY <1>1, <1>2, <1>5 DEF Extent
<1>6. CASE Len(s) = 3
  BY <1>1, <1>2, <1>6 DEF Extent
<1>7. CASE Len(s) = 4
  <2>1. Extent(s, 5) = 1 /\ \A k \in {1, 2, 3, 4} : Extent(s, k) = s[k]
    BY <1>7 DEF Extent
  <2>2. /\ r[1] = r[0] * s[1] /\ r[2] = r[1] * s[2] /\ r[3] = r[2] * s[3] /\ r[4] = r[3] * s[4]
        /\ s[1] \in Nat /\ r[4] \in Nat
    BY <1>1, <1>2, <1>7
  <2> QED
    BY <1>1, <1>7, <2>1, <2>2
<1>8. CASE Len(s) = 5
  <2>1. \A k \in {1, 2, 3, 4, 5} : Extent(s, k) = s[k]
    BY <1>8 DEF Extent
  <2>2. /\ r[1] = r[0] * s[1] /\ r[2] = r[1] * s[2] /\ r[3] = r[2] * s[3] /\ r[4] = r[3] * s[4]
        /\ r[5] = r[4] * s[5] /\ s[1] \in Nat
    BY <1>1, <1>2, <1>8
  <2> QED
    BY <1>1, <1>8, <2>1, <2>2
<1> QED
  BY <1>2, <1>3, <1>4, <1>5, <1>6, <1>7, <1>8

\* More times as many is more.
LEMMA TimesMore ==
  ASSUME NEW a \in Nat, NEW b \in Nat, NEW c \in Nat, b <= c
  PROVE  a * b <= a * c /\ b * a <= c * a
<1>1. PICK d \in Nat : c = b + d
  <2>1. c - b \in Nat /\ c = b + (c - b)
    OBVIOUS
  <2> QED
    BY <2>1
<1>2. a * c = a * b + a * d /\ a * d \in Nat
  BY <1>1
<1>3. a * b \in Nat /\ b * a = a * b /\ c * a = a * c
  OBVIOUS
<1> QED
  BY <1>2, <1>3

\* Five extents from either end make no more than all of them, if none is zero.
LEMMA FiveOfMore ==
  ASSUME NEW s \in Seq(Nat), 5 < Len(s), Product(s) # 0
  PROVE  /\ s[1] * s[2] * s[3] * s[4] * s[5] <= Product(s)
         /\ s[Len(s)] * s[Len(s) - 1] * s[Len(s) - 2] * s[Len(s) - 3] * s[Len(s) - 4] <= Product(s)
<1>1. PICK r : /\ Product(s) = r[Len(s)] /\ r[0] = 1
               /\ \A n \in 0 .. Len(s) : r[n] \in Nat
               /\ \A n \in 1 .. Len(s) : r[n] = r[n - 1] * s[n]
  BY Products
<1>2. PICK L \in Nat : L = Len(s) /\ 5 < L /\ \A k \in 1 .. L : s[k] \in Nat
  <2>1. \A k \in 1 .. Len(s) : s[k] \in Nat
    BY SMT
  <2>2. Len(s) \in Nat
    BY SMT
  <2> QED
    BY <2>1, <2>2
<1>3. \A n \in 5 .. L : r[n] = 0 \/ r[5] <= r[n]
  <2> DEFINE Odd == {n \in 5 .. L : ~ (r[n] = 0 \/ r[5] <= r[n])}
  <2> SUFFICES ASSUME Odd # {} PROVE FALSE
    OBVIOUS
  <2>1. Odd \subseteq Nat
    BY <1>2
  <2>2. PICK m : m \in Odd /\ \A n \in Odd : m <= n
    BY <2>1, First
  <2>3. m \in 5 .. L /\ r[m] # 0 /\ ~ (r[5] <= r[m])
    BY <2>2
  <2>4. 5 \in 0 .. L /\ r[5] \in Nat
    BY <1>1, <1>2
  <2>5. m # 5
    BY <2>3, <2>4
  <2>6. m - 1 \in 5 .. L /\ m - 1 \in 0 .. L /\ m \in 1 .. L /\ ~ (m <= m - 1)
    BY <1>2, <2>3, <2>5
  <2>7. r[m - 1] = 0 \/ r[5] <= r[m - 1]
    BY <2>2, <2>6
  <2>8. /\ r[m - 1] \in Nat /\ s[m] \in Nat /\ r[m] = r[m - 1] * s[m]
    BY <1>1, <1>2, <2>6
  <2>9. r[m - 1] # 0 /\ s[m] # 0
    BY <2>3, <2>8
  <2>10. r[m - 1] * 1 <= r[m - 1] * s[m]
    <3>1. 1 \in Nat /\ 1 <= s[m]
      BY <2>8, <2>9
    <3> QED
      BY <2>8, <3>1, TimesMore
  <2> QED
    BY <2>3, <2>4, <2>7, <2>8, <2>9, <2>10
<1>4. s[1] * s[2] * s[3] * s[4] * s[5] = r[5]
  <2>1. \A k \in {1, 2, 3, 4, 5} : k \in 1 .. L /\ r[k] = r[k - 1] * s[k]
    BY <1>1, <1>2
  <2>2. s[1] \in Nat
    BY <1>2, <2>1
  <2>3. /\ r[1] = r[0] * s[1] /\ r[2] = r[1] * s[2] /\ r[3] = r[2] * s[3] /\ r[4] = r[3] * s[4]
        /\ r[5] = r[4] * s[5]
    BY <2>1
  <2> QED
    BY <1>1, <2>2, <2>3
<1>5. r[L] = r[L - 5] * (s[L] * s[L - 1] * s[L - 2] * s[L - 3] * s[L - 4])
  <2>1. PICK a \in Nat, b \in Nat, c \in Nat, d \in Nat, e \in Nat :
          a = s[L] /\ b = s[L - 1] /\ c = s[L - 2] /\ d = s[L - 3] /\ e = s[L - 4]
    <3>1. \A k \in {0, 1, 2, 3, 4} : L - k \in 1 .. L
      BY <1>2
    <3>2. \A k \in {0, 1, 2, 3, 4} : s[L - k] \in Nat
      BY <1>2, <3>1
    <3>3. L - 0 = L
      BY <1>2
    <3> QED
      BY <3>2, <3>3
  <2>2. /\ r[L] = r[L - 1] * a /\ r[L - 1] = r[L - 2] * b /\ r[L - 2] = r[L - 3] * c
        /\ r[L - 3] = r[L - 4] * d /\ r[L - 4] = r[L - 5] * e /\ r[L - 5] \in Nat
    <3>1. /\ L \in 1 .. L /\ L - 1 \in 1 .. L /\ L - 2 \in 1 .. L /\ L - 3 \in 1 .. L
          /\ L - 4 \in 1 .. L /\ L - 5 \in 0 .. L
          /\ (L - 1) - 1 = L - 2 /\ (L - 2) - 1 = L - 3 /\ (L - 3) - 1 = L - 4
          /\ (L - 4) - 1 = L - 5
      BY <1>2
    <3> QED
      BY <1>1, <1>2, <2>1, <3>1
  <2>3. \A x \in Nat : ((((x * e) * d) * c) * b) * a = x * ((((a * b) * c) * d) * e)
    BY SMT
  <2> QED
    BY <2>1, <2>2, <2>3
<1>6. PICK x \in Nat, y \in Nat :
        /\ x = r[L - 5] /\ y = s[L] * s[L - 1] * s[L - 2] * s[L - 3] * s[L - 4]
  <2>1. \A k \in {0, 1, 2, 3, 4} : L - k \in 1 .. L
    BY <1>2
  <2>2. \A k \in {0, 1, 2, 3, 4} : s[L - k] \in Nat
    BY <1>2, <2>1
  <2>3. PICK a \in Nat, b \in Nat, c \in Nat, d \in Nat, e \in Nat :
          a = s[L] /\ b = s[L - 1] /\ c = s[L - 2] /\ d = s[L - 3] /\ e = s[L - 4]
    <3>1. L - 0 = L
      BY <1>2
    <3> QED
      BY <2>2, <3>1
  <2>4. a * b * c * d * e \in Nat
    BY SMT
  <2>5. r[L - 5] \in Nat
    BY <1>1, <1>2
  <2> QED
    BY <2>3, <2>4, <2>5
<1>7. y <= x * y
  <2>1. x * y # 0
    BY <1>1, <1>2, <1>5, <1>6
  <2>2. 1 \in Nat /\ 1 <= x
    BY <2>1
  <2> QED
    BY <2>2, TimesMore
<1> QED
  <2>1. r[5] <= r[L]
    BY <1>1, <1>2, <1>3
  <2> QED
    BY <1>1, <1>2, <1>4, <1>5, <1>6, <1>7, <2>1

\* A sequence turned round.
LEMMA Reversed ==
  ASSUME NEW s \in Seq(Nat)
  PROVE  /\ Reverse(s) \in Seq(Nat) /\ Len(Reverse(s)) = Len(s)
         /\ \A k \in 1 .. Len(s) : Reverse(s)[k] = s[(Len(s) - k) + 1]
<1>1. Reverse(s) = [k \in 1 .. Len(s) |-> s[(Len(s) - k) + 1]]
  BY DEF Reverse
<1>2. Len(s) \in Nat /\ \A k \in 1 .. Len(s) : s[k] \in Nat
  OBVIOUS
<1>3. \A k \in 1 .. Len(s) : (Len(s) - k) + 1 \in 1 .. Len(s)
  BY <1>2
<1> QED
  BY <1>1, <1>2, <1>3

\* Up to five extents have the same product from either end.
LEMMA ProductBackwards ==
  ASSUME NEW s \in Seq(Nat), Len(s) <= 5
  PROVE  Product(Reverse(s)) = Product(s)
<1> DEFINE t == Reverse(s)
<1>1. /\ t \in Seq(Nat) /\ Len(t) = Len(s)
      /\ \A k \in 1 .. Len(s) : t[k] = s[(Len(s) - k) + 1]
  BY Reversed
<1> SUFFICES Product(t) = Product(s)
  BY DEF t
<1> HIDE DEF t
<1>2. /\ Product(s) = Extent(s, 1) * Extent(s, 2) * Extent(s, 3) * Extent(s, 4) * Extent(s, 5)
      /\ Product(t) = Extent(t, 1) * Extent(t, 2) * Extent(t, 3) * Extent(t, 4) * Extent(t, 5)
  BY <1>1, ProductOfExtents
<1>3. \A k \in 1 .. Len(s) : s[k] \in Nat
  BY SMT
<1>4. CASE Len(s) = 0
  BY <1>1, <1>2, <1>4 DEF Extent
<1>5. CASE Len(s) = 1
  BY <1>1, <1>2, <1>3, <1>5 DEF Extent
<1>6. CASE Len(s) = 2
  BY <1>1, <1>2, <1>3, <1>6 DEF Extent
<1>7. CASE Len(s) = 3
  BY <1>1, <1>2, <1>3, <1>7 DEF Extent
<1>8. CASE Len(s) = 4
  BY <1>1, <1>2, <1>3, <1>8 DEF Extent
<1>9. CASE Len(s) = 5
  BY <1>1, <1>2, <1>3, <1>9 DEF Extent
<1> QED
  <2>1. Len(s) \in Nat
    BY SMT
  <2>2. \A n \in Nat : n <= 5 => n \in {0, 1, 2, 3, 4, 5}
    BY SMT
  <2> QED
    BY <1>4, <1>5, <1>6, <1>7, <1>8, <1>9, <2>1, <2>2, Zenon

\* A view of an array with elements shows them all if it fits, and nothing beyond it.
LEMMA ViewShows ==
  ASSUME NEW o, o.shape \in Seq(Nat), o.order \in {"F", "C"}, Product(o.shape) # 0
  PROVE  Shows(View(o), o)
<1> DEFINE s == o.shape
           g == getDimInfo(o)
           v == View(o).nums
<1>1. Len(s) \in Nat /\ \A k \in 1 .. Len(s) : s[k] \in Nat
  <2>1. \A k \in 1 .. Len(s) : s[k] \in Nat
    BY SMT
  <2>2. Len(s) \in Nat
    BY SMT
  <2> QED
    BY <2>1, <2>2
<1>2. /\ g \in Seq(Nat) /\ Len(g) = Len(s) /\ (Len(s) <= 5 => Product(g) = Product(s))
      /\ \A k \in 1 .. Len(s) : g[k] = IF o.order = "F" THEN s[k] ELSE s[(Len(s) - k) + 1]
  BY <1>1, Reversed, ProductBackwards DEF getDimInfo, isColumnMajor
<1>3. /\ v = [[k \in 1..5 |-> Extent(g, k)] EXCEPT ![4] = @ % ByteMod]
      /\ View(o).of = o.name
  BY DEF View, ImageView, Value, makeImageDims, Extent
<1>4. /\ \A k \in 1..5 : Extent(g, k) \in Nat
      /\ \A k \in 1..Len(s) : g[k] \in Nat
  <2> HIDE DEF g
  <2>1. \A k \in 1 .. Len(g) : g[k] \in Nat
    BY <1>2, SMT
  <2> QED
    BY <1>2, <2>1 DEF Extent
<1>5. FitsView(o) => Len(s) <= 5 /\ Extent(g, 4) < ByteMod
  <2> SUFFICES ASSUME FitsView(o) PROVE Len(s) <= 5 /\ Extent(g, 4) < ByteMod
    OBVIOUS
  <2>1. CASE Len(s) < 4
    BY <1>1, <1>2, <2>1, ScriptObjectsAssumption DEF Extent
  <2>2. CASE Len(s) >= 4 /\ o.order = "F"
    <3>1. Len(s) <= 5 /\ s[4] < ByteMod
      BY <1>1, <2>2 DEF FitsView
    <3> QED
      BY <1>1, <1>2, <2>2, <3>1 DEF Extent
  <2>3. CASE Len(s) >= 4 /\ o.order # "F"
    <3>1. Len(s) <= 5 /\ s[Len(s) - 3] < ByteMod
      BY <1>1, <2>3 DEF FitsView
    <3> QED
      BY <1>1, <1>2, <2>3, <3>1 DEF Extent
  <2> QED
    BY <1>1, <2>1, <2>2, <2>3
<1> DEFINE all == Extent(g, 1) * Extent(g, 2) * Extent(g, 3) * Extent(g, 4) * Extent(g, 5)
<1>6. all <= Product(s) /\ (Len(s) <= 5 => all = Product(s))
  <2>1. CASE Len(s) <= 5
    <3>1. all = Product(s)
      BY <1>1, <1>2, <2>1, ProductOfExtents
    <3>2. all \in Nat
      <4> HIDE DEF g
      <4> QED
        BY <1>4
    <3> QED
      BY <2>1, <3>1, <3>2
  <2>2. CASE 5 < Len(s)
    <3>1. \A k \in 1 .. 5 : Extent(g, k) = g[k]
      BY <1>1, <1>2, <2>2 DEF Extent
    <3>2. CASE o.order = "F"
      <4>1. \A k \in {1, 2, 3, 4, 5} : k \in 1 .. 5 /\ k \in 1 .. Len(s)
        BY <1>1, <2>2
      <4>2. \A k \in {1, 2, 3, 4, 5} : Extent(g, k) = s[k]
        BY <1>2, <3>1, <3>2, <4>1
      <4>3. all = s[1] * s[2] * s[3] * s[4] * s[5]
        BY <4>2
      <4>4. s[1] * s[2] * s[3] * s[4] * s[5] <= Product(s)
        BY <2>2, FiveOfMore
      <4> QED
        BY <1>1, <2>2, <4>3, <4>4
    <3>3. CASE o.order # "F"
      <4>1. \A k \in {1, 2, 3, 4, 5} : k \in 1 .. 5 /\ k \in 1 .. Len(s)
        BY <1>1, <2>2
      <4>2. \A k \in {1, 2, 3, 4, 5} : Extent(g, k) = s[(Len(s) - k) + 1]
        BY <1>2, <3>1, <3>3, <4>1
      <4>3. /\ (Len(s) - 1) + 1 = Len(s) /\ (Len(s) - 2) + 1 = Len(s) - 1
            /\ (Len(s) - 3) + 1 = Len(s) - 2 /\ (Len(s) - 4) + 1 = Len(s) - 3
            /\ (Len(s) - 5) + 1 = Len(s) - 4
        BY <1>1
      <4>4. all = s[Len(s)] * s[Len(s) - 1] * s[Len(s) - 2] * s[Len(s) - 3] * s[Len(s) - 4]
        BY <4>2, <4>3
      <4>5. s[Len(s)] * s[Len(s) - 1] * s[Len(s) - 2] * s[Len(s) - 3] * s[Len(s) - 4] <= Product(s)
        BY <2>2, FiveOfMore
      <4> QED
        BY <1>1, <2>2, <4>4, <4>5
    <3> QED
      BY <2>2, <3>2, <3>3
  <2> QED
    BY <1>1, <2>1, <2>2
<1>7. PICK w \in Nat : w = all
  <2> HIDE DEF g
  <2> QED
    BY <1>4
<1> HIDE DEF g, s, v
<1>8. PICK c \in Nat : /\ c = Extent(g, 4) % ByteMod /\ c <= Extent(g, 4)
                       /\ Extent(g, 4) < ByteMod => c = Extent(g, 4)
  <2>1. \A x, m \in Nat : 0 < m => x % m \in Nat /\ x % m <= x /\ (x < m => x % m = x)
    BY SMT
  <2>2. Extent(g, 4) \in Nat
    BY <1>4
  <2> QED
    BY <2>1, <2>2, ScriptObjectsAssumption
<1>9. /\ v \in Seq(Nat) /\ Len(v) = 5 /\ v[4] = c
      /\ \A k \in {1, 2, 3, 5} : v[k] = Extent(g, k)
  BY <1>3, <1>4, <1>8
<1>10. Product(v) = Extent(g, 1) * Extent(g, 2) * Extent(g, 3) * c * Extent(g, 5)
  <2>1. Product(v) = Extent(v, 1) * Extent(v, 2) * Extent(v, 3) * Extent(v, 4) * Extent(v, 5)
    <3>1. Len(v) <= 5
      BY <1>9
    <3> QED
      BY <1>9, <3>1, ProductOfExtents, Zenon
  <2>2. Extent(v, 4) = c /\ \A k \in {1, 2, 3, 5} : Extent(v, k) = Extent(g, k)
    BY <1>9 DEF Extent
  <2> QED
    BY <2>1, <2>2
<1>11. Product(v) <= w /\ (Extent(g, 4) < ByteMod => Product(v) = w)
  <2>1. PICK m \in Nat, d \in Nat, e \in Nat :
          m = Extent(g, 1) * Extent(g, 2) * Extent(g, 3) /\ d = Extent(g, 4) /\ e = Extent(g, 5)
    BY <1>4
  <2>2. w = (m * d) * e /\ Product(v) = (m * c) * e /\ c <= d
    BY <1>7, <1>8, <1>10, <2>1
  <2>3. m * c <= m * d /\ m * c \in Nat /\ m * d \in Nat
    <3>1. m * c <= m * d
      BY <2>2, TimesMore
    <3> QED
      BY <3>1
  <2>4. (m * c) * e <= (m * d) * e
    BY <2>1, <2>3, TimesMore
  <2> QED
    BY <1>8, <2>1, <2>2, <2>4
<1>12. s # <<>> => v[1] = IF o.order = "C" THEN s[Len(s)] ELSE s[1]
  <2>1. s # <<>> => 1 \in 1 .. Len(s)
    BY <1>1 DEF s
  <2>2. 1 \in 1 .. Len(s) => g[1] = v[1]
    BY <1>2, <1>9 DEF Extent
  <2> QED
    BY <1>1, <1>2, <2>1, <2>2
<1>13. Product(v) \in Nat /\ Product(s) \in Nat
  <2>1. \A k \in 1 .. 5 : Extent(g, k) \in Nat
    BY <1>4
  <2>2. Product(v) \in Nat
    BY <1>10, <2>1
  <2> QED
    BY <2>2, Products DEF s
<1>14. IF FitsView(o) THEN Product(v) = Product(s) ELSE Product(v) <= Product(s)
  <2> HIDE DEF all
  <2> QED
    BY <1>1, <1>5, <1>6, <1>7, <1>11, <1>13
<1> QED
  BY <1>3, <1>12, <1>14 DEF Shows, s, v

\* static_cast<int> leaves nothing beyond its own width.
LEMMA WrapFits ==
  ASSUME NEW v \in Int
  PROVE  Wrap(v) \in Int /\ -IntMod <= Wrap(v) /\ Wrap(v) < IntMod
<1>1. \A m \in Nat : 1 < m => m \div 2 \in Nat /\ m \div 2 <= m
  BY SMT
<1>2. \A x \in Int, m \in Nat : 0 < m => x % m \in 0 .. m - 1
  BY SMT
<1>3. PICK h \in Nat : h = IntMod \div 2 /\ h <= IntMod
  BY <1>1, ScriptObjectsAssumption
<1>4. (v + h) % IntMod \in 0 .. IntMod - 1
  BY <1>2, ScriptObjectsAssumption
<1>5. Wrap(v) = ((v + h) % IntMod) - h
  BY <1>3 DEF Wrap
<1> QED
  BY <1>3, <1>4, <1>5, ScriptObjectsAssumption

\* What the trait of a parameter says of its type.
LEMMA TraitFacts ==
  ASSUME call \in Calls, NEW i \in Params
  PROVE  /\ P(i).trait = "ImageRef" => isDeferred(P(i))
         /\ P(i).trait = "Vector" => P(i).base = "double"
         /\ P(i).trait # "Scalar" => P(i).base # "string"
<1>1. call.cmd \in Commands
  BY DispatchAssumption
<1>2. Regular(call.cmd, Layout(call.cmd))
  BY <1>1, LayoutsAreGood DEF Good
<1> QED
  BY <1>2 DEF Regular, Params, P

\* A Python number is converted to what its item says, if the type has that.
LEMMA ItemIsMeant ==
  ASSUME NEW p, NEW item, p.base = "int" => Py!isNumeric(p.base, item), HasNumber(p, item),
         item.kind \in {"int", "bool"} => item.value \in Int
  PROVE  Py!toNumeric(p.base, item) = item.value
<1> DEFINE v == item.value
<1>1. CASE p.base = "int"
  <2>1. v \in Int /\ Wrap(v) = v /\ item.kind \in {"int", "bool"}
    BY <1>1 DEF HasNumber, Py!isNumeric
  <2>2. -IntMod <= v /\ v < IntMod
    BY <2>1, WrapFits
  <2>3. LongLong \in Nat /\ IntMod \in Nat /\ IntMod < LongLong
    BY DispatchAssumption, ScriptObjectsAssumption
  <2>4. ~ (v >= LongLong \/ v < -LongLong)
    BY <2>1, <2>2, <2>3
  <2>5. ~Py!Overflows(p.base, item)
    BY <1>1, <2>4 DEF Py!Overflows
  <2> QED
    BY <1>1, <2>1, <2>5 DEF Py!toNumeric, Py!Wrap, Wrap
<1>2. CASE p.base # "int"
  <2>1. CASE item.kind \in {"int", "bool"}
    <3>1. v \in Int /\ DoubleLimit \in Nat /\ -DoubleLimit < v /\ v < DoubleLimit
      BY <1>2, <2>1, DispatchAssumption DEF HasNumber
    <3>2. ~ (v >= DoubleLimit \/ v <= -DoubleLimit)
      BY <3>1
    <3>3. ~Py!Overflows(p.base, item)
      BY <1>2, <3>2 DEF Py!Overflows
    <3> QED
      BY <1>2, <3>3 DEF Py!toNumeric
  <2>2. CASE item.kind \notin {"int", "bool"}
    BY <1>2, <2>2 DEF Py!toNumeric, Py!Overflows
  <2> QED
    BY <2>1, <2>2
<1> QED
  BY <1>1, <1>2

\* A number is what the user wrote, or one that the parameter's type does not have.
LEMMA NumberIsMeant ==
  ASSUME call \in Calls, ~Helper, NEW i \in InOpts, NotEmpty(i), ~Wrong(i),
         ~isImage(P(i)), P(i).trait # "Vector"
  PROVE  Means(P(i), convert_impl(P(i), Argument(i)).nums, Argument(i).items)
<1> DEFINE o == Argument(i)
           p == P(i)
<1>1. /\ Given(i) /\ Passable(call.engine, o) /\ Takes(p, o, TypeFor(i))
  BY GivenIsPassable DEF NotEmpty, Wrong, TypeFor
<1>2. p.base # "string" /\ p.trait \notin {"Image", "ImageRef", "Vector"}
  <2>1. call.cmd # "Help"
    BY DEF Helper, HelperCommands
  <2> QED
    BY <2>1, Incoming DEF isImage
<1>3. CASE Python
  <2>1. Py!Takes(p, o, TypeFor(i))
    BY <1>1, <1>3 DEF Takes
  <2>2. o.kind \in {"int", "bool", "float"} /\ Py!isNumeric(p.base, o.items[1])
    BY <1>2, <2>1, Zenon DEF Py!Takes
  <2>3. Len(o.items) = 1 /\ DOMAIN o.items = 1 .. 1
    BY <1>1, <2>2 DEF Passable
  <2>4. convert_impl(p, o).nums = <<Py!toNumeric(p.base, o.items[1])>>
    <3>1. convert_impl(p, o) = Py!convert_impl(p, o)
      BY <1>3 DEF convert_impl
    <3>2. Py!convert_impl(p, o) = Py!Value(<<Py!toNumeric(p.base, o.items[1])>>, Py!NoObject)
      BY <1>2, Zenon DEF Py!convert_impl
    <3> QED
      BY <3>1, <3>2 DEF Py!Value
  <2>5. HasNumber(p, o.items[1]) => Py!toNumeric(p.base, o.items[1]) = o.items[1].value
    <3>1. 1 \in DOMAIN o.items
      BY <2>3
    <3>2. o.items[1].kind \in {"int", "bool"} => o.items[1].value \in Int
      BY <1>1, <3>1 DEF Passable
    <3> QED
      BY <2>2, <3>2, ItemIsMeant
  <2> QED
    BY <2>3, <2>4, <2>5 DEF Means
<1>4. CASE ~Python
  <2>1. Mex!Takes(p, o, TypeFor(i))
    BY <1>1, <1>4 DEF Takes
  <2>2. Mex!isNumeric(o)
    BY <1>2, <2>1, Zenon DEF Mex!Takes
  <2>3. o.kind = "array" /\ Product(o.shape) = 1
    BY <1>1, <1>4, <2>2 DEF Passable, Python, Mex!isNumeric, Mex!Product, Product
  <2>4. o.items = <<>> \/ DOMAIN o.items = 1 .. 1
    BY <1>1, <2>3 DEF Passable
  <2>5. convert_impl(p, o).nums = <<Mex!toNumeric(p.base, o)>>
    <3>1. convert_impl(p, o) = Mex!convert_impl(p, o)
      BY <1>4 DEF convert_impl
    <3>2. Mex!convert_impl(p, o) = Mex!Value(<<Mex!toNumeric(p.base, o)>>, Mex!NoObject)
      BY <1>2, Zenon DEF Mex!convert_impl
    <3> QED
      BY <3>1, <3>2 DEF Mex!Value
  <2>6. HasNumber(p, o.items[1]) => Mex!toNumeric(p.base, o) = o.items[1].value
    BY DEF HasNumber, Mex!toNumeric, Mex!Wrap, Wrap
  <2> QED
    BY <2>4, <2>5, <2>6 DEF Means
<1> QED
  BY <1>3, <1>4

\* A vector is x, y, z, whichever way its engine writes it.
LEMMA VectorIsMeant ==
  ASSUME call \in Calls, NEW i \in InOpts, NotEmpty(i), ~Wrong(i), P(i).trait = "Vector"
  PROVE  Means(P(i), convert_impl(P(i), Argument(i)).nums,
               IF Python THEN Reverse(Argument(i).items) ELSE Argument(i).items)
<1> DEFINE o == Argument(i)
           p == P(i)
<1>1. /\ Given(i) /\ Passable(call.engine, o) /\ Takes(p, o, TypeFor(i))
  BY GivenIsPassable DEF NotEmpty, Wrong, TypeFor
<1>2. p.base = "double" /\ p.base # "string"
  BY TraitFacts DEF InOpts, Ins, Opts
<1>3. CASE Python
  <2> DEFINE nums == [k \in DOMAIN o.items |-> Py!toNumeric(p.base, o.items[k])]
  <2>1. Len(o.items) \in Nat /\ DOMAIN o.items = 1 .. Len(o.items)
    BY <1>1 DEF Passable
  <2>2. convert_impl(p, o).nums = Reverse(nums)
    <3>1. convert_impl(p, o) = Py!convert_impl(p, o)
      BY <1>3 DEF convert_impl
    <3>2. Py!convert_impl(p, o) = Py!Value(Py!toVec(p.base, o), Py!NoObject)
      BY <1>2, Zenon DEF Py!convert_impl
    <3> QED
      BY <3>1, <3>2 DEF Py!Value, Py!toVec, Py!Reverse, Reverse
  <2>3. Len(nums) = Len(o.items)
    BY <2>1
  <2>4. ASSUME NEW k \in 1 .. Len(o.items), HasNumber(p, Reverse(o.items)[k])
        PROVE  Reverse(nums)[k] = Reverse(o.items)[k].value
    <3> DEFINE n == (Len(o.items) - k) + 1
    <3>1. n \in DOMAIN o.items
      BY <2>1
    <3>2. Reverse(nums)[k] = nums[n] /\ Reverse(o.items)[k] = o.items[n]
      BY <2>3 DEF Reverse
    <3>3. nums[n] = Py!toNumeric(p.base, o.items[n])
      BY <3>1
    <3>4. o.items[n].kind \in {"int", "bool"} => o.items[n].value \in Int
      BY <1>1, <3>1 DEF Passable
    <3>5. p.base # "int"
      BY <1>2
    <3> HIDE DEF nums, n
    <3> QED
      BY <2>4, <3>2, <3>3, <3>4, <3>5, ItemIsMeant
  <2>5. DOMAIN Reverse(o.items) = 1 .. Len(o.items)
    BY <2>1 DEF Reverse
  <2> HIDE DEF nums
  <2> QED
    BY <1>3, <2>2, <2>4, <2>5 DEF Means
<1>4. CASE ~Python
  <2>1. Mex!Takes(p, o, TypeFor(i))
    BY <1>1, <1>4 DEF Takes
  <2>2. Mex!isVec(o)
    BY <1>2, <2>1, Zenon DEF Mex!Takes
  <2>3. o.kind = "array" /\ Product(o.shape) = 3
    BY <1>1, <1>4, <2>2 DEF Passable, Python, Mex!isVec, Mex!Product, Product
  <2>4. o.items = <<>> \/ DOMAIN o.items = 1 .. 3
    BY <1>1, <2>3 DEF Passable
  <2>5. convert_impl(p, o).nums = [k \in 1 .. 3 |-> o.items[k].value]
    <3>1. convert_impl(p, o) = Mex!convert_impl(p, o)
      BY <1>4 DEF convert_impl
    <3>2. Mex!convert_impl(p, o) = Mex!Value(Mex!toVec(o), Mex!NoObject)
      BY <1>2, Zenon DEF Mex!convert_impl
    <3> QED
      BY <3>1, <3>2 DEF Mex!Value, Mex!toVec
  <2> QED
    BY <1>4, <2>4, <2>5 DEF Means
<1> QED
  BY <1>3, <1>4

\* A right image that is not empty is contiguous, one way or the other.
LEMMA ImageHasOrder ==
  ASSUME call \in Calls, NEW i \in InOpts, NotEmpty(i), ~Wrong(i), isImage(P(i))
  PROVE  /\ Argument(i).order \in {"F", "C"} /\ Argument(i).shape \in Seq(Nat)
         /\ P(i).trait = "ImageRef" => Argument(i).type = TypeFor(i)
<1> DEFINE o == Argument(i)
           p == P(i)
<1>1. /\ Given(i) /\ Passable(call.engine, o) /\ Takes(p, o, TypeFor(i))
  BY GivenIsPassable DEF NotEmpty, Wrong, TypeFor
<1>2. p.base # "string"
  BY TraitFacts DEF isImage, InOpts, Ins, Opts
<1>3. CASE Python
  <2>1. Py!Takes(p, o, TypeFor(i))
    BY <1>1, <1>3 DEF Takes
  <2>2. CASE p.trait = "ImageRef"
    <3>1. Py!TakesImage(o, TypeFor(i))
      BY <1>2, <2>1, <2>2, Zenon DEF Py!Takes
    <3> QED
      BY <1>1, <3>1 DEF Passable, Py!TakesImage, Py!isContiguous
  <2>3. CASE p.trait = "Image"
    <3>1. Py!TakesImageCopy(o)
      BY <1>2, <2>1, <2>3, Zenon DEF Py!Takes
    <3> QED
      BY <1>1, <2>3, <3>1 DEF Passable, Py!TakesImageCopy, Py!arrayCopies, Py!isContiguous
  <2> QED
    BY <2>2, <2>3 DEF isImage
<1>4. CASE ~Python
  <2>1. o.order = "F" /\ o.shape \in Seq(Nat)
    BY <1>1, <1>4 DEF Passable, Python
  <2>2. p.trait = "ImageRef" => o.type = TypeFor(i)
    <3>1. Mex!Takes(p, o, TypeFor(i))
      BY <1>1, <1>4 DEF Takes
    <3>2. p.trait = "ImageRef" => Mex!TakesImage(o, TypeFor(i))
      BY <1>2, <3>1, Zenon DEF Mex!Takes
    <3> QED
      BY <3>2 DEF Mex!TakesImage
  <2> QED
    BY <2>1, <2>2
<1> QED
  BY <1>3, <1>4

\* An image argument is converted to what a view of it has.
LEMMA ImageIsViewed ==
  ASSUME NEW p, isImage(p), p.base # "string", NEW o
  PROVE  convert_impl(p, o) = View(o)
<1>1. Py!View(o) = View(o) /\ Mex!View(o) = View(o)
  BY DEF Py!View, Mex!View, View, Py!ImageView, Mex!ImageView, ImageView, Py!Value, Mex!Value, Value,
         Py!makeImageDims, Mex!makeImageDims, makeImageDims, Py!getDimInfo, Mex!getDimInfo, getDimInfo,
         Py!isColumnMajor, Mex!isColumnMajor, isColumnMajor, Py!Reverse, Mex!Reverse, Reverse
<1>2. Py!toImageCopy(o) = Py!View(o) /\ Mex!toImageCopy(o) = Mex!View(o)
  BY DEF Py!toImageCopy, Mex!toImageCopy, Py!ImageOwner, Mex!ImageOwner, Py!View, Mex!View,
         Py!ImageView, Mex!ImageView
<1>3. Py!convert_impl(p, o) = Py!View(o)
  <2>1. CASE p.trait = "ImageRef"
    BY <2>1, Zenon DEF Py!convert_impl
  <2>2. CASE p.trait = "Image"
    BY <1>2, <2>2, Zenon DEF Py!convert_impl
  <2> QED
    BY <2>1, <2>2 DEF isImage
<1>4. Mex!convert_impl(p, o) = Mex!View(o)
  <2>1. CASE p.trait = "ImageRef"
    BY <2>1, Zenon DEF Mex!convert_impl
  <2>2. CASE p.trait = "Image"
    BY <1>2, <2>2, Zenon DEF Mex!convert_impl
  <2> QED
    BY <2>1, <2>2 DEF isImage
<1> QED
  BY <1>1, <1>3, <1>4 DEF convert_impl

\* What a parameter has before its argument is converted, and what its argument is converted to.
Initial(i) == IF i \in Opts THEN Value(P(i).default, NoObject) ELSE Blank(P(i))
Meant(i) == IF NotEmpty(i) THEN convert_impl(P(i), Argument(i)) ELSE Initial(i)

\* The output is made like the first image.
MadeAlike(i) ==
  /\ values[i].nums = values[FirstImage].nums
  /\ script[i].shape = Argument(FirstImage).shape
  /\ script[i].order = Argument(FirstImage).order
  /\ script[i].type = OutMap(call.cmd, Argument(FirstImage).type)

\* All of the arguments are converted, and stay so.
Converted == ~Helper /\ (pc \in {"create", "run"} \/ ran)

\* Every parameter keeps what it has until its turn to be converted, then has what its argument
\* means; and no output is seen before it is made.
ValueInv ==
  /\ pc \in {"load", "defaults"} => \A i \in Params : values[i] = Blank(P(i))
  /\ pc = "convert" => \A i \in InOpts : values[i] = Initial(i)
  /\ pc \in {"execute", "process"} =>
       \A i \in InOpts : values[i] = IF isDeferred(P(i)) THEN Initial(i) ELSE Meant(i)
  /\ pc \in Before => \A i \in ImageOuts : ~HasVoxels(i)
  /\ Converted =>
       /\ \A i \in InOpts : values[i] = Meant(i)
       /\ inType = Argument(FirstImage).type
  /\ Converted /\ pc # "create" => \A i \in ImageOuts : HasVoxels(i) => MadeAlike(i)

\* What was written stays what it was while the call does.
LEMMA SameMeaning ==
  ASSUME call' = call
  PROVE  \A i : Initial(i)' = Initial(i) /\ Meant(i)' = Meant(i)
<1>1. /\ (Python' <=> Python) /\ Params' = Params
      /\ \A i : P(i)' = P(i) /\ (NotEmpty(i)' <=> NotEmpty(i)) /\ Argument(i)' = Argument(i)
  BY SameCall, SameJudgement
<1>2. Opts' = Opts
  BY <1>1 DEF Opts
<1>3. \A i : Initial(i)' = Initial(i)
  BY <1>1, <1>2 DEF Initial
<1>4. \A p, o : convert_impl(p, o)' = convert_impl(p, o)
  BY <1>1 DEF convert_impl
<1> QED
  BY <1>1, <1>3, <1>4 DEF Meant

\* A parameter has an object that is not empty when an argument that is not empty was passed.
LEMMA ObjectIsArgument ==
  ASSUME call \in Calls, NEW i \in InOpts, script[i] = Passed(i)
  PROVE  /\ HasObject(i) <=> NotEmpty(i)
         /\ NotEmpty(i) => script[i] = Argument(i)
<1>1. CASE Given(i)
  BY <1>1, GivenIsPassable DEF Passed, Passable, HasObject, NotEmpty
<1>2. CASE ~Given(i)
  <2>1. Python => isEmpty(Null)
    BY DEF isEmpty, Py!isEmpty, Null, Object
  <2> QED
    BY <1>2, <2>1 DEF Passed, HasObject, NotEmpty
<1> QED
  BY <1>1, <1>2

\* A step after the conversions, which touches no argument and no image.
LEMMA StaysConverted ==
  ASSUME CallInv, ValueInv, UNCHANGED <<call, values, inType>>,
         \A i \in ImageOuts : script'[i] = script[i],
         Converted' => Converted /\ pc # "create", pc' \notin Before
  PROVE  ValueInv'
<1>1. /\ InOpts' = InOpts /\ ImageOuts' = ImageOuts /\ FirstImage' = FirstImage
      /\ \A i : P(i)' = P(i) /\ Argument(i)' = Argument(i) /\ Meant(i)' = Meant(i)
  BY SameCall, SameJudgement, SameMeaning
<1>2. \A i : HasVoxels(i)' <=> HasVoxels(i)
  BY DEF HasVoxels
<1>3. \A i \in ImageOuts : MadeAlike(i)' <=> MadeAlike(i)
  BY <1>1 DEF MadeAlike
<1> QED
  BY <1>1, <1>2, <1>3 DEF ValueInv, Before

\* A step that ends the call before its backend.
LEMMA EndsUnconverted ==
  ASSUME pc' \in {"raised", "crashed"}, ~ran'
  PROVE  ValueInv'
  BY DEF ValueInv, Converted, Before

\* A converted argument has what was passed for it.
LEMMA ConvertValues ==
  ASSUME CallInv, FateInv, ValueInv, ConvertNondeferred \/ ConvertDeferred
  PROVE  ValueInv'
<1>1. /\ call \in Calls /\ ~ran /\ UNCHANGED <<call, script, inType, ran>>
      /\ \A i \in InOpts : i \in Params /\ script[i] = Passed(i)
      /\ \A i \in ImageOuts : i \in Params /\ i \notin InOpts
  BY Incoming
  DEF CallInv, FateInv, ArgumentInv, RefusalInv, Before, ConvertNondeferred, ConvertDeferred,
      InOpts, Ins, Opts, ImageOuts, Outs
<1>2. /\ InOpts' = InOpts /\ ImageOuts' = ImageOuts /\ FirstImage' = FirstImage /\ (Helper' <=> Helper)
      /\ \A i : /\ P(i)' = P(i) /\ Argument(i)' = Argument(i) /\ Meant(i)' = Meant(i)
                /\ Initial(i)' = Initial(i)
  BY <1>1, SameCall, SameJudgement, SameMeaning
<1>3. ASSUME NEW S, S \subseteq InOpts, NEW next, ConvertSubset(S, next)
      PROVE  \/ /\ pc' = next
                /\ \A i \in InOpts : values'[i] = IF i \in S /\ NotEmpty(i) THEN Meant(i) ELSE values[i]
                /\ \A i \in ImageOuts : values'[i] = values[i]
             \/ pc' \in {"raised", "crashed"}
  <2>1. CASE /\ pc' = next
             /\ values' = [i \in Params |->
                  IF i \in S /\ HasObject(i) THEN convert_impl(P(i), script[i]) ELSE values[i]]
    <3>1. ASSUME NEW i \in InOpts
          PROVE  values'[i] = IF i \in S /\ NotEmpty(i) THEN Meant(i) ELSE values[i]
      <4>1. (HasObject(i) <=> NotEmpty(i)) /\ (NotEmpty(i) => script[i] = Argument(i))
        BY <1>1, ObjectIsArgument
      <4> QED
        BY <1>1, <2>1, <4>1 DEF Meant
    <3>2. \A i \in ImageOuts : values'[i] = values[i]
      BY <1>1, <1>3, <2>1
    <3> QED
      BY <2>1, <3>1, <3>2
  <2>2. CASE \E pending, cause : RaiseOver(pending, cause)
    BY <2>2 DEF RaiseOver
  <2>3. CASE \E cause : Crash(cause)
    BY <2>3 DEF Crash
  <2> QED
    BY <1>3, <2>1, <2>2, <2>3 DEF ConvertSubset
<1>4. \A i : ~NotEmpty(i) => Meant(i) = Initial(i)
  BY DEF Meant
<1>5. CASE ConvertNondeferred
  <2> DEFINE S == {i \in InOpts : ~isDeferred(P(i))}
  <2>1. pc = "convert" /\ ConvertSubset(S, "execute")
    BY <1>5 DEF ConvertNondeferred
  <2>2. CASE /\ pc' = "execute"
             /\ \A i \in InOpts : values'[i] = IF i \in S /\ NotEmpty(i) THEN Meant(i) ELSE values[i]
             /\ \A i \in ImageOuts : values'[i] = values[i]
    <3>1. \A i \in InOpts : values[i] = Initial(i)
      BY <2>1 DEF ValueInv
    <3>2. \A i \in InOpts : values'[i] = IF isDeferred(P(i)) THEN Initial(i) ELSE Meant(i)
      BY <1>4, <2>2, <3>1
    <3>3. \A i \in ImageOuts : ~HasVoxels(i)'
      BY <2>1, <2>2 DEF ValueInv, HasVoxels, Before
    <3>4. ~Converted'
      BY <1>1, <2>2 DEF Converted
    <3> QED
      BY <1>2, <2>2, <3>2, <3>3, <3>4 DEF ValueInv
  <2> QED
    BY <1>1, <1>3, <2>1, <2>2, EndsUnconverted
<1>6. CASE ConvertDeferred
  <2> DEFINE S == {i \in InOpts : isDeferred(P(i))}
  <2>1. pc = "process" /\ ConvertSubset(S, "create")
    BY <1>6 DEF ConvertDeferred
  <2>2. CASE /\ pc' = "create"
             /\ \A i \in InOpts : values'[i] = IF i \in S /\ NotEmpty(i) THEN Meant(i) ELSE values[i]
             /\ \A i \in ImageOuts : values'[i] = values[i]
    <3>1. \A i \in InOpts : values[i] = IF isDeferred(P(i)) THEN Initial(i) ELSE Meant(i)
      BY <2>1 DEF ValueInv
    <3>2. \A i \in InOpts : values'[i] = Meant(i)
      BY <1>4, <2>2, <3>1
    <3>3. \A i \in ImageOuts : ~HasVoxels(i)'
      BY <2>1, <2>2 DEF ValueInv, HasVoxels, Before
    <3>4. inType' = Argument(FirstImage).type
      BY <1>1, <2>1 DEF FateInv, RefusalInv
    <3> QED
      BY <1>2, <2>2, <3>2, <3>3, <3>4 DEF ValueInv
  <2> QED
    BY <1>1, <1>3, <2>1, <2>2, EndsUnconverted
<1> QED
  BY <1>5, <1>6

\* The output is made with the extents and the order of the image, so that its view is
\* like the image's.
LEMMA CreateValues ==
  ASSUME CallInv, FateInv, ValueInv, CreateOut \/ CreateOutFails
  PROVE  ValueInv'
<1>1. /\ pc = "create" /\ pc' = "run" /\ call \in Calls /\ ~Helper /\ Loads
      /\ UNCHANGED <<call, inType, ran>> /\ \A i \in InOpts : script[i] = Passed(i)
      /\ Acceptable /\ \A i \in InOpts : values[i] = Meant(i)
      /\ inType = Argument(FirstImage).type
  BY DEF CallInv, FateInv, ArgumentInv, RefusalInv, ValueInv, Converted, Before,
         CreateOut, CreateOutFails
<1>2. /\ InOpts' = InOpts /\ ImageOuts' = ImageOuts /\ FirstImage' = FirstImage
      /\ \A i : /\ P(i)' = P(i) /\ Argument(i)' = Argument(i) /\ Meant(i)' = Meant(i)
  BY <1>1, SameCall, SameJudgement, SameMeaning
<1>3. /\ FirstImage \in InOpts /\ isImage(P(FirstImage)) /\ Given(FirstImage)
      /\ script[FirstImage] = Argument(FirstImage)
      /\ Argument(FirstImage).kind = "array" /\ Argument(FirstImage).shape \in Seq(Nat)
      /\ P(FirstImage).base # "string"
      /\ \A i \in InOpts : i \in Params /\ i \notin ImageOuts
      /\ \A i \in ImageOuts : i \in Params
  <2>1. /\ FirstImage \in InOpts /\ isImage(P(FirstImage)) /\ Given(FirstImage)
        /\ \A i \in InOpts : i \in Params /\ i \notin ImageOuts
        /\ \A i \in ImageOuts : i \in Params
    BY <1>1, Incoming, LoadedIsPlausible DEF InOpts, Ins, Opts, ImageOuts, Outs
  <2>2. Argument(FirstImage).kind = "array" /\ Argument(FirstImage).shape \in Seq(Nat)
    BY <1>1, <2>1, LoadedIsPlausible, GivenIsPassable DEF Passable
  <2>3. P(FirstImage).base # "string"
    BY <1>1, <2>1, TraitFacts DEF isImage
  <2> QED
    BY <1>1, <2>1, <2>2, <2>3 DEF Passed
<1>4. ASSUME \A i \in InOpts : values'[i] = values[i],
             \A i \in ImageOuts : HasVoxels(i)' => MadeAlike(i)'
      PROVE  ValueInv'
  <2>1. (\A i \in InOpts : values'[i] = Meant(i)) /\ inType' = Argument(FirstImage).type
    BY <1>1, <1>4
  <2> QED
    BY <1>1, <1>2, <1>4, <2>1 DEF ValueInv, Before
<1>5. CASE CreateOut
  <2> DEFINE im == script[FirstImage]
             dims == getDimInfo(im)
             made == [i \in ImageOuts |->
                        Array(P(i).name, OutMap(call.cmd, inType),
                              IF isColumnMajor(im) THEN dims ELSE Reverse(dims),
                              IF isColumnMajor(im) THEN "F" ELSE "C")]
  <2>1. /\ script' = [i \in Params |-> IF i \in ImageOuts THEN made[i] ELSE script[i]]
        /\ values' = [i \in Params |->
             IF i \in ImageOuts /\ ~isEmpty(made[i]) THEN View(made[i]) ELSE values[i]]
    BY <1>5 DEF CreateOut
  <2>2. \A i \in InOpts : values'[i] = values[i]
    BY <1>3, <2>1
  <2>3. ASSUME NEW i \in ImageOuts, HasVoxels(i)' PROVE MadeAlike(i)'
    <3>1. made[i] = Array(P(i).name, OutMap(call.cmd, inType), im.shape,
                          IF isColumnMajor(im) THEN "F" ELSE "C")
      <4>1. (IF isColumnMajor(im) THEN dims ELSE Reverse(dims)) = im.shape
        BY <1>3, ReverseTwice DEF getDimInfo
      <4> QED
        BY <4>1
    <3>2. ~isEmpty(made[i]) /\ values'[i] = View(made[i])
      <4>1. values[i].of = NoObject
        BY <1>1 DEF ValueInv, HasVoxels, Before
      <4>2. values'[i].of # NoObject
        BY <2>3 DEF HasVoxels
      <4> QED
        BY <1>3, <2>1, <4>1, <4>2
    <3>3. NotEmpty(FirstImage)
      BY <1>3, <3>1, <3>2 DEF NotEmpty, isEmpty, Py!isEmpty, Mex!isEmpty, Array, Object
    <3>4. im.order \in {"F", "C"}
      BY <1>1, <1>3, <3>3, ImageHasOrder DEF Acceptable
    <3>5. values[FirstImage] = View(im)
      <4>1. values[FirstImage] = convert_impl(P(FirstImage), im)
        BY <1>1, <1>3, <3>3 DEF Meant
      <4> QED
        BY <1>3, <4>1, ImageIsViewed
    <3>6. /\ made[i].shape = im.shape /\ made[i].order = im.order
          /\ made[i].type = OutMap(call.cmd, inType)
      BY <3>1, <3>4 DEF Array, Object, isColumnMajor
    <3>7. getDimInfo(made[i]) = getDimInfo(im)
      BY <3>6 DEF getDimInfo, isColumnMajor
    <3>8. View(made[i]).nums = View(im).nums
      BY <3>7 DEF View, ImageView, Value
    <3>9. values'[i].nums = values'[FirstImage].nums /\ script'[i] = made[i]
      BY <1>3, <2>1, <2>2, <3>2, <3>5, <3>8
    <3> QED
      BY <1>1, <1>2, <1>3, <3>6, <3>9 DEF MadeAlike
  <2> QED
    BY <1>4, <2>2, <2>3
<1>6. CASE CreateOutFails
  <2>1. values' = values
    BY <1>6 DEF CreateOutFails
  <2>2. \A i \in ImageOuts : ~HasVoxels(i)'
    BY <1>1, <2>1 DEF ValueInv, HasVoxels, Before
  <2> QED
    BY <1>4, <2>1, <2>2
<1> QED
  BY <1>5, <1>6
-----------------------------------------------------------------------------
(***************************************************************************)
(* What takes the interpreter down                                         *)
(***************************************************************************)
\* The known ways to end, with a cause e, before or in (r) the backend.
Known(e, r) ==
  \/ e = "cell" /\ ~Python /\ Omitted
  \/ e = "null string" /\ call.cmd = "Help" /\ \E i \in InOpts : Wrong(i)
  \/ /\ e = "overrun" /\ ~r
     /\ \E i \in InOpts : P(i).trait = "Image" /\ NotEmpty(i) /\ ~FitsView(Argument(i))
  \/ /\ e = "no axis" /\ ~r /\ Python
     /\ \E i \in InOpts : /\ P(i).trait = "Vector" /\ Given(i)
                          /\ Argument(i).kind = "array" /\ Argument(i).shape = <<>>
  \/ /\ e = "no image" /\ r /\ Acceptable
     /\ \/ Python /\ pyErr = "memory"
        \/ \E i \in ImageIns : ~NotEmpty(i)
  \/ /\ e = "extents" /\ r /\ Acceptable
     /\ \E i, j \in ImageIns : \/ Argument(i).shape # Argument(j).shape
                               \/ Argument(i).order # Argument(j).order
  \/ e = "filter" /\ r /\ Acceptable /\ call.cmd \notin HelperCommands

\* What is known when the step is taken still is when it has been.
LEMMA KnownCrash ==
  ASSUME NEW e, NEW r, Crash(e), ran' = r, call' = call, Known(e, r)
  PROVE  CrashesOnlyAsKnown'
<1>1. pc' = "crashed" /\ error' = e /\ pyErr' = pyErr
  BY DEF Crash
<1>2. /\ (Python' <=> Python) /\ (Omitted' <=> Omitted) /\ (Acceptable' <=> Acceptable)
      /\ InOpts' = InOpts /\ ImageIns' = ImageIns
      /\ \A i : /\ P(i)' = P(i) /\ (Given(i)' <=> Given(i)) /\ Argument(i)' = Argument(i)
                /\ (Wrong(i)' <=> Wrong(i)) /\ (NotEmpty(i)' <=> NotEmpty(i))
  BY SameCall, SameJudgement
<1> QED
  BY <1>1, <1>2 DEF Known, CrashesOnlyAsKnown

\* An output that the interpreter does not take was left out of the call.
LEMMA NotShown ==
  ASSUME CallInv, pc \in (Before \cup After) \ {"load"}, NEW i \in Outs, script[i] = NoCell
  PROVE  ~Python /\ Omitted
<1>1. ~Shown(i)
  BY DEF CallInv, OutputInv
<1>2. ~Python /\ ~ (Position(Outs, i) <= call.nlhs)
  BY <1>1 DEF Shown
<1>3. /\ Position(Outs, i) \in Nat /\ Position(Outs, i) <= Cardinality(Outs)
      /\ Cardinality(Outs) \in Nat /\ call.nlhs \in Nat
  BY Places, Incoming DEF CallInv
<1> QED
  BY <1>2, <1>3 DEF Omitted

\* A copy that does not fit its memory is of an array that no view can show.
LEMMA OverrunDoesNotFit ==
  ASSUME call \in Calls, Loads, NEW i \in InOpts, script[i] = Passed(i), inType = TypeFor(i),
         Overrun(i)
  PROVE  P(i).trait = "Image" /\ NotEmpty(i) /\ ~FitsView(Argument(i))
<1> DEFINE o == Argument(i)
<1>1. NotEmpty(i) /\ script[i] = o /\ ~Wrong(i)
  BY ObjectIsArgument, RejectedIsWrong DEF Overrun
<1>2. P(i).trait = "Image" /\ Product(toImageCopy(o).nums) < Product(o.shape)
  BY <1>1 DEF Overrun, Overruns
<1>3. o.order \in {"F", "C"} /\ o.shape \in Seq(Nat)
  BY <1>1, <1>2, ImageHasOrder DEF isImage
<1>4. o.kind = "array" /\ ~isEmpty(o)
  BY <1>1, <1>2 DEF Wrong, NotEmpty, isImage
<1>5. Product(o.shape) # 0
  BY <1>4 DEF isEmpty, Py!isEmpty, Mex!isEmpty, Py!Product, Mex!Product, Product
<1>6. Product(o.shape) \in Nat
  <2>1. PICK r : /\ Product(o.shape) = r[Len(o.shape)] /\ r[0] = 1
                 /\ \A n \in 0 .. Len(o.shape) : r[n] \in Nat
                 /\ \A n \in 1 .. Len(o.shape) : r[n] = r[n - 1] * o.shape[n]
    BY <1>3, Products
  <2>2. Len(o.shape) \in Nat
    BY <1>3
  <2> QED
    BY <2>1, <2>2
<1>7. Shows(View(o), o)
  BY <1>3, <1>5, ViewShows
<1>8. toImageCopy(o) = View(o)
  BY DEF toImageCopy, ImageOwner, View, ImageView
<1>9. FitsView(o) => Product(toImageCopy(o).nums) = Product(o.shape)
  BY <1>7, <1>8 DEF Shows
<1> QED
  BY <1>1, <1>2, <1>6, <1>9

\* A conversion ends the interpreter over an argument that is left out, no string, of no
\* dimensions or too large.
LEMMA ConvertCrash ==
  ASSUME CallInv, FateInv, ConvertNondeferred \/ ConvertDeferred
  PROVE  CrashesOnlyAsKnown'
<1>1. PICK S, next :
        /\ ConvertSubset(S, next) /\ next \in {"execute", "create"}
        /\ \/ pc = "convert" /\ S = {i \in InOpts : ~isDeferred(P(i))}
           \/ pc = "process" /\ S = {i \in InOpts : isDeferred(P(i))}
  BY DEF ConvertNondeferred, ConvertDeferred
<1>2. /\ call \in Calls /\ Loads /\ ~ran /\ S \subseteq InOpts /\ call' = call /\ ~ran'
      /\ \A i \in InOpts : i \in Nat /\ script[i] = Passed(i)
  BY <1>1, Incoming
  DEF CallInv, FateInv, ArgumentInv, RefusalInv, Before, ConvertNondeferred, ConvertDeferred
<1>3. \A i \in S : inType = TypeFor(i)
  BY <1>1, <1>2, Incoming DEF FateInv, RefusalInv, TypeFor
<1>4. PICK r : r = ran' /\ ~r
  BY <1>2
<1> DEFINE Stops == {i \in S : script[i] = NoCell \/ Rejected(i) \/ NoAxis(i)}
<1>5. ASSUME NEW i \in S, script[i] = NoCell PROVE Known("cell", r)
  <2>1. ~Given(i) /\ ~Python
    <3>1. Null # NoCell
      BY DEF Null, NoCell, Object
    <3>2. Given(i) => Argument(i) # NoCell
      BY <1>2, GivenIsPassable DEF Passable
    <3> QED
      BY <1>2, <1>5, <3>1, <3>2 DEF Passed
  <2> QED
    BY <1>2, <2>1 DEF Known, Omitted
<1>6. ASSUME NEW i \in S, NoAxis(i) PROVE Known("no axis", r)
  <2>1. /\ Python /\ HasObject(i) /\ P(i).trait = "Vector"
        /\ script[i].kind = "array" /\ script[i].shape = <<>>
    BY <1>6 DEF NoAxis, Py!NoAxis
  <2>2. NotEmpty(i) /\ script[i] = Argument(i) /\ Given(i)
    BY <1>2, <2>1, ObjectIsArgument DEF NotEmpty
  <2> QED
    BY <1>2, <1>4, <2>1, <2>2 DEF Known
<1>7. ASSUME NEW i \in S, Rejected(i), NullString(P(i), script[i]) PROVE Known("null string", r)
  <2>1. P(i).base = "string"
    BY <1>7 DEF NullString, Py!NullString, Mex!NullString
  <2>2. call.cmd = "Help"
    BY <1>2, <2>1, Incoming
  <2>3. Wrong(i)
    BY <1>2, <1>3, <1>7, RejectedIsWrong
  <2> QED
    BY <1>2, <2>2, <2>3 DEF Known
<1>8. ASSUME NEW i \in S, Overrun(i) PROVE Known("overrun", r)
  <2>1. P(i).trait = "Image" /\ NotEmpty(i) /\ ~FitsView(Argument(i))
    BY <1>2, <1>3, <1>8, OverrunDoesNotFit
  <2> QED
    BY <1>2, <1>4, <2>1 DEF Known
<1>9. Stops # {} => Least(Stops) \in S
  <2>1. Stops \subseteq Nat
    BY <1>2
  <2> QED
    BY <2>1, First
<1>10. \/ pc' = next
       \/ \E pending, cause : RaiseOver(pending, cause)
       \/ \E e : Crash(e) /\ Known(e, r)
  <2> HIDE DEF Stops
  <2> QED
    BY <1>1, <1>5, <1>6, <1>7, <1>8, <1>9 DEF ConvertSubset, Stops
<1>11. CASE \E e : Crash(e) /\ Known(e, r)
  BY <1>2, <1>4, <1>11, KnownCrash
<1> QED
  BY <1>1, <1>10, <1>11 DEF RaiseOver, CrashesOnlyAsKnown

\* What an image argument is seen through when the backend is entered: its view, or nothing
\* if it is empty.
LEMMA SeenImages ==
  ASSUME CallInv, FateInv, ValueInv, pc = "run", NEW i \in ImageIns
  PROVE  /\ HasVoxels(i) <=> NotEmpty(i)
         /\ NotEmpty(i) => values[i] = View(Argument(i))
<1>1. /\ call \in Calls /\ ~Helper /\ i \in Ins /\ i \in InOpts /\ i \in Params /\ i \notin Opts
      /\ P(i).trait = "ImageRef" /\ P(i).base # "string"
  BY TraitFacts DEF CallInv, ImageIns, Ins, InOpts, Opts
<1>2. values[i] = Meant(i)
  BY <1>1 DEF ValueInv, Converted
<1>3. CASE NotEmpty(i)
  <2>1. Argument(i).name # NoObject
    BY <1>1, <1>3, GivenIsPassable DEF NotEmpty, Passable
  <2>2. values[i] = View(Argument(i))
    BY <1>1, <1>2, <1>3, ImageIsViewed DEF Meant, isImage
  <2>3. View(Argument(i)).of = Argument(i).name
    BY DEF View, ImageView, Value
  <2> QED
    BY <1>3, <2>1, <2>2, <2>3 DEF HasVoxels
<1>4. CASE ~NotEmpty(i)
  <2>1. values[i] = Blank(P(i))
    BY <1>1, <1>2, <1>4 DEF Meant, Initial
  <2>2. Blank(P(i)) = Value(<<0, 0, 0, 0, 0>>, NoObject)
    BY <1>1, Zenon DEF Blank
  <2> QED
    BY <1>4, <2>1, <2>2 DEF HasVoxels, Value
<1> QED
  BY <1>3, <1>4

\* A backend ends the interpreter over an image that is not there, over two that differ, or
\* of its own.
LEMMA RunCrash ==
  ASSUME CallInv, FateInv, ValueInv, Run
  PROVE  CrashesOnlyAsKnown'
<1>1. /\ pc = "run" /\ call \in Calls /\ ~Helper /\ Acceptable /\ ran' = TRUE /\ call' = call
  BY DEF CallInv, FateInv, RefusalInv, After, Run
<1>2. ASSUME CutsNothing PROVE Known("no image", TRUE)
  <2>1. PICK i \in ImageIns \cup ImageOuts : ~HasVoxels(i)
    BY <1>2 DEF CutsNothing
  <2>2. CASE i \in ImageIns
    BY <1>1, <2>1, <2>2, SeenImages DEF Known
  <2>3. CASE i \in ImageOuts /\ HasVoxels(FirstImage)
    <3>1. Python /\ pyErr = "memory"
      BY <1>1, <2>1, <2>3 DEF FateInv, VoxelInv
    <3> QED
      BY <1>1, <3>1 DEF Known
  <2>4. CASE ~HasVoxels(FirstImage)
    <3>1. FirstImage \in ImageIns
      <4>1. FirstImage \in Ins /\ isDeferred(P(FirstImage)) /\ FirstImage \in InOpts
        BY <1>1, Incoming
      <4>2. P(FirstImage).trait = "ImageRef"
        BY <1>1, <4>1, Incoming
      <4> QED
        BY <4>1, <4>2 DEF ImageIns
    <3> QED
      BY <1>1, <2>4, <3>1, SeenImages DEF Known
  <2> QED
    BY <2>1, <2>2, <2>3, <2>4
<1>3. ASSUME Unequal PROVE Known("extents", TRUE)
  <2>1. PICK i \in ImageIns, j \in ImageIns :
          HasVoxels(i) /\ HasVoxels(j) /\ values[i].nums # values[j].nums
    BY <1>3 DEF Unequal
  <2>2. values[i] = View(Argument(i)) /\ values[j] = View(Argument(j))
    BY <1>1, <2>1, SeenImages
  <2>3. Argument(i).shape # Argument(j).shape \/ Argument(i).order # Argument(j).order
    BY <2>1, <2>2 DEF View, ImageView, Value, getDimInfo, isColumnMajor
  <2> QED
    BY <1>1, <2>3 DEF Known
<1>4. Known("filter", TRUE)
  BY <1>1 DEF Known, Helper
<1>5. CASE \E e : Crash(e) /\ Known(e, TRUE)
  BY <1>1, <1>5, KnownCrash
<1>6. CASE pc' \in {"outputs", "raised"}
  BY <1>6 DEF CrashesOnlyAsKnown
<1> QED
  BY <1>2, <1>3, <1>4, <1>5, <1>6 DEF Run, Goto, Raise, RaiseOver

-----------------------------------------------------------------------------
(***************************************************************************)
(* The theorems                                                            *)
(***************************************************************************)
\* The invariant of a call: which outputs have a cell and an object, what the call owns, and
\* what Python's error indicator can be, at every place of the conversion.
THEOREM CallInvariant == Spec => []CallInv
<1>1. Init => CallInv
  <2> SUFFICES ASSUME Init PROVE CallInv
    OBVIOUS
  <2>1. /\ call \in Calls /\ pc = "load" /\ owned = {} /\ pyErr = "none" /\ result = {}
        /\ script = [i \in Params |-> Null]
    BY DEF Init
  <2>2. \A i \in Outs : script[i] = Null
    BY <2>1 DEF Outs
  <2> QED
    BY <2>1, <2>2 DEF CallInv, OutputInv, OwnedInv, ErrorInv, Before, After
<1>2. CallInv /\ [Next]_vars => CallInv'
  <2> SUFFICES ASSUME CallInv, [Next]_vars PROVE CallInv'
    OBVIOUS
  <2>1. CASE LoadPython \/ LoadMatlab
    BY <2>1, LoadKeeps
  <2>2. CASE SetOptionalDefaults
    BY <2>2, MoveKeeps DEF SetOptionalDefaults, Goto, Before
  <2>3. CASE ConvertNondeferred
    BY <2>3, ConvertKeeps DEF ConvertNondeferred
  <2>4. CASE ConvertDeferred
    <3>1. pc = "process" /\ ~Helper
      BY <2>4 DEF ConvertDeferred, CallInv
    <3> QED
      BY <2>4, <3>1, ConvertKeeps DEF ConvertDeferred
  <2>5. CASE ExecuteHelper \/ Execute
    BY <2>5, ExecuteKeeps
  <2>6. CASE CreateOut \/ CreateOutFails
    BY <2>6, CreateKeeps
  <2>7. CASE Run \/ ConvertOutputs \/ Store
    BY <2>7, RunKeeps, ConvertOutputsKeeps, StoreKeeps
  <2>8. CASE UNCHANGED vars
    <3>1. UNCHANGED <<call, pc, script, owned, error, pyErr, result>>
      BY <2>8 DEF vars
    <3> QED
      BY <3>1, SameCall DEF CallInv, OutputInv, OwnedInv, ErrorInv
  <2> QED
    BY <2>1, <2>2, <2>3, <2>4, <2>5, <2>6, <2>7, <2>8 DEF Next
<1> QED
  BY <1>1, <1>2, PTL DEF Spec

\* The interpreter gets every output of a call, or an error, never both and never neither
\* (convert_dispatch, errorMsg, load and store of both engines); but Python's indicator may
\* be left set by an integer that overflowed.
THEOREM ResultXorErrorHolds == Spec => []ResultXorError
<1>1. CallInv => ResultXorError
  <2> SUFFICES ASSUME CallInv PROVE ResultXorError
    OBVIOUS
  <2>1. pc = "returned" => {i \in Outs : script[i] # NoCell} = {i \in Outs : Shown(i)}
    BY DEF CallInv, OutputInv, After
  <2>2. pc = "returned" => pyErr \in {"none", "overflow"}
    BY DEF CallInv, ErrorInv, After
  <2> QED
    BY <2>1, <2>2 DEF CallInv, ErrorInv, ResultXorError, Shown
<1> QED
  BY <1>1, CallInvariant, PTL

\* What a Python call leaves behind is the output of a call whose backend raised and the
\* fields of a helper command's structures, and a MATLAB call leaves nothing (createOutIm,
\* setVal, store).
THEOREM OnlyKnownLeaksHolds == Spec => []OnlyKnownLeaks
<1>1. CallInv => OnlyKnownLeaks
  <2> SUFFICES ASSUME CallInv, pc \in {"returned", "raised"} PROVE OnlyKnownLeaks
    BY DEF OnlyKnownLeaks, Ended
  <2>1. ImageOuts \subseteq Nat \ {0} /\ Fields = 0
    BY TableFacts DEF CallInv, Fields
  <2>2. CASE pc = "returned"
    BY <2>2 DEF CallInv, OwnedInv, OnlyKnownLeaks, Helper, Before
  <2>3. CASE pc = "raised"
    BY <2>1, <2>3 DEF CallInv, OwnedInv, OnlyKnownLeaks, Before
  <2> QED
    BY <2>2, <2>3
<1> QED
  BY <1>1, CallInvariant, PTL

\* The fate of a call: what was passed stands for its parameters until results take their
\* place, it gets as far as its arguments are right, and its images have voxels together.
THEOREM FateInvariant == Spec => []FateInv
<1>1. Init => FateInv
  <2> SUFFICES ASSUME Init PROVE FateInv
    OBVIOUS
  <2>1. /\ call \in Calls /\ pc = "load" /\ ran = FALSE /\ inType = "none" /\ error = "none"
        /\ values = [i \in Params |-> Blank(P(i))]
    BY DEF Init
  <2>2. ~Helper => ~HasVoxels(FirstImage)
    <3> SUFFICES ASSUME ~Helper PROVE ~HasVoxels(FirstImage)
      OBVIOUS
    <3>1. FirstImage \in Params /\ P(FirstImage).trait = "ImageRef"
      BY <2>1, Incoming DEF InOpts, Ins, Opts
    <3>2. Blank(P(FirstImage)) = Value(<<0, 0, 0, 0, 0>>, NoObject)
      BY <3>1, Zenon DEF Blank
    <3> QED
      BY <2>1, <3>1, <3>2 DEF HasVoxels, Value
  <2> QED
    BY <2>1, <2>2 DEF FateInv, ArgumentInv, RefusalInv, VoxelInv, Before, After
<1>2. CallInv /\ FateInv /\ [Next]_vars => FateInv'
  <2> SUFFICES ASSUME CallInv, FateInv, [Next]_vars PROVE FateInv'
    OBVIOUS
  <2>1. CASE LoadPython \/ LoadMatlab
    BY <2>1, LoadFate
  <2>2. CASE SetOptionalDefaults
    <3>1. /\ pc = "defaults" /\ pc' = "convert" /\ error' = error
          /\ UNCHANGED <<call, script, inType, ran>>
          /\ values' = [i \in Params |->
                          IF i \in Opts THEN Value(P(i).default, NoObject) ELSE values[i]]
      BY <2>2 DEF SetOptionalDefaults, Goto
    <3>2. ~Helper => values'[FirstImage] = values[FirstImage]
      <4>1. ~Helper => FirstImage \in Ins
        BY Incoming DEF CallInv
      <4> QED
        BY <3>1, <4>1 DEF Ins, Opts
    <3>3. ArgumentInv' /\ RefusalInv'
      BY <3>1, SameJudgement DEF FateInv, ArgumentInv, RefusalInv, Before, After
    <3>4. VoxelInv'
      BY <3>1, <3>2, SameJudgement, SameCall
      DEF FateInv, VoxelInv, HasVoxels, Before
    <3> QED
      BY <3>3, <3>4 DEF FateInv
  <2>3. CASE ConvertNondeferred
    BY <2>3, ConvertFate DEF ConvertNondeferred
  <2>4. CASE ConvertDeferred
    BY <2>4, ConvertFate DEF ConvertDeferred
  <2>5. CASE ExecuteHelper \/ Execute
    BY <2>5, ExecuteFate
  <2>6. CASE CreateOut \/ CreateOutFails
    BY <2>6, CreateFate
  <2>7. CASE Run \/ ConvertOutputs \/ Store
    BY <2>7, RunFate, OutputsFate
  <2>8. CASE UNCHANGED vars
    <3>1. UNCHANGED <<call, pc, script, values, inType, ran, error, pyErr>>
      BY <2>8 DEF vars
    <3> QED
      BY <3>1, SameCall, SameJudgement
      DEF FateInv, ArgumentInv, RefusalInv, VoxelInv, HasVoxels
  <2> QED
    BY <2>1, <2>2, <2>3, <2>4, <2>5, <2>6, <2>7, <2>8 DEF Next
<1> QED
  BY <1>1, <1>2, CallInvariant, PTL DEF Spec

\* A call reaches its backend exactly when every argument is one its parameter can be and
\* their number is right, unless the interpreter goes down on the way; and an error that has
\* an argument's name names one that is wrong (convert_arg, convert_arg_subset, load).
THEOREM RefusedIffWrongHolds == Spec => []RefusedIffWrong
<1>1. CallInv /\ FateInv => RefusedIffWrong
  <2> SUFFICES ASSUME CallInv, FateInv, Ended PROVE RefusedIffWrong
    BY DEF RefusedIffWrong
  <2>1. ran => Acceptable
    BY DEF FateInv, RefusalInv
  <2>2. Acceptable /\ pc # "crashed" => ran
    BY DEF FateInv, RefusalInv, Ended, After
  <2>3. \A i \in InOpts : P(i).name \notin Causes /\ "none" \in Causes
    BY Incoming DEF CallInv, Causes, InOpts, Ins, Opts
  <2>4. ASSUME NEW i \in InOpts, P(i).name = error
        PROVE  \E j \in InOpts : P(j).name = error /\ Wrong(j)
    BY <2>3, <2>4 DEF FateInv, RefusalInv
  <2> QED
    BY <2>1, <2>2, <2>4 DEF RefusedIffWrong
<1> QED
  BY <1>1, CallInvariant, FateInvariant, PTL

\* What a call's arguments hold: at every place of the conversion a default or what was passed
\* for them, and, once the backend has been entered, what was passed for all of them.
THEOREM ValueInvariant == Spec => []ValueInv
<1>1. Init => ValueInv
  <2> SUFFICES ASSUME Init PROVE ValueInv
    OBVIOUS
  <2>1. /\ call \in Calls /\ pc = "load" /\ ran = FALSE
        /\ values = [i \in Params |-> Blank(P(i))]
    BY DEF Init
  <2>2. ASSUME NEW i \in ImageOuts PROVE ~HasVoxels(i)
    <3>1. i \in Params /\ P(i).trait \in {"Image", "ImageRef"}
      BY DEF ImageOuts, Outs, isImage
    <3>2. Blank(P(i)) = Value(<<0, 0, 0, 0, 0>>, NoObject)
      BY <3>1, Zenon DEF Blank
    <3> QED
      BY <2>1, <3>1, <3>2 DEF HasVoxels, Value
  <2> QED
    BY <2>1, <2>2 DEF ValueInv, Converted
<1>2. CallInv /\ FateInv /\ ValueInv /\ [Next]_vars => ValueInv'
  <2> SUFFICES ASSUME CallInv, FateInv, ValueInv, [Next]_vars PROVE ValueInv'
    OBVIOUS
  <2>1. CASE LoadPython \/ LoadMatlab
    <3>1. /\ pc = "load" /\ pc' \in {"defaults", "raised"} /\ ~ran /\ UNCHANGED <<call, values, ran>>
      BY <2>1 DEF FateInv, RefusalInv, Before, LoadPython, LoadMatlab, Goto, Raise, RaiseOver
    <3>2. CASE pc' = "raised"
      BY <3>1, <3>2, EndsUnconverted
    <3>3. CASE pc' = "defaults"
      <4>1. /\ Params' = Params /\ ImageOuts' = ImageOuts /\ \A i : P(i)' = P(i)
        BY <3>1, SameCall, SameJudgement
      <4>2. \A i \in Params : values'[i] = Blank(P(i))
        BY <3>1 DEF ValueInv
      <4>3. \A i \in ImageOuts : ~HasVoxels(i)'
        BY <3>1 DEF ValueInv, HasVoxels, Before
      <4> QED
        BY <3>1, <3>3, <4>1, <4>2, <4>3 DEF ValueInv, Converted
    <3> QED
      BY <3>1, <3>2, <3>3
  <2>2. CASE SetOptionalDefaults
    <3>1. /\ pc = "defaults" /\ pc' = "convert" /\ UNCHANGED <<call, ran>> /\ ~ran
          /\ values' = [i \in Params |->
                          IF i \in Opts THEN Value(P(i).default, NoObject) ELSE values[i]]
      BY <2>2 DEF SetOptionalDefaults, Goto, FateInv, RefusalInv, Before
    <3>2. /\ InOpts' = InOpts /\ ImageOuts' = ImageOuts /\ \A i : Initial(i)' = Initial(i)
      BY <3>1, SameCall, SameJudgement, SameMeaning
    <3>3. \A i \in InOpts : values'[i] = Initial(i)
      BY <3>1 DEF ValueInv, Initial, InOpts, Ins, Opts
    <3>4. \A i \in ImageOuts : ~HasVoxels(i)'
      <4>1. \A i \in ImageOuts : i \in Params /\ i \notin Opts
        BY DEF ImageOuts, Outs, Opts
      <4> QED
        BY <3>1, <4>1 DEF ValueInv, HasVoxels, Before
    <3> QED
      BY <3>1, <3>2, <3>3, <3>4 DEF ValueInv, Converted
  <2>3. CASE ConvertNondeferred \/ ConvertDeferred
    BY <2>3, ConvertValues
  <2>4. CASE ExecuteHelper
    <3>1. Helper /\ pc' \in {"outputs", "crashed"} /\ call' = call
      BY <2>4 DEF ExecuteHelper, Helper, Crash
    <3>2. Helper'
      BY <3>1, SameCall
    <3> QED
      BY <3>1, <3>2 DEF ValueInv, Converted, Before
  <2>5. CASE Execute
    <3>1. /\ pc = "execute" /\ pc' \in {"process", "raised"} /\ ~ran
          /\ UNCHANGED <<call, values, ran>>
      BY <2>5 DEF Execute, Goto, Raise, RaiseOver, FateInv, RefusalInv, Before
    <3>2. CASE pc' = "raised"
      BY <3>1, <3>2, EndsUnconverted
    <3>3. CASE pc' = "process"
      <4>1. /\ InOpts' = InOpts /\ ImageOuts' = ImageOuts
            /\ \A i : P(i)' = P(i) /\ Initial(i)' = Initial(i) /\ Meant(i)' = Meant(i)
        BY <3>1, SameCall, SameJudgement, SameMeaning
      <4>2. \A i \in InOpts : values'[i] = IF isDeferred(P(i)) THEN Initial(i) ELSE Meant(i)
        BY <3>1 DEF ValueInv
      <4>3. \A i \in ImageOuts : ~HasVoxels(i)'
        BY <3>1 DEF ValueInv, HasVoxels, Before
      <4> QED
        BY <3>1, <3>3, <4>1, <4>2, <4>3 DEF ValueInv, Converted
    <3> QED
      BY <3>1, <3>2, <3>3
  <2>6. CASE CreateOut \/ CreateOutFails
    BY <2>6, CreateValues
  <2>7. CASE Run \/ ConvertOutputs \/ Store
    <3>1. /\ pc \in {"run", "outputs", "store"} /\ UNCHANGED <<call, values, inType>>
          /\ pc' \in {"outputs", "store", "returned", "raised", "crashed"}
      BY <2>7 DEF Run, ConvertOutputs, Store, Goto, Raise, RaiseOver, Crash
    <3>2. \A i \in ImageOuts : script'[i] = script[i]
      <4>1. \A i \in ImageOuts : i \in Params /\ i \notin Scalars
        BY TableFacts DEF CallInv
      <4> QED
        BY <2>7, <4>1 DEF Run, ConvertOutputs, Store
    <3>3. Converted' => Converted /\ pc # "create"
      <4>1. Helper' <=> Helper
        BY <3>1, SameCall
      <4>2. pc = "run" \/ ran
        BY <3>1 DEF FateInv, RefusalInv, After
      <4> QED
        BY <3>1, <4>1, <4>2 DEF Converted
    <3> QED
      BY <3>1, <3>2, <3>3, StaysConverted DEF Before
  <2>8. CASE UNCHANGED vars
    <3>1. UNCHANGED <<call, pc, script, values, inType, ran>>
      BY <2>8 DEF vars
    <3>2. /\ Params' = Params /\ InOpts' = InOpts /\ ImageOuts' = ImageOuts
          /\ FirstImage' = FirstImage /\ (Helper' <=> Helper)
          /\ \A i : /\ P(i)' = P(i) /\ Argument(i)' = Argument(i) /\ Meant(i)' = Meant(i)
                    /\ Initial(i)' = Initial(i)
      BY <3>1, SameCall, SameJudgement, SameMeaning
    <3>3. (Converted' <=> Converted) /\ \A i : HasVoxels(i)' <=> HasVoxels(i)
      BY <3>1, <3>2 DEF Converted, HasVoxels
    <3>4. \A i : MadeAlike(i)' <=> MadeAlike(i)
      BY <3>1, <3>2 DEF MadeAlike
    <3> QED
      BY <3>1, <3>2, <3>3, <3>4 DEF ValueInv
  <2> QED
    BY <2>1, <2>2, <2>3, <2>4, <2>5, <2>6, <2>7, <2>8 DEF Next
<1> QED
  BY <1>1, <1>2, CallInvariant, FateInvariant, PTL DEF Spec

\* Of all the calls an interpreter can make, only these take it down: before the backend, a
\* MATLAB one that leaves an argument or an output out, a Help that is given no string, an
\* array of no dimensions for a vector and a kernel that does not fit its copy; in it, one
\* with an image that is empty or that no memory was found for, one that subtracts images
\* not laid out alike, and any a filter itself fails for, its arguments being right
\* (loadSelected, toString, arrayToVec, toImageCopy, calculateBuffers,
\* cElementWiseDifference, HANDLE_ERROR).
THEOREM CrashesOnlyAsKnownHolds == Spec => []CrashesOnlyAsKnown
<1>1. Init => CrashesOnlyAsKnown
  BY DEF Init, CrashesOnlyAsKnown
<1>2. CallInv /\ FateInv /\ ValueInv /\ CrashesOnlyAsKnown /\ [Next]_vars => CrashesOnlyAsKnown'
  <2> SUFFICES ASSUME CallInv, FateInv, ValueInv, CrashesOnlyAsKnown, [Next]_vars
               PROVE  CrashesOnlyAsKnown'
    OBVIOUS
  <2>1. CASE LoadPython \/ LoadMatlab \/ SetOptionalDefaults \/ Execute \/ CreateOut
             \/ CreateOutFails \/ Store
    <3>1. pc' # "crashed"
      BY <2>1 DEF LoadPython, LoadMatlab, SetOptionalDefaults, Execute, CreateOut,
         CreateOutFails, Store, Goto, Raise, RaiseOver
    <3> QED
      BY <3>1 DEF CrashesOnlyAsKnown
  <2>2. CASE ConvertNondeferred \/ ConvertDeferred
    BY <2>2, ConvertCrash
  <2>3. CASE ExecuteHelper \/ ConvertOutputs
    <3>1. pc \in {"execute", "outputs"} /\ call' = call
      BY <2>3 DEF ExecuteHelper, ConvertOutputs
    <3>2. \/ pc' # "crashed"
          \/ Crash("cell") /\ \E i \in Outs : script[i] = NoCell
      BY <2>3 DEF ExecuteHelper, ConvertOutputs, Structs, Scalars, Raise, RaiseOver
    <3>3. (\E i \in Outs : script[i] = NoCell) => ~Python /\ Omitted
      BY <3>1, NotShown DEF Before, After
    <3>4. PICK r : r = ran'
      OBVIOUS
    <3>5. CASE Crash("cell") /\ ~Python /\ Omitted
      BY <3>1, <3>4, <3>5, KnownCrash DEF Known
    <3> QED
      BY <3>2, <3>3, <3>5 DEF CrashesOnlyAsKnown
  <2>4. CASE Run
    BY <2>4, RunCrash
  <2>5. CASE UNCHANGED vars
    <3>1. UNCHANGED <<call, pc, ran, error, pyErr>>
      BY <2>5 DEF vars
    <3>2. /\ (Python' <=> Python) /\ (Omitted' <=> Omitted) /\ (Acceptable' <=> Acceptable)
          /\ InOpts' = InOpts /\ ImageIns' = ImageIns
          /\ \A i : /\ P(i)' = P(i) /\ (Given(i)' <=> Given(i)) /\ Argument(i)' = Argument(i)
                    /\ (Wrong(i)' <=> Wrong(i)) /\ (NotEmpty(i)' <=> NotEmpty(i))
      BY <3>1, SameCall, SameJudgement
    <3> QED
      BY <3>1, <3>2 DEF CrashesOnlyAsKnown
  <2> QED
    BY <2>1, <2>2, <2>3, <2>4, <2>5 DEF Next
<1> QED
  BY <1>1, <1>2, CallInvariant, FateInvariant, ValueInvariant, PTL DEF Spec

\* The backend of a command is given what the user wrote: an image as a view of that very
\* array, its fastest axis first and read as its own type, whole if a view can hold it and
\* never beyond it, a vector in x, y, z, a number as it stands if its type has it, the default
\* where nothing was passed; and an output image is made with the extents and the order of
\* the input (convert_arg, toImage, toImageCopy, toVec, toNumeric, createOutImRefs), for
\* arrays of any extents.
THEOREM BackendSeesTheCallHolds == Spec => []BackendSeesTheCall
<1>1. CallInv /\ FateInv /\ ValueInv => BackendSeesTheCall
  <2> SUFFICES ASSUME CallInv, FateInv, ValueInv, ran, ~Helper PROVE BackendSeesTheCall
    BY DEF BackendSeesTheCall, Helper
  <2>1. /\ call \in Calls /\ pc # "create" /\ Acceptable
        /\ \A i \in InOpts : values[i] = Meant(i)
        /\ inType = Argument(FirstImage).type
        /\ \A i \in ImageOuts : HasVoxels(i) => MadeAlike(i)
    BY DEF CallInv, FateInv, RefusalInv, ValueInv, Converted, Before
  <2>2. ASSUME NEW i \in InOpts
        PROVE  CASE ~NotEmpty(i) /\ i \in Opts -> values[i].nums = P(i).default
                 [] ~NotEmpty(i) /\ i \in Ins -> values[i] = Blank(P(i))
                 [] NotEmpty(i) /\ isImage(P(i)) ->
                      /\ P(i).trait = "ImageRef" => Argument(i).type = inType
                      /\ Shows(values[i], Argument(i))
                 [] NotEmpty(i) /\ P(i).trait = "Vector" ->
                      Means(P(i), values[i].nums,
                            IF Python THEN Reverse(Argument(i).items) ELSE Argument(i).items)
                 [] OTHER -> Means(P(i), values[i].nums, Argument(i).items)
    <3>1. ~Wrong(i) /\ values[i] = Meant(i) /\ i \in Params
      BY <2>1 DEF Acceptable, InOpts, Ins, Opts
    <3>2. CASE ~NotEmpty(i) /\ i \in Opts
      <4>1. values[i].nums = P(i).default
        BY <3>1, <3>2 DEF Meant, Initial, Value
      <4>2. i \notin Ins
        BY <3>2 DEF Ins, Opts
      <4> QED
        BY <3>2, <4>1, <4>2
    <3>3. CASE ~NotEmpty(i) /\ i \in Ins
      BY <3>1, <3>3 DEF Meant, Initial, Ins, Opts
    <3>4. CASE NotEmpty(i) /\ isImage(P(i))
      <4>1. /\ Argument(i).order \in {"F", "C"} /\ Argument(i).shape \in Seq(Nat)
            /\ P(i).trait = "ImageRef" => Argument(i).type = TypeFor(i)
        BY <2>1, <3>1, <3>4, ImageHasOrder
      <4>2. P(i).trait = "ImageRef" => TypeFor(i) = inType
        BY <2>1, <3>1, TraitFacts, Incoming DEF TypeFor
      <4>3. values[i] = View(Argument(i))
        <5>1. values[i] = convert_impl(P(i), Argument(i))
          BY <3>1, <3>4 DEF Meant
        <5> QED
          BY <2>1, <3>1, <3>4, <5>1, ImageIsViewed, TraitFacts DEF isImage
      <4>4. Shows(values[i], Argument(i))
        <5>1. Argument(i).kind = "array" /\ ~isEmpty(Argument(i))
          BY <3>1, <3>4 DEF Wrong, NotEmpty
        <5>2. Product(Argument(i).shape) # 0
          BY <5>1 DEF isEmpty, Py!isEmpty, Mex!isEmpty, Py!Product, Mex!Product, Product
        <5> QED
          BY <4>1, <4>3, <5>2, ViewShows
      <4>5. P(i).trait # "Vector"
        BY <3>4 DEF isImage
      <4> QED
        BY <3>4, <4>1, <4>2, <4>4, <4>5
    <3>5. CASE NotEmpty(i) /\ ~isImage(P(i)) /\ P(i).trait = "Vector"
      <4>1. Means(P(i), values[i].nums,
                  IF Python THEN Reverse(Argument(i).items) ELSE Argument(i).items)
        BY <2>1, <3>1, <3>5, VectorIsMeant DEF Meant
      <4> QED
        BY <3>5, <4>1
    <3>6. CASE NotEmpty(i) /\ ~isImage(P(i)) /\ P(i).trait # "Vector"
      <4>1. Means(P(i), values[i].nums, Argument(i).items)
        BY <2>1, <3>1, <3>6, NumberIsMeant DEF Meant
      <4> QED
        BY <3>6, <4>1
    <3> QED
      BY <3>2, <3>3, <3>4, <3>5, <3>6 DEF InOpts
  <2>3. ASSUME NEW i \in ImageOuts, HasVoxels(i)
        PROVE  /\ values[i].nums = values[FirstImage].nums
               /\ script[i].shape = Argument(FirstImage).shape
               /\ script[i].order = Argument(FirstImage).order
               /\ script[i].type = OutMap(call.cmd, Argument(FirstImage).type)
    BY <2>1, <2>3 DEF MadeAlike
  <2> QED
    BY <2>2, <2>3 DEF BackendSeesTheCall
<1> QED
  BY <1>1, CallInvariant, FateInvariant, ValueInvariant, PTL
=============================================================================
