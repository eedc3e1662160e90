-------------------------------- MODULE ScriptCommands --------------------------------
(***************************************************************************)
(* The command table (ScriptCommands.h), as GenCommands.h unfolds it: the  *)
(* parameters of every command in the order of its layout, what each is    *)
(* when it is not given, and the type of an output for the type of the     *)
(* image (ScriptioMaps.h).                                                 *)
(***************************************************************************)
EXTENDS Integers, Sequences

PixelTypes == {"bool", "uint8", "uint16", "int16", "uint32", "int32", "float", "double"}
Deferred == "deferred"

Param(name, io, trait, base, default) ==
  [name |-> name, io |-> io, trait |-> trait, base |-> base, default |-> default]
In(name, trait, base) == Param(name, "in", trait, base, <<>>)
Out(name, trait, base) == Param(name, "out", trait, base, <<>>)
Opt(name, base, default) == Param(name, "opt", "Scalar", base, default)

\* SCR_IMAGE, SCR_IMAGE_CONVERT, SCR_VECTOR, SCR_SCALAR, SCR_STRUCT.
ImageIn == In("imageIn", "ImageRef", Deferred)
ImageOut == Out("imageOut", "ImageRef", Deferred)
KernelIn == In("kernel", "Image", "float")
Sigmas == In("sigmas", "Vector", "double")
NumIterations == Opt("numIterations", "int", <<1>>)
Device == Opt("device", "int", <<-1>>)
StructOut(name) == Out(name, "Struct", Deferred)

KernelFilters == {"Closure", "MaxFilter", "MeanFilter", "MedianFilter", "MinFilter",
                  "MultiplySum", "Opener", "StdFilter", "VarFilter"}
HelperCommands == {"Help", "Info", "DeviceCount", "DeviceStats"}

Layout(cmd) ==
  CASE cmd \in KernelFilters -> <<ImageIn, ImageOut, KernelIn, NumIterations, Device>>
    [] cmd = "EntropyFilter" -> <<ImageIn, ImageOut, KernelIn, Device>>
    [] cmd = "WienerFilter" -> <<ImageIn, ImageOut, KernelIn,
                                 Opt("noiseVariance", "double", <<-1>>), Device>>
    [] cmd = "ElementWiseDifference" ->
         <<In("image1In", "ImageRef", Deferred), In("image2In", "ImageRef", Deferred), ImageOut, Device>>
    [] cmd = "Gaussian" -> <<ImageIn, ImageOut, Sigmas, NumIterations, Device>>
    [] cmd \in {"HighPassFilter", "LoG"} -> <<ImageIn, ImageOut, Sigmas, Device>>
    [] cmd = "IdentityFilter" -> <<ImageIn, ImageOut, Device>>
    [] cmd = "NLMeans" -> <<ImageIn, ImageOut, In("h", "Scalar", "double"),
                            Opt("searchWindowRadius", "double", <<10>>),
                            Opt("nhoodRadius", "double", <<2>>), Device>>
    [] cmd = "GetMinMax" -> <<ImageIn, Out("minVal", "Scalar", Deferred),
                              Out("maxVal", "Scalar", Deferred), Device>>
    [] cmd = "Sum" -> <<ImageIn, Out("imageOut", "Scalar", Deferred), Device>>
    [] cmd = "Help" -> <<Opt("command", "string", <<>>)>>
    [] cmd = "Info" -> <<StructOut("cmdInfo")>>
    [] cmd = "DeviceCount" -> <<Out("numCudaDevices", "Scalar", "int32_t"), StructOut("memStats")>>
    [] cmd = "DeviceStats" -> <<StructOut("deviceStatsArray")>>

\* OutMap: the type of a deferred output for the type of the image.
OutMap(cmd, type) ==
  IF cmd \in {"EntropyFilter", "LoG"} THEN "float"
  ELSE IF cmd # "Sum" THEN type
  ELSE IF type \in {"float", "double"} THEN "double"
  ELSE IF type \in {"int16", "int32"} THEN "int64" ELSE "uint64"

Commands == KernelFilters \union HelperCommands \union
  {"EntropyFilter", "WienerFilter", "ElementWiseDifference", "Gaussian", "HighPassFilter", "LoG",
   "IdentityFilter", "NLMeans", "GetMinMax", "Sum"}


\* What a caller writes: the parameters that are not outputs.
Written(cmd) == SelectSeq(Layout(cmd), LAMBDA p : p.io # "out")
=============================================================================
