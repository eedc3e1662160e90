-------------------------------- MODULE Dispatch --------------------------------
(***************************************************************************)
(* One script call from the interpreter to the backend and back:           *)
(* ScriptCommandImpl::convert_dispatch, execute and process, over the      *)
(* ArgConverter of either engine (PyArgConverter.h and PyTypes.h,          *)
(* MexArgConverter.h and MexTypes.h) and the command table.  An argument   *)
(* is loaded, given its default, converted, or, when its type is the       *)
(* image's own, converted only after the dispatch on that type; outputs    *)
(* are made between the two.  What a script object holds is kept as far as *)
(* the conversions look: its kind, element type, extents, order in memory  *)
(* and its scalars.  Messages and help texts are left out.                 *)
(*                                                                         *)
(* The process mutex that execute takes is GpuCommand's, the filter that   *)
(* the backend runs is ChunkedFilter's.                                    *)
(***************************************************************************)
EXTENDS FiniteSets, ScriptObjects

CONSTANTS
  LongLong,   \* bound: one more than the largest long long (2^63)
  DoubleLimit, \* bound: the least integer too large for a double (2^1024, to rounding)
  Calls,      \* the calls the interpreters make: [engine, cmd, args, nlhs]
  Devices     \* devices in the machine

ASSUME DispatchAssumption ==
  /\ LongLong \in Nat /\ IntMod < LongLong
  /\ DoubleLimit \in Nat
  /\ Devices \in Nat
  /\ \A c \in Calls : /\ c.cmd \in Commands /\ c.nlhs \in Nat /\ Len(c.args) \in Nat
                      /\ \A k \in 1..Len(c.args) : Passable(c.engine, c.args[k])

Py == INSTANCE PyConverter
Mex == INSTANCE MexConverter
-----------------------------------------------------------------------------
VARIABLES
  call,       \* the call in progress
  pc,         \* "load", "defaults", "convert", "execute", "process", "create",
              \* "run", "outputs", "store", then "returned", "raised" or "crashed"
  script,     \* scriptPtrs: the script object of every parameter
  values,     \* what the arguments hold, converted so far
  inType,     \* the type execute dispatched on
  ran,        \* the backend was entered
  owned,      \* references this call has made and not handed over
  error,      \* "none", or what was raised (the name of an argument, or a cause), or
              \* what took the interpreter down
  pyErr,      \* Python's own error indicator: "none" or its cause
  result      \* the outputs handed to the interpreter

vars == <<call, pc, script, values, inType, ran, owned, error, pyErr, result>>

Python == call.engine = "Python"     \* the engine is MATLAB otherwise
Params == DOMAIN Layout(call.cmd)
P(i) == Layout(call.cmd)[i]
Outs == {i \in Params : P(i).io = "out"}
Ins == {i \in Params : P(i).io = "in"}
Opts == {i \in Params : P(i).io = "opt"}
InOpts == Ins \union Opts
ImageOuts == {i \in Outs : isImage(P(i))}
Structs == {i \in Outs : P(i).trait = "Struct"}
Scalars == {i \in Outs : P(i).trait = "Scalar"}

Least(S) == CHOOSE i \in S : \A j \in S : i <= j
Fields == 0     \* stands for the fields of the structures among the references
Position(S, i) == Cardinality({j \in S : j <= i})
FirstImage == Least({i \in Ins : isImage(P(i)) /\ isDeferred(P(i))})

Init ==
  /\ call \in Calls
  /\ pc = "load"
  /\ script = [i \in Params |-> Null]
  /\ values = [i \in Params |-> Blank(P(i))]
  /\ inType = "none"
  /\ ran = FALSE
  /\ owned = {}
  /\ error = "none" /\ pyErr = "none"
  /\ result = {}

RaiseUnseen(pending, cause) ==
  /\ pc' = "raised" /\ error' = cause /\ pyErr' = pending
  /\ owned' = IF Python THEN owned ELSE {}

\* A thrown error reaches the handlers of convert_dispatch and errorMsg, which
\* leaves an error Python already has.  MATLAB frees what the call had made.
RaiseOver(pending, cause) ==
  /\ pc' = "raised"
  /\ error' = cause
  /\ pyErr' = IF Python /\ pending = "none" THEN cause ELSE pending
  /\ owned' = IF Python THEN owned ELSE {}

Raise(cause) == RaiseOver(pyErr, cause)
Crash(cause) == pc' = "crashed" /\ error' = cause /\ UNCHANGED <<pyErr, owned>>
Goto(where) == pc' = where /\ UNCHANGED <<error, pyErr, owned>>

\* What only one of the two engines does its own way.
Takes(p, o, type) == IF Python THEN Py!Takes(p, o, type) ELSE Mex!Takes(p, o, type)
convert_impl(p, o) == IF Python THEN Py!convert_impl(p, o) ELSE Mex!convert_impl(p, o)
isEmpty(o) == IF Python THEN Py!isEmpty(o) ELSE Mex!isEmpty(o)
NullString(p, o) == IF Python THEN Py!NullString(p, o) ELSE Mex!NullString(p, o)

Given(i) == Position(InOpts, i) <= Len(call.args)
Argument(i) == call.args[Position(InOpts, i)]

Parses ==
  /\ Py!Parses(Cardinality(Ins), Cardinality(InOpts), Len(call.args))
  /\ \A i \in InOpts : Given(i) => Py!Expands(P(i), Argument(i))
Counts == Mex!Counts(Cardinality(Ins), Cardinality(InOpts), Cardinality(Outs), Len(call.args), call.nlhs)

LoadPythonUnfilled ==
  /\ pc = "load" /\ Python /\ Parses
  /\ script' = [i \in Params |-> IF i \in Outs THEN Null ELSE IF Given(i) THEN Argument(i) ELSE NoCell]
  /\ Goto("defaults")
  /\ UNCHANGED <<call, values, inType, ran, result>>

\* PyArgConverter::load: every pointer is null before the parse.
LoadPython ==
  /\ pc = "load" /\ Python
  /\ \/ /\ Parses
        /\ script' = [i \in Params |-> IF i \in InOpts /\ Given(i) THEN Argument(i) ELSE Null]
        /\ Goto("defaults")
     \/ /\ ~Parses
        /\ Raise("arguments")
        /\ UNCHANGED script
  /\ UNCHANGED <<call, values, inType, ran, result>>

\* MexArgConverter::load: a parameter past the arguments gets no cell at all.
LoadMatlab ==
  /\ pc = "load" /\ ~Python
  /\ \/ /\ Counts
        /\ script' = [i \in Params |->
             IF i \in Outs THEN Mex!Cell(Position(Outs, i), call.nlhs, Null)
             ELSE Mex!Cell(Position(InOpts, i), Len(call.args), IF Given(i) THEN Argument(i) ELSE Null)]
        /\ Goto("defaults")
     \/ /\ ~Counts
        /\ Raise("arguments")
        /\ UNCHANGED script
  /\ UNCHANGED <<call, values, inType, ran, result>>

SetOptionalDefaults ==
  /\ pc = "defaults"
  /\ values' = [i \in Params |-> IF i \in Opts THEN Value(P(i).default, NoObject) ELSE values[i]]
  /\ Goto("convert")
  /\ UNCHANGED <<call, script, inType, ran, result>>

\* convert_arg_subset: the arguments in turn, up to the first that has no cell
\* or does not convert.  A null or an empty one keeps what it has.
HasObject(i) == script[i] # NoCell /\ ~isEmpty(script[i])
Rejected(i) == HasObject(i) /\ ~Takes(P(i), script[i], inType)
NoAxis(i) == Python /\ HasObject(i) /\ Py!NoAxis(P(i), script[i])
Overrun(i) == HasObject(i) /\ ~Rejected(i) /\ Overruns(P(i), script[i])

\* Nobody looks at the error indicator after a conversion.
PyErrAfter(S) ==
  IF /\ pyErr = "none" /\ Python
     /\ \E i \in S : HasObject(i) /\ Py!SetsError(P(i), script[i])
  THEN "overflow" ELSE pyErr

\* A copy that runs over its memory may go unnoticed; the string that is built from a
\* null pointer throws, or reads it.
ConvertSubset(S, next) ==
  LET Stops == {i \in S : script[i] = NoCell \/ Rejected(i) \/ NoAxis(i)}
  IN  \/ /\ Stops = {}
         /\ values' = [i \in Params |->
              IF i \in S /\ HasObject(i) THEN convert_impl(P(i), script[i]) ELSE values[i]]
         /\ pc' = next
         /\ pyErr' = PyErrAfter(S)
         /\ UNCHANGED <<error, owned>>
      \/ /\ Stops # {}
         /\ LET i == Least(Stops)
                IsNull == NullString(P(i), script[i])
            IN  \/ script[i] = NoCell /\ Crash("cell")
                \/ NoAxis(i) /\ Crash("no axis")
                \/ Rejected(i) /\ ~IsNull /\ RaiseOver(PyErrAfter({j \in S : j <= i}), P(i).name)
                \/ Rejected(i) /\ IsNull /\ Crash("null string")
                \/ Rejected(i) /\ IsNull /\ RaiseOver(IF Python THEN "encoding" ELSE pyErr, "internal")
         /\ UNCHANGED values
      \/ /\ \E i \in S : Overrun(i) /\ \A j \in Stops : i < j
         /\ Crash("overrun")
         /\ UNCHANGED values

ConvertNondeferred ==
  /\ pc = "convert"
  /\ ConvertSubset({i \in InOpts : ~isDeferred(P(i))}, "execute")
  /\ UNCHANGED <<call, script, inType, ran, result>>

\* How many structures Info, DeviceCount and DeviceStats return.
StructSize(cmd) == IF cmd = "Info" THEN Cardinality(Commands) ELSE Devices

\* Help, Info, DeviceCount and DeviceStats have an execute of their own: a
\* structure array is made and filled, and setVal does not take a field's
\* reference in Python.
ExecuteHelper ==
  /\ pc = "execute" /\ call.cmd \in HelperCommands
  /\ \/ /\ \A i \in Structs : script[i] # NoCell
        /\ script' = [i \in Params |-> IF i \in Structs THEN Made(P(i).name) ELSE script[i]]
        /\ owned' = owned \union Structs \union
             IF Python /\ Structs # {} /\ StructSize(call.cmd) > 0 THEN {Fields} ELSE {}
        /\ pc' = "outputs"
        /\ UNCHANGED <<error, pyErr>>
     \/ (\E i \in Structs : script[i] = NoCell) /\ Crash("cell") /\ UNCHANGED script
  /\ ran' = TRUE
  /\ UNCHANGED <<call, values, inType, result>>

ExecuteCreatesFirst ==
  /\ pc = "execute" /\ call.cmd \notin HelperCommands /\ script[FirstImage].type \in PixelTypes
  /\ inType' = script[FirstImage].type
  /\ owned' = owned \union ImageOuts
  /\ pc' = "process"
  /\ UNCHANGED <<call, script, values, ran, error, pyErr, result>>

\* The chain of type tests in execute.
Execute ==
  /\ pc = "execute" /\ call.cmd \notin HelperCommands
  /\ LET type == script[FirstImage].type
     IN  \/ type \in PixelTypes /\ inType' = type /\ Goto("process")
         \/ type \notin PixelTypes /\ Raise("type") /\ UNCHANGED inType
  /\ UNCHANGED <<call, script, values, ran, result>>

ConvertDeferred ==
  /\ pc = "process"
  /\ ConvertSubset({i \in InOpts : isDeferred(P(i))}, "create")
  /\ UNCHANGED <<call, script, inType, ran, result>>

\* createOutImRefs: an array of the output's type, like the first image in
\* extents and order, and a view of it.
CreateOut ==
  /\ pc = "create"
  /\ LET im == script[FirstImage]
         dims == getDimInfo(im)
         made == [i \in ImageOuts |->
                    Array(P(i).name, OutMap(call.cmd, inType),
                          IF isColumnMajor(im) THEN dims ELSE Reverse(dims),
                          IF isColumnMajor(im) THEN "F" ELSE "C")]
     IN  /\ script' = [i \in Params |-> IF i \in ImageOuts THEN made[i] ELSE script[i]]
         /\ values' = [i \in Params |->
              IF i \in ImageOuts /\ ~isEmpty(made[i]) THEN View(made[i]) ELSE values[i]]
  /\ owned' = owned \union ImageOuts
  /\ pc' = "run"
  /\ UNCHANGED <<call, inType, ran, error, pyErr, result>>

\* PyArray_EMPTY finds no memory: the null array counts as an omitted argument.
CreateOutFails ==
  /\ pc = "create" /\ Python /\ ImageOuts # {}
  /\ pyErr' = "memory"
  /\ pc' = "run"
  /\ UNCHANGED <<call, script, values, inType, ran, owned, error, result>>

\* An image is seen through its view, unless it was empty or no memory was found for it.
HasVoxels(i) == values[i].of # NoObject
ImageIns == {i \in Ins : P(i).trait = "ImageRef"}

\* Sum and GetMinMax look at as many voxels as there are, and a median over one voxel copies
\* them; every other filter cuts its images into chunks.
Cuts ==
  /\ call.cmd \notin {"GetMinMax", "Sum"}
  /\ call.cmd = "MedianFilter" =>
       \A i \in Ins : P(i).trait = "Image" => SubSeq(values[i].nums, 1, 3) # <<1, 1, 1>>

\* Chunks of nothing: calculateBuffers divides by the extents, and a chunk of an image that
\* has channels is sent from, or retrieved to, one that is not there.
CutsNothing ==
  /\ \E i \in ImageIns \union ImageOuts : ~HasVoxels(i)
  /\ \/ \A i \in ImageIns : ~HasVoxels(i)
     \/ \E i \in ImageIns : values[i].nums[4] # 0

\* The chunks of a difference are those of the larger image in every axis.
Unequal == \E i, j \in ImageIns : HasVoxels(i) /\ HasVoxels(j) /\ values[i].nums # values[j].nums

\* The stub and its filter, which returns, throws, or ends the process: a CUDA error leaves a
\* parallel region or a destructor, or the filter cannot do with the numbers it was given.
Run ==
  /\ pc = "run"
  /\ ran' = TRUE
  /\ \/ (Cuts => ~CutsNothing) /\ Goto("outputs")
     \/ Raise("backend")
     \/ Cuts /\ CutsNothing /\ Crash("no image")
     \/ Unequal /\ Crash("extents")
     \/ Crash("filter")
  /\ UNCHANGED <<call, script, values, inType, result>>

\* Scalar outputs become objects; an image output must be there already.
ConvertOutputs ==
  /\ pc = "outputs"
  /\ LET Missing == {i \in ImageOuts : script[i] = Null}
     IN  \/ /\ \A i \in Scalars : script[i] # NoCell
            /\ Missing = {}
            /\ script' = [i \in Params |-> IF i \in Scalars THEN Made(P(i).name) ELSE script[i]]
            /\ owned' = owned \union Scalars
            /\ pc' = "store"
            /\ UNCHANGED <<error, pyErr>>
         \/ (\E i \in Scalars : script[i] = NoCell) /\ Crash("cell") /\ UNCHANGED script
         \/ Missing # {} /\ Raise(P(Least(Missing)).name) /\ UNCHANGED script
  /\ UNCHANGED <<call, values, inType, ran, result>>

\* One output is returned as it is, several in a tuple, none as None.
Store ==
  /\ pc = "store"
  /\ result' = {i \in Outs : script[i] # NoCell}
  /\ owned' = owned \ Outs
  /\ pc' = "returned"
  /\ UNCHANGED <<call, script, values, inType, ran, error, pyErr>>

Next ==
  \/ LoadPython \/ LoadMatlab \/ SetOptionalDefaults \/ ConvertNondeferred
  \/ ExecuteHelper \/ Execute \/ ConvertDeferred \/ CreateOut \/ CreateOutFails
  \/ Run \/ ConvertOutputs \/ Store

Spec == Init /\ [][Next]_vars

-----------------------------------------------------------------------------
(* What the interpreter's user is promised.                                  *)

Ended == pc \in {"returned", "raised", "crashed"}
NotEmpty(i) == Given(i) /\ ~isEmpty(Argument(i))
Omitted == \/ \E i \in InOpts : ~Given(i)
           \/ call.nlhs < Cardinality(Outs)

\* The channels a view can count, and the extents it can hold.
FitsView(o) ==
  LET channels == CASE Len(o.shape) < 4 -> 1
                    [] o.order = "F" -> o.shape[4]
                    [] OTHER -> o.shape[Len(o.shape) - 3]
  IN  Len(o.shape) <= 5 /\ channels < ByteMod

\* Every voxel of the array if it fits, and never one beyond it; the fastest axis first.
Shows(view, o) ==
  /\ view.of = o.name
  /\ IF FitsView(o) THEN Product(view.nums) = Product(o.shape)
                    ELSE Product(view.nums) <= Product(o.shape)
  /\ o.shape # <<>> => view.nums[1] = IF o.order = "C" THEN o.shape[Len(o.shape)] ELSE o.shape[1]

\* The number a user wrote, where the parameter's type has it.
HasNumber(p, item) ==
  IF p.base = "int" THEN Wrap(item.value) = item.value
  ELSE item.kind \in {"int", "bool"} => -DoubleLimit < item.value /\ item.value < DoubleLimit
Means(p, nums, items) ==
  \A k \in DOMAIN items : HasNumber(p, items[k]) => nums[k] = items[k].value

\* What the backend is given is what the user wrote: an image argument as a view
\* of that very array, read as its own type, with its fastest axis first, no voxel
\* beyond the array and none left out (unless it has more channels than an unsigned
\* char counts, or a sixth axis), a vector in x, y, z whichever way the engine writes
\* it, a number as it stands if the parameter's type has it, the documented default
\* where nothing or an empty object was passed; and the output image has the extents
\* and the memory order of the input, so that a voxel goes back to its place
\* (convert_arg, toImage, toImageCopy, toVec, toNumeric, createOutImRefs).
BackendSeesTheCall ==
  ran /\ call.cmd \notin HelperCommands =>
    /\ \A i \in InOpts :
         CASE ~NotEmpty(i) /\ i \in Opts -> values[i].nums = P(i).default
           [] ~NotEmpty(i) /\ i \in Ins -> values[i] = Blank(P(i))
           [] NotEmpty(i) /\ isImage(P(i)) ->
                /\ P(i).trait = "ImageRef" => Argument(i).type = inType
                /\ Shows(values[i], Argument(i))
           [] NotEmpty(i) /\ P(i).trait = "Vector" ->
                Means(P(i), values[i].nums,
                      IF Python THEN Reverse(Argument(i).items) ELSE Argument(i).items)
           [] OTHER -> Means(P(i), values[i].nums, Argument(i).items)
    /\ \A i \in ImageOuts :
         HasVoxels(i) => /\ values[i].nums = values[FirstImage].nums
                         /\ script[i].shape = Argument(FirstImage).shape
                         /\ script[i].order = Argument(FirstImage).order
                         /\ script[i].type = OutMap(call.cmd, Argument(FirstImage).type)

\* Whether an argument is one its parameter can be: judged alone, but for a
\* second image, which has to be of the first one's type.
Wrong(i) ==
  \/ isImage(P(i)) /\ Given(i) /\ Argument(i).kind # "array"
  \/ NotEmpty(i) /\ ~Takes(P(i), Argument(i),
                           IF i \in Ins /\ isDeferred(P(i)) THEN Argument(FirstImage).type ELSE "none")

Acceptable ==
  /\ IF Python THEN Len(call.args) \in Cardinality(Ins)..Cardinality(InOpts)
                               ELSE Counts
  /\ \A i \in InOpts : ~Wrong(i)
  /\ call.cmd \notin HelperCommands => Argument(FirstImage).type \in PixelTypes

\* A call whose arguments are all right reaches the backend unless the interpreter goes
\* down on the way, any other is refused before it; and the argument the error names is
\* one that is wrong (convert_arg, convert_arg_subset).
RefusedIffWrong ==
  Ended =>
    /\ ran => Acceptable
    /\ Acceptable /\ pc # "crashed" => ran
    /\ error \in {P(i).name : i \in InOpts} => \E i \in InOpts : P(i).name = error /\ Wrong(i)

\* The interpreter gets every output of the call, or an error, and never both nor
\* neither.  Python gets both when an integer is beyond long long, or beyond double: the
\* conversion leaves OverflowError behind and the command runs with -1 (toNumeric).
ResultXorError ==
  /\ pc = "returned" =>
       /\ result = {i \in Outs : Python \/ Position(Outs, i) <= call.nlhs}
       /\ pyErr \in {"none", "overflow"}
  /\ pc = "raised" => /\ result = {} /\ error # "none"
                      /\ Python => pyErr # "none"

\* What a Python call leaves behind is only the output of a call whose backend
\* raised (scriptTypes holds a plain pointer) and the fields of the structures a
\* helper command returns (setVal); every other reference is handed over or was
\* never made.
OnlyKnownLeaks ==
  Ended /\ pc # "crashed" =>
    /\ owned # {} => Python
    /\ \A r \in owned : IF r = Fields THEN call.cmd \in HelperCommands
                                      ELSE r \in ImageOuts /\ error = "backend"

\* The interpreter goes down before the backend only over a MATLAB call that leaves an
\* argument or an output out, a Help that is given no string, a kernel that does not fit
\* its copy, and an array of no dimensions given for a vector; and in a backend, over an
\* image that is empty or that no memory was found for, over two images to subtract that
\* are not laid out alike, or over the filter itself, which no helper command and no
\* call with a wrong argument gets to (loadSelected, toString, toImageCopy, arrayToVec,
\* calculateBuffers, cElementWiseDifference, HANDLE_ERROR).
CrashesOnlyAsKnown ==
  pc = "crashed" =>
    \/ error = "cell" /\ ~Python /\ Omitted
    \/ error = "null string" /\ call.cmd = "Help" /\ \E i \in InOpts : Wrong(i)
    \/ /\ error = "overrun" /\ ~ran
       /\ \E i \in InOpts : P(i).trait = "Image" /\ NotEmpty(i) /\ ~FitsView(Argument(i))
    \/ /\ error = "no axis" /\ ~ran /\ Python
       /\ \E i \in InOpts : /\ P(i).trait = "Vector" /\ Given(i)
                            /\ Argument(i).kind = "array" /\ Argument(i).shape = <<>>
    \/ /\ error = "no image" /\ ran /\ Acceptable
       /\ \/ Python /\ pyErr = "memory"
          \/ \E i \in ImageIns : ~NotEmpty(i)
    \/ /\ error = "extents" /\ ran /\ Acceptable
       /\ \E i, j \in ImageIns : \/ Argument(i).shape # Argument(j).shape
                                 \/ Argument(i).order # Argument(j).order
    \/ error = "filter" /\ ran /\ Acceptable /\ call.cmd \notin HelperCommands
=============================================================================
