-------------------------------- MODULE ScriptObjects --------------------------------
(***************************************************************************)
(* What the converters see of a script object, and what they make of it    *)
(* (ScriptHelpers.h, ImageView.h): an object is                            *)
(* [name, kind, type, shape, order, items], its kind a Python class        *)
(* ("array" for every MATLAB object), its items the scalars [kind, value]  *)
(* of a list, a vector or a number.                                        *)
(***************************************************************************)
EXTENDS ScriptCommands, SequencesExt

CONSTANTS
  IntMod,     \* bound: the values of an int (2^32 in the code)
  ByteMod     \* bound: the values of an unsigned char (256)

ASSUME ScriptObjectsAssumption ==
  /\ IntMod \in Nat /\ ByteMod \in Nat
  /\ 1 < ByteMod /\ 1 < IntMod

Object(name, kind, type, shape, order, items) ==
  [name |-> name, kind |-> kind, type |-> type, shape |-> shape, order |-> order, items |-> items]
Array(name, type, shape, order) == Object(name, "array", type, shape, order, <<>>)
NoObject == "nothing"                              \* the name of no object
Null == Object("", "Null", "", <<>>, "", <<>>)     \* a null object
NoCell == [Null EXCEPT !.kind = "NoCell"]          \* a null pointer to where the object is

Product(s) == LET p[n \in 0..Len(s)] == IF n = 0 THEN 1 ELSE p[n - 1] * s[n] IN p[Len(s)]

\* An interpreter passes objects, never null ones; MATLAB's are all arrays, of any class,
\* column-major and full.  A number is one item, an array has as many as its extents say.
Passable(engine, o) ==
  /\ o.kind \notin {Null.kind, NoCell.kind} /\ o.name # NoObject
  /\ engine # "Python" => o.kind = "array" /\ o.order = "F"
  /\ o.shape \in Seq(Nat) /\ Len(o.items) \in Nat /\ DOMAIN o.items = 1..Len(o.items)
  /\ o.kind \in {"int", "bool", "float"} => Len(o.items) = 1
  /\ o.kind = "array" /\ o.items # <<>> => Len(o.items) = Product(o.shape)
  /\ \A k \in DOMAIN o.items : o.items[k].kind \in {"int", "bool"} => o.items[k].value \in Int

Made(name) == [Null EXCEPT !.name = name, !.kind = "made"]

isColumnMajor(o) == o.order = "F"

UnreversedDims(o) == o.shape
\* getDimInfo: the extents, the fastest first.
getDimInfo(o) == IF isColumnMajor(o) THEN o.shape ELSE Reverse(o.shape)

\* makeImageDims: extents after the fifth are not looked at.
makeImageDims(dims) ==
  LET Extent(k) == IF k <= Len(dims) THEN dims[k] ELSE 1
  IN  [k \in 1..5 |-> Extent(k)]

\* A converted argument: its numbers (or the extents of a view) and the object it views.
Value(nums, of) == [nums |-> nums, of |-> of]

\* ImageView and ImageOwner keep the number of channels in an unsigned char.
ImageView(dims, of) == Value([dims EXCEPT ![4] = @ % ByteMod], of)
View(o) == ImageView(makeImageDims(getDimInfo(o)), o.name)

\* toImageCopy: an owner of those extents is allocated, and arrayCopy fills it with every
\* element of the array, however many the owner has room for.
ImageOwner(dims, of) == Value([dims EXCEPT ![4] = @ % ByteMod], of)
toImageCopy(o) == ImageOwner(makeImageDims(getDimInfo(o)), o.name)
Overruns(p, o) == p.trait = "Image" /\ Product(toImageCopy(o).nums) < Product(o.shape)

\* What the default constructor of the concrete type leaves in an argument.
Blank(p) ==
  CASE p.trait \in {"Image", "ImageRef"} -> Value(<<0, 0, 0, 0, 0>>, NoObject)
    [] p.trait = "Vector" -> Value(<<0, 0, 0>>, NoObject)
    [] OTHER -> Value(IF p.base = "string" THEN <<>> ELSE <<0>>, NoObject)

\* static_cast<int>: the value modulo 2^32.
Wrap(v) == ((v + (IntMod \div 2)) % IntMod) - (IntMod \div 2)

isImage(p) == p.trait \in {"Image", "ImageRef"}
isDeferred(p) == p.base = Deferred
=============================================================================
