--------------------------------- MODULE MexConverter ---------------------------------
(***************************************************************************)
(* MATLAB's side of the argument conversion (MexArgConverter.h,            *)
(* MexTypes.h).  Numbers are doubles; those out of the range of an int,    *)
(* whose conversion is undefined, are not passed.                          *)
(***************************************************************************)
EXTENDS ScriptObjects

\* load: at least one output if the command has any, and not too many of either.
Counts(required, total, outs, nrhs, nlhs) ==
  /\ outs > 0 => nlhs > 0
  /\ nlhs <= outs
  /\ required <= nrhs /\ nrhs <= total

\* loadSelected: the cell of the k-th of a subset of the parameters, if there are so many.
Cell(k, count, object) == IF k <= count THEN object ELSE NoCell

isEmpty(o) == Product(o.shape) = 0

\* A scalar double, for every parameter that is a number.
isNumeric(o) == o.type = "double" /\ Product(o.shape) = 1
toNumeric(base, o) == IF base = "int" THEN Wrap(o.items[1].value) ELSE o.items[1].value

\* Three doubles, x first.
isVec(o) == o.type = "double" /\ Product(o.shape) = 3
toVec(o) == [k \in 1..3 |-> o.items[k].value]

\* toImage views the caller's memory, so the element type must be the very one.
TakesImage(o, type) == o.kind = "array" /\ o.type = type

\* toImageCopy: the element types arrayCopy converts from.
TakesImageCopy(o) == o.type \in PixelTypes

\* toString makes its error without throwing it, and builds a string from null.
NullString(p, o) == p.base = "string" /\ o.type # "char"

Takes(p, o, inType) ==
  CASE p.trait = "ImageRef" -> TakesImage(o, inType)
    [] p.trait = "Image" -> TakesImageCopy(o)
    [] p.trait = "Vector" -> isVec(o)
    [] p.base = "string" -> o.type = "char"
    [] OTHER -> isNumeric(o)

convert_impl(p, o) ==
  CASE p.trait = "ImageRef" -> View(o)
    [] p.trait = "Image" -> toImageCopy(o)
    [] p.trait = "Vector" -> Value(toVec(o), NoObject)
    [] p.base = "string" -> Value(<<>>, o.name)
    [] OTHER -> Value(<<toNumeric(p.base, o)>>, NoObject)
=============================================================================
