--------------------------------- MODULE PyConverter ---------------------------------
(***************************************************************************)
(* Python's side of the argument conversion (PyArgConverter.h, PyTypes.h): *)
(* what a list of arguments must be to be loaded, which object each        *)
(* parameter takes, and what it makes of it.                               *)
(***************************************************************************)
EXTENDS ScriptObjects

CONSTANTS
  LongLong,     \* bound: one more than the largest long long (2^63)
  DoubleLimit   \* bound: the least integer too large for a double (2^1024, to rounding)

\* PyParseExpand: "O!" with PyArray_Type for an image, "O" for anything else.
Expands(p, o) == isImage(p) => o.kind = "array"

ParsesAnyCount(required, total, count) == count <= total
\* PyArg_ParseTuple: so many arguments, the optional ones after a "|".
Parses(required, total, count) == required <= count /\ count <= total

\* A list, a tuple or an array without elements, None, and a null pointer.
isEmpty(o) ==
  IF o.kind = "array" THEN Product(o.shape) = 0 ELSE o.kind # "str" /\ o.items = <<>>

isContiguous(o) == o.order \in {"C", "F"}

\* PyLong_Check holds of a bool too, PyFloat_Check only of a float.
isNumeric(base, item) ==
  item.kind \in {"int", "bool"} \/ (base = "double" /\ item.kind = "float")

Overflows(base, item) ==
  /\ item.kind \in {"int", "bool"}
  /\ IF base = "int" THEN item.value >= LongLong \/ item.value < -LongLong
                     ELSE item.value >= DoubleLimit \/ item.value <= -DoubleLimit

\* PyLong_AsLongLong and PyLong_AsDouble give -1 for what does not fit.
toNumeric(base, item) ==
  LET v == IF Overflows(base, item) THEN -1 ELSE item.value
  IN  IF base = "int" THEN Wrap(v) ELSE v

\* They set the error indicator too: for a number, and for an item of a list or a tuple,
\* which are converted from the last to the first that is no number.
SetsError(p, o) ==
  /\ \/ p.trait = "Vector" /\ o.kind \in {"list", "tuple"} /\ Len(o.items) = 3
     \/ p.trait = "Scalar" /\ p.base # "string" /\ o.kind \in {"int", "bool", "float"}
  /\ \E k \in DOMAIN o.items :
       /\ Overflows(p.base, o.items[k])
       /\ \A j \in k..Len(o.items) : isNumeric(p.base, o.items[j])

\* The element types arrayCopy converts from.
arrayCopies(o) == isContiguous(o) /\ o.type \in PixelTypes

isVec(base, o) ==
  CASE o.kind \in {"list", "tuple"} -> Len(o.items) = 3 /\ \A k \in 1..3 : isNumeric(base, o.items[k])
    [] o.kind = "array" -> /\ Len(o.shape) <= 1
                           /\ o.shape # <<>> => o.shape[1] = 3 /\ arrayCopies(o)
    [] OTHER -> FALSE

\* arrayToVec asks an array of no dimensions for its first: numpy has none to look at.
NoAxis(p, o) == p.trait = "Vector" /\ o.kind = "array" /\ o.shape = <<>>

\* toVec: written slowest axis first, kept as x, y, z.
toVec(base, o) == Reverse([k \in DOMAIN o.items |-> toNumeric(base, o.items[k])])

\* toImage views the caller's memory, so the element type must be the very one.
TakesImage(o, type) == o.kind = "array" /\ isContiguous(o) /\ o.type = type

\* toString: a str that has no UTF-8 form (lone surrogates) is a null pointer, from which
\* a string is built.
isEncodable(o) == o.type # "surrogates"
NullString(p, o) == p.base = "string" /\ o.kind = "str" /\ ~isEncodable(o)

\* toImageCopy converts the elements.
TakesImageCopy(o) == o.kind = "array" /\ arrayCopies(o)

\* Which of the conversions a parameter has, and whether it throws.
Takes(p, o, inType) ==
  CASE p.trait = "ImageRef" -> TakesImage(o, inType)
    [] p.trait = "Image" -> TakesImageCopy(o)
    [] p.trait = "Vector" -> isVec(p.base, o)
    [] p.base = "string" -> o.kind = "str" /\ isEncodable(o)
    [] OTHER -> o.kind \in {"int", "bool", "float"} /\ isNumeric(p.base, o.items[1])

convert_impl(p, o) ==
  CASE p.trait = "ImageRef" -> View(o)
    [] p.trait = "Image" -> toImageCopy(o)
    [] p.trait = "Vector" -> Value(toVec(p.base, o), NoObject)
    [] p.base = "string" -> Value(<<>>, o.name)
    [] OTHER -> Value(<<toNumeric(p.base, o.items[1])>>, NoObject)
=============================================================================
