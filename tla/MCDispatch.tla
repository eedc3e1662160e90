------------------------------- MODULE MCDispatch -------------------------------
(* Both engines, a command of every layout, every number of arguments, and for  *)
(* every parameter an argument of each kind its converter tells apart.          *)
EXTENDS Dispatch

MCIntMod == 8
MCLongLong == 32
MCDoubleLimit == 64
MCByteMod == 4

Number(kind, v) == [kind |-> kind, value |-> v]
Scalar(engine, kind, v) ==
  IF engine = "Python" THEN Object("", kind, kind, <<>>, "", <<Number(kind, v)>>)
  ELSE Object("", "array", IF kind = "float" THEN "double" ELSE kind, <<1, 1>>, "F", <<Number(kind, v)>>)
None(engine) == IF engine = "Python" THEN Object("None", "None", "", <<>>, "", <<>>)
                ELSE Array("[]", "double", <<0, 0>>, "F")
Triple(a, b, c) == <<Number(a, 1), Number(b, 2), Number(c, 3)>>
NumberArray(items, order) == Object("", "array", "double", <<Len(items)>>, order, items)

Images(engine) ==
  {Array("volume", "uint8", <<2, 3, 1>>, "F"), Array("channels", "float", <<1, 2, 1, MCByteMod>>, "F"),
   Array("signed", "int8", <<2, 1>>, "F"), Array("none", "uint8", <<0, 2>>, "F")}
  \union IF engine = "MATLAB" THEN {} ELSE
  {Array("point", "float", <<>>, "C"), Array("rows", "uint8", <<2, 3>>, "C"),
   Array("frames", "uint16", <<2, 3, 1, 1, 2>>, "C"), Array("slice", "uint8", <<2, 2>>, "none"),
   Array("axes", "float", <<2, 1, 1, 1, 1, 1>>, "C"), None(engine)}

Kernels(engine) ==
  {Array("ball", "float", <<3, 1>>, "F"), Array("pinpoint", "float", <<1, 1>>, "F"),
   Array("bytes", "int8", <<3, 1>>, "F"), Array("spectrum", "float", <<1, 1, 1, MCByteMod>>, "F"),
   Array("six axes", "float", <<1, 1, 1, 1, 1, 2>>, "F"), None(engine)}

Vectors(engine) == {None(engine)} \union
  IF engine = "MATLAB"
  THEN {[NumberArray(Triple("float", "float", "float"), "F") EXCEPT !.shape = <<1, 3>>],
        [NumberArray(<<Number("float", 1)>>, "F") EXCEPT !.shape = <<1, 1>>]}
  ELSE {Object("", "list", "", <<>>, "", Triple("int", "float", "bool")),
        Object("", "tuple", "", <<>>, "", Triple("int", "str", "int")),
        Object("", "list", "", <<>>, "",
               <<Number("str", 1), Number("int", MCDoubleLimit), Number("int", 3)>>),
        NumberArray(Triple("float", "float", "float"), "C"),
        Array("scalar", "double", <<>>, "C"),
        NumberArray(Triple("float", "float", "float"), "none")}

Ints(engine) == {Scalar(engine, "float", 3), None(engine)} \union
  IF engine = "MATLAB" THEN {Scalar(engine, "single", 3)}
  ELSE {Scalar(engine, "int", -3), Scalar(engine, "bool", 1), Scalar(engine, "int", MCIntMod + 1),
        Scalar(engine, "int", MCLongLong)}

Doubles(engine) == {Scalar(engine, "float", 3), Scalar(engine, "char", 3)} \union
  IF engine = "MATLAB" THEN {} ELSE {Scalar(engine, "int", MCDoubleLimit)}

Strings(engine) == IF engine = "MATLAB" THEN {Array("Sum", "char", <<1, 3>>, "F"), Scalar(engine, "float", 3)}
                   ELSE {Object("Sum", "str", "", <<>>, "", <<>>), Scalar(engine, "int", 3),
                         Object("half", "str", "surrogates", <<>>, "", <<>>)}

Pool(engine, p) ==
  CASE p.trait = "ImageRef" -> Images(engine)
    [] p.trait = "Image" -> Kernels(engine)
    [] p.trait = "Vector" -> Vectors(engine)
    [] p.base = "string" -> Strings(engine)
    [] p.base = "double" -> Doubles(engine)
    [] OTHER -> Ints(engine)

Lists(engine, ps) ==
  FoldLeft(LAMBDA lists, p : {Append(l, o) : l \in lists, o \in Pool(engine, p)}, {<<>>}, ps)

MCCommands == (Commands \ KernelFilters) \union {"MedianFilter"}

MCCalls ==
  UNION {UNION {[engine : {engine}, cmd : {cmd}, nlhs : IF engine = "Python" THEN {0} ELSE 0..2,
                 args : UNION {Lists(engine, SubSeq(Written(cmd), 1, n)) : n \in 0..Len(Written(cmd))}]
                : cmd \in MCCommands} : engine \in {"Python", "MATLAB"}}
=============================================================================
