------------------------------ MODULE MCNesting ------------------------------
(***************************************************************************)
(* Nesting on small sources.  Variables, labels and routines are model     *)
(* values: their names are compared and nothing else.                      *)
(***************************************************************************)
EXTENDS Nesting

CONSTANTS x1, x2, l1, l2, f1, f2   \* the names

Symmetry == Permutations(VarNames) \cup Permutations(LabelNames) \cup Permutations(FuncNames)

Scalar    == [type |-> "vt_generic", array_size |-> -1]
ByteArray == [type |-> "vt_array_of_byte", array_size |-> ArrayLen]
ByteAuto  == [type |-> "vt_array_of_byte", array_size |-> 0]
RealArray == [type |-> "vt_array_of_generic", array_size |-> ArrayLen]
RealAuto  == [type |-> "vt_array_of_generic", array_size |-> 0]

NoDeclarations == {}
ScalarAndArray == {Scalar, ByteAuto}
AllTypes       == {Scalar, ByteArray, ByteAuto, RealArray, RealAuto}
(* Sources of branches and loops; of jumps and routines; of variables in     *)
(* blocks and routines: each kind with a length of its own.                  *)
Family(kinds, names, values, lines) ==
  [kinds |-> kinds, names |-> names, values |-> values, lines |-> lines]

Structured ==
  {Family({"If", "While", "Close", "Break"}, {}, {"key"}, 7),
   Family({"Func", "Call", "Return", "While", "Close", "Label", "Goto", "Assign"},
          {x1, l1, l2, f1, f2}, {"key"}, 5),
   Family({"Func", "Brkpnt", "Stop", "Close"}, {f1}, {}, 4),
   Family({"Declare", "Func", "Open", "Close"}, {x1, x2, f1}, {"bytes"}, 6)}

(* A brace out of order stays so: such sources end early.                    *)
Bounded == Orderly \/ Len(source) <= 4

(* Sources that disagree with what the documents say.                        *)
Commented   == {Family({"While", "If", "Close"}, {}, {"key"}, 4)}
Looping     == {Family({"While", "Close"}, {}, {"key"}, 53)}
AutoSized   == {Family({"Declare", "Open"}, {x1}, {"number", "key", "bytes", "reals"}, 2)}

(* Loop in loop, until one is closed.                                        *)
LoopsFirst == \A k \in Closing : k > 51
=============================================================================
