----------------------------- MODULE MCToolchain -----------------------------
(***************************************************************************)
(* Toolchain on small sources: each source of the families is compiled and *)
(* run.  The names are model values.                                       *)
(***************************************************************************)
EXTENDS Toolchain

CONSTANTS x1, x2, f1, l1   \* the names

Symmetry == Permutations(VarNames)

ScalarOnly == {[type |-> "vt_generic", array_size |-> -1]}

Family(kinds, names, values, lines) ==
  [kinds |-> kinds, names |-> names, values |-> values, lines |-> lines]

(* Routines with arguments, results and variables of their own; recursion;   *)
(* branches; loops; jumps; what is printed.                                  *)
Compiled ==
  {Family({"Func", "Declare", "Call", "Return", "Close"}, {x1, x2, f1}, {}, 6),
   Family({"Func", "Declare", "Assign", "Call", "Return", "Close"}, {x1, f1}, {"number"}, 5),
   Family({"Func", "If", "Call", "Return", "Close"}, {f1}, {"key"}, 6),
   Family({"Open", "If", "Declare", "Close"}, {x1}, {"key"}, 6),
   Family({"While", "Declare", "Break", "Close"}, {x1, x2}, {"key"}, 5),
   Family({"While", "If", "Break", "Close"}, {}, {"key"}, 6),
   Family({"Declare", "Open", "Close", "Label", "Goto"}, {x1, x2, l1}, {"number"}, 5),
   Family({"Func", "Declare", "Call", "Print", "Close"}, {x1, f1}, {"number"}, 4)}

-----------------------------------------------------------------------------
(* What is run: whole sources whose jumps lead into no variable's scope,     *)
(* whose conditions and printed parts call nothing, whose variables are not  *)
(* declared from themselves, and that have no comment behind a brace.        *)
ScopesAt(k) == {v \in Range(Variables) : S!LivesAt(v, k)}
NoJumpIntoScope ==
  \A g \in Of("Goto") : \A l \in Of("Label") :
    source[l].name = source[g].name => ScopesAt(l) \subseteq ScopesAt(g)

PlainLine(k) ==
  /\ source[k].behind # "other"
  /\ k \in Of("If") \cup Of("While") \cup Branching => source[k].value \notin FuncNames
  /\ Kind(k) = "Print" => Range(source[k].params) \cap FuncNames = {}
  /\ Kind(k) = "Declare" => source[k].value # source[k].name

Bounded ==
  prog = NoProgram =>
    /\ \A k \in Lines : PlainLine(k)
    /\ Orderly
    /\ image # NoImage => Complete /\ NoJumpIntoScope

(* Nobody watches and nobody steps; the output is short.                     *)
OutMax == 2
Quiet  == prog # NoProgram => ~print_stat /\ (by_step => ip = prog.entry) /\ Len(out) <= OutMax
=============================================================================
