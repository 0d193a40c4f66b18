------------------------------- MODULE Outline -------------------------------
(***************************************************************************)
(* Blocks, scopes and routines, read off the lines of the source by        *)
(* counting braces: the grammar's view of a program, without the           *)
(* compiler's stacks.  Lines are known by their numbers; a routine is the  *)
(* set of its FUNC line, and {} stands for the main part.                  *)
(***************************************************************************)
EXTENDS Integers, FiniteSets, SequencesExt

VARIABLE source

Lines     == DOMAIN source
TheEnd    == Len(source) + 1
Kind(k)   == source[k].kind
Of(kind)  == {k \in Lines : Kind(k) = kind}
Closing   == Of("Close")
Branching == {k \in Closing : source[k].behind \in {"else", "else_if"}}
Opening   == Of("If") \cup Of("While") \cup Of("Open") \cup Of("Func") \cup Branching

(* Blocks open after line k.                                                 *)
Level(k) == Cardinality({o \in Opening : o <= k}) - Cardinality({c \in Closing : c <= k})

(* The line that opens the block line k closes, and the line that closes the *)
(* block line k opens.                                                       *)
Opener(k) == Max({o \in Opening : o < k /\ Level(o) = Level(k - 1)})
EndLine(k) == Min({c \in Closing : c > k /\ Level(c - 1) = Level(k)})

IfBranch(o) == Kind(o) = "If" \/ source[o].behind = "else_if"
Branch(o)   == IfBranch(o) \/ source[o].behind = "else"

(* Where the last branch of a condition ends, and its branches behind k.     *)
ConditionEnd(k) ==
  Min({c \in Closing : c > k /\ Level(c - 1) = Level(k) /\ source[c].behind = "nothing"})
BranchesBehind(k) == {c \in Branching : c \in (k + 1)..ConditionEnd(k) /\ Level(c) = Level(k)}

(* The FUNC line of the routine line k is in, if any, and the loops around k. *)
Routine(k) == {o \in Of("Func") : o < k /\ \A j \in o..(k - 1) : Level(j) >= 1}
Loops(k)   == {o \in Of("While") : o < k /\ \A j \in o..(k - 1) : Level(j) >= Level(o)}

(* The line behind line k, in the same routine or the main part.             *)
LineBehind(k) ==
  Min({j \in Lines \ Of("Label") : j > k /\ Routine(j) = Routine(k)} \cup {TheEnd})

(* What is declared at line k of a source, a variable each: it lives until   *)
(* the innermost block around it closes.                                     *)
DeclaredAt(k) ==
  [i \in DOMAIN source[k].sizes |->
     [line    |-> k,
      name    |-> IF Kind(k) = "Func" THEN source[k].params[i] ELSE source[k].name,
      size    |-> source[k].sizes[i],
      routine |-> IF Kind(k) = "Func" THEN {k} ELSE Routine(k),
      lives   |-> {j \in k..TheEnd : /\ \A m \in k..(j - 1) : Level(m) >= Level(k)
                                     /\ ~\E c \in Closing : c \in (k + 1)..(j - 1)
                                                            /\ Level(c - 1) = Level(k)}]]

(* All variables, the routines' first, as an image has them.                 *)
Variables ==
  LET flat == FlattenSeq([k \in Lines |-> DeclaredAt(k)])
  IN  SelectSeq(flat, LAMBDA v : v.routine # {} /\ v.size > 0)
      \o SelectSeq(flat, LAMBDA v : v.routine = {} /\ v.size > 0)

(* Braces in order: what the grammar of the source allows.  A condition      *)
(* stands inside some block (parser_gen.c:604), a brace of a branch has      *)
(* nothing or an ELSE behind it (parser_gen.c:539), a routine is in no block *)
(* (parser_gen.c:672), and a condition is not a constant.                    *)
OrderlyLine(k) ==
  /\ k \in Closing => Level(k - 1) >= 1
  /\ k \in Branching => IfBranch(Opener(k))
  /\ k \in Closing /\ source[k].behind = "other" => ~Branch(Opener(k))
  /\ Kind(k) = "If" \/ (k \in Closing /\ source[k].behind = "else_if")
       => Level(k - 1) >= 1 /\ source[k].value # "number"
  /\ k \in Branching => Level(k) >= 2
  /\ Kind(k) = "Func" => Level(k - 1) = 0
Orderly == \A k \in Lines : OrderlyLine(k)
=============================================================================
