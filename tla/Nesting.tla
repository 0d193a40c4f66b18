------------------------------- MODULE Nesting -------------------------------
(***************************************************************************)
(* What the compiler's image has to do with its source: the properties     *)
(* compare the outline of the source with the image.                       *)
(***************************************************************************)
EXTENDS Linker

INSTANCE Outline

(* A whole program: every block closed, every label in use defined once, in  *)
(* the routine that jumps to it, no array that waits for a size in vain, and *)
(* no more branches than a label has room for.                               *)
Complete ==
  /\ image # NoImage
  /\ Orderly /\ Level(Len(source)) = 0
  /\ \A g \in Of("Goto") :
       /\ Cardinality({l \in Of("Label") : source[l].name = source[g].name}) = 1
       /\ \A l \in Of("Label") : source[l].name = source[g].name => Routine(l) = Routine(g)
  /\ \A k \in Of("If") : Cardinality(BranchesBehind(k)) <= LINKS_BY_LABEL_MAX
  /\ \A k \in Of("Declare") : source[k].auto_size => source[k].value \in Arrays

-----------------------------------------------------------------------------
(* The image, line by line.                                                  *)

LineAt(k) ==
  (CHOOSE c \in Range(image.code) : c.instr.op = "DBG" /\ c.instr.arg = k).at

(* Where what follows line k begins, in the same routine or the main part.   *)
After(k) == IF LineBehind(k) = TheEnd THEN image.size - CmdSize("END") ELSE LineAt(LineBehind(k))

(* The jumps of line k, and where they lead.                                 *)
Jumps(k) ==
  {<<image.code[i].instr.op, image.code[i].at + CmdSize("JMP") + image.code[i].instr.arg>> :
     i \in {n \in DOMAIN image.code :
              /\ image.code[n].instr.op \in JumpOps
              /\ LET lines == {m \in 1..n : image.code[m].instr.op = "DBG"}
                 IN  lines # {} /\ image.code[Max(lines)].instr.arg = k}}

(* Past a branch: its brace, and the jump an ELSE leaves there.              *)
PastBranch(k) ==
  LET c == EndLine(k)
  IN  IF c \in Branching THEN LineAt(c) + CmdSize("DBG") + CmdSize("JMP") ELSE After(c)

JumpsMeant(k) ==
  CASE Kind(k) = "While" /\ source[k].value # "number" -> {<<"JMP_POP_CMPZ", After(EndLine(k))>>}
    [] Kind(k) = "If" -> {<<"JMP_POP_CMPZ", PastBranch(k)>>}
    [] k \in Branching -> {<<"JMP", After(ConditionEnd(k))>>}
                          \cup (IF IfBranch(k) THEN {<<"JMP_POP_CMPZ", PastBranch(k)>>} ELSE {})
    [] k \in Closing \ Branching /\ Kind(Opener(k)) = "While" ->
         {<<"JMP", LineAt(Opener(k)) + CmdSize("DBG")>>}
    [] Kind(k) = "Break" -> {<<"JMP", After(EndLine(o))>> : o \in {l \in Loops(k) : \A m \in Loops(k) : m <= l}}
    [] Kind(k) = "Goto" -> {<<"JMP", After(l)>> : l \in {j \in Of("Label") : source[j].name = source[k].name}}
    [] OTHER -> {}

Places == SelectSeq(image.code, LAMBDA c : c.instr.op \in {"INIT_gVAR", "INIT_bVAR"})

(* The most bytes that live at one line of a routine ({}: of the main part). *)
Need(routine) ==
  LET vars == Variables
      mine == {i \in DOMAIN vars : vars[i].routine = routine}
  IN  Max({0} \cup {MapThenSumSet(LAMBDA i : vars[i].size, {i \in mine : k \in vars[i].lives}) :
                      k \in Lines})

(* Routine number n of the image lies between two RETs.                      *)
Rets      == {c.at : c \in {d \in Range(image.code) : d.instr.op = "RET"}}
NthRet(n) == CHOOSE a \in Rets : Cardinality({b \in Rets : b <= a}) = n
Entry(n)  == IF n = 1 THEN 0 ELSE NthRet(n - 1) + CmdSize("RET")
Number(o) == Cardinality({f \in Of("Func") : f <= o})

-----------------------------------------------------------------------------
(* Properties.                                                               *)

(* The compiler's vectors and numbers are of the right form, and refer to    *)
(* what exists: blocks to labels, labels and variables to routines, jumps to *)
(* code already there, no more of them than a label takes.                   *)
TypeOK ==
  /\ result.heap_memory_max \in Nat /\ result.heap_memory_max_funcs \in Nat
  /\ result.func_info \in 0..Len(result.funcs_vect)
  /\ \A b \in Range(result.block_vect) :
       {b.label_begin.label, b.label_end.label} \subseteq 0..Len(result.labels_vect)
  /\ \A l \in Range(result.labels_vect) :
       /\ Len(l.jmps) <= LINKS_BY_LABEL_MAX
       /\ \A n \in Range(l.jmps) : n < result.obj[TRUE].size \/ n < result.obj[FALSE].size
       /\ l.func_info \in 0..Len(result.funcs_vect)
  /\ \A a \in BOOLEAN : \A c \in Range(result.obj[a].code) : c.at < result.obj[a].size

(* Every jump of the image leads where the source says: past the loop or the *)
(* branch whose condition fails, back to the loop's condition, past the last *)
(* branch of a condition, past the innermost loop for BREAK, to the label    *)
(* for GOTO; and no jump is missing or left over (BLOCK_END, open_block,     *)
(* begin_block, the linker of main.c).                                       *)
JumpsLand ==
  Complete => image.stray = {} /\ \A k \in Lines : Jumps(k) = JumpsMeant(k)

(* Two variables that live at the same time, in the same routine, have no    *)
(* byte in common (RegisterVar, UnregisterLastBlockVars).                    *)
PlacesDisjoint ==
  Complete =>
    LET vars     == Variables
        placed   == Places
        Place(i) == placed[i].instr.arg
        End(i)   == Place(i) + vars[i].size
    IN  \A i, j \in DOMAIN vars :
          i # j /\ vars[i].routine = vars[j].routine /\ vars[i].lives \cap vars[j].lives # {}
          => End(i) <= Place(j) \/ End(j) <= Place(i)

(* The heap the image asks for is what the main part needs at its worst      *)
(* line, and what each routine needs at its worst: no place is lost when a   *)
(* block closes or a routine ends, and none is missing.                      *)
HeapExact ==
  Complete => image.heap_min_size = Need({}) + MapThenSumSet(LAMBDA o : Need({o}), Of("Func"))

(* A routine's lines are all between its entry and its RET, the main part's  *)
(* behind the entry point, and a call leads to the entry of the routine it   *)
(* names (RegisterSub, EndSubContext, VmOp_CallPrg).                         *)
RoutinesWhole ==
  Complete =>
    /\ Cardinality(Rets) = Cardinality(Of("Func"))
    /\ \A k \in Lines \ Of("Label") :
         IF Routine(k) = {} THEN LineAt(k) >= image.entry_point
         ELSE LET n == Number(Max(Routine(k)))
              IN  LineAt(k) >= Entry(n) /\ LineAt(k) < NthRet(n)
    /\ \A k \in Of("Call") :
         \E c \in Range(image.code) :
           /\ c.instr.op = "CALL_PRG_FUNC"
           /\ c.at > LineAt(k) /\ c.at < After(k)
           /\ \E o \in Of("Func") : source[o].name = source[k].name /\ c.instr.arg = Entry(Number(o))

(* The registry of variables and the heap registers as Scopes sees them: the *)
(* main part's variables come first.                                         *)
OfArea(a, running, aside) == IF a = result.subs_body THEN running ELSE IF a THEN 0 ELSE aside
RoutineVars == {i \in DOMAIN result.vars_vect : result.vars_vect[i].subs_body}
PlacesOf(a) ==
  LET all  == result.vars_vect
      main == IF RoutineVars = {} THEN Len(all) ELSE Min(RoutineVars) - 1
      mine == IF a THEN SubSeq(all, main + 1, Len(all)) ELSE SubSeq(all, 1, main)
  IN  [i \in 1..Len(mine) |-> [offs |-> mine[i].mem_offs, size |-> mine[i].mem_size]]
Sc == INSTANCE Scopes WITH
  places <- [a \in BOOLEAN |-> PlacesOf(a)],
  pnt    <- [a \in BOOLEAN |-> OfArea(a, result.heap_pnt, result.heap_pnt_back)],
  most   <- [a \in BOOLEAN |-> OfArea(a, result.heap_memory_max, result.heap_memory_max_back)],
  sub    <- result.subs_body,
  funcs  <- result.heap_memory_max_funcs

(* The registry of variables and the heap registers, line by line, are those *)
(* of Scopes: each variable's place is behind those that live, a block gives *)
(* back what its variables took, a routine leaves the main part's as they    *)
(* were (RegisterVar, UnregisterLastBlockVars, RegisterSub, EndSubContext).  *)
ImplementsScopes ==
  Sc!Init /\ [][Ok(result') /\ ~UNCHANGED Sc!scopes /\ Orderly' => Sc!Next]_lvars

(* Braces in order are accepted: no line that opens or closes a block is     *)
(* refused or crashes the compiler (IF, BLOCK_END).                          *)
OrderAccepted ==
  /\ Orderly /\ source # <<>>
  /\ Kind(Len(source)) \in {"If", "While", "Open", "Close"}
  /\ source[Len(source)].value \in Values \cup {"none"}
  => Ok(result)

-----------------------------------------------------------------------------
(* What the source's texts say, where the compiler does otherwise.           *)

(* parser_gen.c:951 takes a comment anywhere, so behind a brace too: with    *)
(* the comments gone the braces are in order, and at the end of the source   *)
(* no block is left open.                                                    *)
CommentsMeanNothing ==
  /\ image # NoImage
  /\ Of("Func") = {} /\ Level(Len(source)) = 0 /\ Branching = {}
  /\ \A k \in Closing \cup Of("If") : Level(k - 1) >= 1
  => result.block_vect = <<>>

(* parser_gen.c:183: an array declared without a size has the size of its    *)
(* right side, so there is a place for it when it is assigned.               *)
AssignedArraysHavePlaces ==
  image # NoImage => Len(Places) = Len(Variables)
=============================================================================
