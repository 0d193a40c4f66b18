------------------------------- MODULE Blocks -------------------------------
(***************************************************************************)
(* The compiler's statement machine (compiler/parser_gen.c), its           *)
(* registries (parser_reg.c) and the code they leave (vm_code.c), one line *)
(* of source at a time.  parse_result_t is a record that every operator    *)
(* takes and returns, as in C every function gets `result`.                *)
(*                                                                         *)
(* The source is any sequence of lines of one of the Families.  An         *)
(* expression is a number, a key from INKEY (whose value is not known      *)
(* when compiling), an array of bytes or of other numbers written out, a   *)
(* variable, or a call of a routine without parameters; what operators and *)
(* brackets make of these is in module Expr.  CHAR, CONST, elements of     *)
(* arrays and pointers as parameters are left out.                         *)
(***************************************************************************)
EXTENDS VmCmd, SequencesExt

CONSTANTS
  VarNames, LabelNames, FuncNames,  \* names in the source
  ArrayLen,                         \* elements of an array, declared or written out
  Families,                         \* kinds of source: statements, names, values, most lines
  Declarations,                     \* the types its declarations give, with array sizes
  Expressions,                      \* the expressions it has
  LINKS_BY_LABEL_MAX,               \* jumps one label can take
  VECTOR_STEP_SIZE,                 \* labels that fit before their vector grows
  ReallocMoves,                     \* whether realloc moves what it makes larger
  FUNC_MAX_PARAMS,
  PrintCounts                       \* how many parts a PRINT of the source may have

AutoName == "#"    \* the names AutoName makes: told apart by line and place, not here

Arrays == {"bytes", "reals"}
Values == {"number", "key"}

ASSUME BlocksAssumption ==
  /\ Expressions \subseteq Arrays \cup Values \cup VarNames \cup FuncNames
  /\ Declarations \subseteq [type: {"vt_generic"}, array_size: {-1}]
       \cup [type: {"vt_array_of_byte"}, array_size: {-1, 0, ArrayLen}]
       \cup [type: {"vt_array_of_generic"}, array_size: {0, ArrayLen}]
  /\ ArrayLen \in 1..255
  /\ LINKS_BY_LABEL_MAX \in Nat \ {0}
  /\ VECTOR_STEP_SIZE \in Nat \ {0}
  /\ ReallocMoves \in BOOLEAN
  /\ FUNC_MAX_PARAMS \in Nat \ {0}
  /\ PrintCounts \subseteq Nat \ {0}
  /\ \A f \in Families : f.lines \in Nat
  /\ AutoName \notin LabelNames
  /\ (VarNames \cup FuncNames) \cap (Arrays \cup Values \cup {"none"}) = {}

VARIABLES
  result,    \* parse_result_t
  source     \* the lines read so far, the refused one included

bvars == <<result, source>>

NULL == 0          \* pointers are places in a vector; this is none

-----------------------------------------------------------------------------
(* Errors, vectors, and the code of the part being compiled.                *)

Ok(r)        == r.pe = "no_error" /\ ~r.lost
Error(r, pe) == [r EXCEPT !.pe = pe]
Block(r)     == Last(r.block_vect)

(* FIND_OBJECT: the first element of that name, NULL if there is none.      *)
Named(vect, name) == SelectInSeq(vect, LAMBDA o : o.name = name)

GetCodeOffset(r) == r.obj[r.subs_body].size

(* Append an instruction, or the first bytes of one.                         *)
Put(r, bytes, op, mod, arg, byte) ==
  [r EXCEPT !.obj[r.subs_body] =
     [size |-> @.size + bytes,
      code |-> Append(@.code, [at    |-> @.size,
                               instr |-> [op |-> op, mod |-> mod, arg |-> arg, byte |-> byte]])]]
code_op(r, op, mod, arg, byte) == Put(r, CmdSize(op), op, mod, arg, byte)

VmOp_DebugNewLine(r) == code_op(r, "DBG", FALSE, r.line_num, 0)
VmOp_BreakPoint(r)   == code_op(r, "BREAK", FALSE, r.line_num, 0)
VmOp_ArgNum(r)       == code_op(r, "PUSH_NUM", FALSE, FptOne, 0)

-----------------------------------------------------------------------------
(* Labels and jumps.                                                         *)

(* A block keeps pointers to its labels.  A vector that grows may move its   *)
(* elements; then the pointers taken before lead to memory that was freed    *)
(* and nothing is known of what follows.                                     *)
Pnt(i, steps)  == [label |-> i, steps |-> steps]
NoLabel        == Pnt(NULL, 0)
Steps(r)       == (Len(r.labels_vect) + VECTOR_STEP_SIZE - 1) \div VECTOR_STEP_SIZE
LastLabel(r)   == Pnt(Len(r.labels_vect), Steps(r))
Dangling(r, p) == ReallocMoves /\ p.steps # Steps(r)

NewLabel(r, name, create) ==
  [r EXCEPT !.pe = "no_error",
            !.labels_vect = Append(@,
              [name      |-> name,
               code_offs |-> IF create THEN GetCodeOffset(r) ELSE -1,
               subs_body |-> FALSE,
               jmps      |-> <<>>,
               func_info |-> r.func_info])]

(* RegisterLabel(..., TRUE) of a label that is registered.                   *)
PlaceLabel(r, i) ==
  IF r.labels_vect[i].code_offs >= 0 \/ r.labels_vect[i].func_info # r.func_info
  THEN Error(r, "object_exist")
  ELSE [r EXCEPT !.pe = "no_error", !.labels_vect[i].code_offs = GetCodeOffset(r)]

RegisterLabel(r, name, create) ==
  LET i == Named(r.labels_vect, name)
  IN  IF i = NULL  THEN NewLabel(r, name, create)
      ELSE IF create THEN PlaceLabel(r, i)
      ELSE Error(r, "no_error")

(* What is done through the pointer p: all is lost if it leads nowhere.      *)
Through(r, p, done) == [done EXCEPT !.lost = @ \/ Dangling(r, p)]

(* Mutant: one jump too many.                                                *)
VmOp_JmpOneMore(r, i, use_condition) ==
  LET op == IF use_condition THEN "JMP_POP_CMPZ" ELSE "JMP"
  IN  IF Len(r.labels_vect[i].jmps) > LINKS_BY_LABEL_MAX
      THEN Error(Put(r, 1, op, FALSE, i, 0), "label_invalid")
      ELSE Error(code_op([r EXCEPT !.labels_vect[i].subs_body = r.subs_body,
                                   !.labels_vect[i].jmps = Append(@, GetCodeOffset(r) + 1)],
                         op, FALSE, i, 0), "no_error")

(* The operand is the label's number until it is linked.  Past the limit the *)
(* opcode is out and its operand is not.                                     *)
VmOp_Jmp(r, i, use_condition) ==
  LET op     == IF use_condition THEN "JMP_POP_CMPZ" ELSE "JMP"
      marked == [r EXCEPT !.labels_vect[i].subs_body = r.subs_body]
  IN  IF Len(r.labels_vect[i].jmps) >= LINKS_BY_LABEL_MAX
      THEN Error(Put(marked, 1, op, FALSE, i, 0), "label_invalid")
      ELSE Error(code_op([marked EXCEPT !.labels_vect[i].jmps = Append(@, GetCodeOffset(r) + 1)],
                         op, FALSE, i, 0), "no_error")

-----------------------------------------------------------------------------
(* Variables and their places.                                               *)

MemSize(type, array_size) ==
  CASE type = "vt_generic"          -> FptBytes
    [] type = "vt_array_of_generic" -> array_size * FptBytes + 1
    [] type = "vt_array_of_byte"    -> array_size + 1

IsArray(v) == v.type # "vt_generic"

(* VmOp_VarHeap(..., 1): a place on top of the others, and the instruction   *)
(* that makes it the program's.                                              *)
Allocate(r, i) ==
  LET v   == r.vars_vect[i]
      top == r.heap_pnt + v.mem_size
      op  == IF v.type = "vt_array_of_byte" THEN "INIT_bVAR" ELSE "INIT_gVAR"
  IN  code_op([r EXCEPT !.vars_vect[i].mem_offs = r.heap_pnt,
                        !.heap_pnt = top,
                        !.heap_memory_max = IF top > @ THEN top ELSE @],
              op, v.subs_body, r.heap_pnt, IF IsArray(v) THEN v.elm_count ELSE 0)

(* RegisterVar, declaring.  array_size is -1 for a variable without          *)
(* brackets and 0 when the size is to come from the right side.              *)
DeclareVar(r, name, type, array_size) ==
  LET elements == IF type = "vt_generic" THEN 1 ELSE array_size
      v == [name |-> name, type |-> type, elm_count |-> elements,
            mem_size |-> MemSize(type, array_size), mem_offs |-> 0,
            in_block |-> Len(r.block_vect), subs_body |-> r.subs_body]
      added == [r EXCEPT !.pe = "no_error", !.vars_vect = Append(@, v)]
  IN  IF Named(r.vars_vect, name) # NULL THEN Error(r, "object_exist")
      ELSE IF elements > 0 THEN Allocate(added, Len(added.vars_vect))
      ELSE added

FixArraySize(r, i, array_size) ==
  LET mem_size == MemSize(r.vars_vect[i].type, array_size)
  IN  IF mem_size > 255 THEN Error(r, "syntax_invalid")
      ELSE Allocate([r EXCEPT !.vars_vect[i].elm_count = array_size,
                              !.vars_vect[i].mem_size = mem_size], i)

(* Mutant: the variables of the block around go too.                         *)
UnregisterTwoBlocksVars(r) ==
  LET n     == Len(r.vars_vect)
      mine  == {i \in 1..n : r.vars_vect[i].in_block >= Len(r.block_vect) - 1}
  IN  [r EXCEPT !.pe = "no_error",
                !.heap_pnt = @ - MapThenSumSet(LAMBDA i : r.vars_vect[i].mem_size, mine),
                !.vars_vect = SubSeq(@, 1, n - Cardinality(mine))]

(* The variables of the innermost block are the last ones registered.  Each  *)
(* gives back its bytes, until there are none to give.                       *)
UnregisterLastBlockVars(r) ==
  LET n       == Len(r.vars_vect)
      mine(k) == \A i \in (n - k + 1)..n : r.vars_vect[i].in_block = Len(r.block_vect)
      left[k \in 0..n] == IF k = 0 THEN r.heap_pnt
                          ELSE left[k - 1] - r.vars_vect[n - k + 1].mem_size
      count   == Max({k \in 0..n : mine(k)})
      popped  == Max({k \in 0..count : \A j \in 1..k : left[j] >= 0})
  IN  IF popped = count
      THEN [r EXCEPT !.pe = "no_error", !.heap_pnt = left[count],
                     !.vars_vect = SubSeq(@, 1, n - count)]
      ELSE [r EXCEPT !.pe = "stack_corrupted", !.heap_pnt = left[popped + 1],
                     !.vars_vect = SubSeq(@, 1, n - popped)]

(* Store what is on the stack.                                               *)
VmOp_PopVar(r, i, is_object) ==
  LET v  == r.vars_vect[i]
      op == CASE v.type = "vt_generic"          -> "POP_VAR"
              [] v.type = "vt_array_of_byte"    -> IF is_object THEN "COPY_TO_bARRAY"
                                                   ELSE "POP_bARRAY_BY_IDX"
              [] v.type = "vt_array_of_generic" -> IF is_object THEN "COPY_TO_gARRAY"
                                                   ELSE "POP_gARRAY_BY_IDX"
  IN  code_op(r, op, v.subs_body, v.mem_offs, 0)

-----------------------------------------------------------------------------
(* Expressions, as far as the statements tell them apart.                    *)

(* What a statement takes (expr_flags): arrays written out, variables that   *)
(* are arrays, and values.                                                   *)
any_expr == {"value"}
any_array == {"inline_array", "var_array"}
ALL      == any_expr \cup any_array

ArrayType(e) == IF e = "bytes" THEN "vt_array_of_byte" ELSE "vt_array_of_generic"
IsArrayVar(r, e) == LET i == Named(r.vars_vect, e) IN i # NULL /\ IsArray(r.vars_vect[i])

(* Check_as_array: the expression is an array the statement takes.           *)
IsObject(r, e, expr_flags) ==
  \/ e \in Arrays /\ "inline_array" \in expr_flags
  \/ e \in VarNames /\ IsArrayVar(r, e) /\ "var_array" \in expr_flags

(* The pointer to an array: RegisterConstArray, or the variable's place.     *)
PushArray(r, e) ==
  IF e \in Arrays
  THEN code_op([r EXCEPT !.const_memory = @ + MemSize(ArrayType(e), ArrayLen)],
               "PUSH_OBJ_PNT", FALSE, r.const_memory,
               IF e = "bytes" THEN vvt_const_byte_array_pnt ELSE vvt_const_generic_array_pnt)
  ELSE LET v == r.vars_vect[Named(r.vars_vect, e)]
       IN  code_op(r, "PUSH_OBJ_PNT", v.subs_body, v.mem_offs,
                   IF v.type = "vt_array_of_byte" THEN vvt_var_byte_array_pnt
                   ELSE vvt_var_generic_array_pnt)

PushVar(r, x) ==
  LET i == Named(r.vars_vect, x)
      v == r.vars_vect[i]
  IN  IF i = NULL THEN Error(r, "object_unknown")
      ELSE IF IsArray(v) THEN Error(r, "expression_invalid")
      ELSE code_op(r, "PUSH_VAR", v.subs_body, v.mem_offs, 0)

(* An argument is not folded.                                                *)
Argument(r, e) == IF ~Ok(r) THEN r
                  ELSE IF e = "number" THEN VmOp_ArgNum(r) ELSE PushVar(r, e)

(* The arguments are pushed.                                                 *)
CallPrg(r, f, given) ==
  IF ~Ok(r) THEN r
  ELSE IF given # Len(r.funcs_vect[f].params) THEN Error(r, "parameters_mismatch")
  ELSE code_op(r, "CALL_PRG_FUNC", FALSE, r.funcs_vect[f].vm_code_offset, 0)

Pushed(r, args) ==
  LET after[n \in 0..Len(args)] == IF n = 0 THEN r ELSE Argument(after[n - 1], args[n])
  IN  after[Len(args)]

(* ParseFunc, for a routine: its arguments are counted while they are read.  *)
CallSub(r, name, args) ==
  LET f      == Named(r.funcs_vect, name)
      wanted == Len(r.funcs_vect[f].params)
      read   == IF Len(args) > wanted THEN SubSeq(args, 1, wanted) ELSE args
  IN  IF f = NULL THEN Error(r, "object_unknown")
      ELSE CallPrg(Pushed(r, read), f, Len(args))

(* A number is folded, and leaves its code to the statement.                 *)
Evaluate(r, e) ==
  CASE e = "number"    -> r
    [] e = "key"       -> code_op(code_op(r, "PUSH_NUM", FALSE, 0, 0),
                                  "CALL_INT_FUNC", FALSE, func_INKEY, 0)
    [] e \in VarNames  -> PushVar(r, e)
    [] e \in FuncNames -> CallSub(r, e, <<>>)
    [] e \in Arrays    -> Error(r, "expression_invalid")
Evaluated(r, e) == IF e = "number" THEN VmOp_ArgNum(r) ELSE Evaluate(r, e)

Popped(r, i, is_object) == IF Ok(r) THEN VmOp_PopVar(r, i, is_object) ELSE r

(* The right side of a declaration or an assignment to variable i.           *)
Assigned(r, i, e, auto_size, is_object, expr_flags) ==
  LET pushed == PushArray(r, e)
      v      == r.vars_vect[i]
      object == IsObject(r, e, expr_flags)
  IN  CASE object /\ auto_size ->
             IF v.type # ArrayType(e) THEN Error(pushed, "syntax_invalid")
             ELSE Popped(FixArraySize(pushed, i, ArrayLen), i, TRUE)
        [] object /\ ~auto_size ->
             IF is_object THEN VmOp_PopVar(pushed, i, TRUE)
             ELSE Error(pushed, "syntax_invalid")
        [] ~object /\ "value" \in expr_flags ->
             Popped(Evaluated(r, e), i, is_object)
        [] ~object /\ "value" \notin expr_flags -> Error(r, "expression_invalid")

-----------------------------------------------------------------------------
(* PRINT.                                                                    *)

print_ss_number  == 2
print_ss_pointer == 8

(* One part: pushed, and its type noted while there is room for it           *)
(* (definePartArgType).  The types are the nibbles of a number.              *)
Part(p, e) ==
  LET object == IsObject(p.r, e, ALL)
      type   == IF object THEN print_ss_pointer ELSE print_ss_number
      room   == p.params_cnt < FUNC_MAX_PARAMS
  IN  IF ~Ok(p.r) THEN p
      ELSE [r          |-> IF object THEN PushArray(p.r, e) ELSE Evaluated(p.r, e),
            params_cnt |-> IF room THEN p.params_cnt + 1 ELSE p.params_cnt,
            value      |-> IF room THEN 16 * p.value + type ELSE p.value]

Parts(p, parts) ==
  LET after[n \in 0..Len(parts)] == IF n = 0 THEN p ELSE Part(after[n - 1], parts[n])
  IN  after[Len(parts)]

(* VmOp_Spc_Cmds: the types go inline, as the three bytes of a pointer.      *)
VmOp_Spc_Cmds(p) ==
  IF ~Ok(p.r) THEN p.r
  ELSE code_op(code_op(p.r, "PUSH_OBJ_PNT", FALSE, p.value % 65536, p.value \div 65536),
               "CALL_INT_PROC", FALSE, cmd_id_PRINT, 0)

-----------------------------------------------------------------------------
(* Blocks.                                                                   *)

(* Block n gets a label: at its end, or here at its beginning.               *)
LabelBlock(r, n, begin) ==
  LET labelled == NewLabel(r, AutoName, begin)
  IN  IF begin THEN [labelled EXCEPT !.block_vect[n].label_begin = LastLabel(labelled)]
      ELSE [labelled EXCEPT !.block_vect[n].label_end = LastLabel(labelled)]

PlaceEnd(r, p)        == Through(r, p, PlaceLabel(r, p.label))
JmpTo(r, p, use_condition) == Through(r, p, VmOp_Jmp(r, p.label, use_condition))

open_block(r, type) ==
  LET opened == [r EXCEPT !.block_id = @ + 1,
                          !.block_vect = Append(@, [block_type |-> type, label_begin |-> NoLabel,
                                                    label_end |-> NoLabel])]
  IN  IF type \in {"bt_if", "bt_loop"} THEN LabelBlock(opened, Len(opened.block_vect), FALSE) ELSE opened

TestCondition(r) == Error(JmpTo(r, Block(r).label_end, TRUE), "no_error")

(* The brace after past_cmd; a condition that was not folded is tested.      *)
begin_block(r, past_cmd, early_opened, e) ==
  LET type   == CASE past_cmd = "IF"    -> "bt_if"
                  [] past_cmd = "ELSE"  -> "bt_else"
                  [] past_cmd = "WHILE" -> "bt_loop"
                  [] OTHER              -> "bt_none"
      opened == IF early_opened THEN r ELSE open_block(r, type)
  IN  IF past_cmd \in {"IF", "WHILE"} /\ e # "number" THEN TestCondition(opened) ELSE opened

(* The condition has been read.                                              *)
Conditioned(r, past_cmd, early_opened, e) ==
  IF Ok(r) THEN begin_block(r, past_cmd, early_opened, e) ELSE r

(* What precedes the first block in memory may be read as a block: with      *)
(* nothing allocated the read is of no memory at all.  `junk` says whether   *)
(* what is there looks like a condition.                                     *)
IF_command(r, junk) ==
  IF r.block_vect = <<>>
  THEN IF r.block_id = 0 THEN Error(r, "SIGSEGV")
       ELSE IF junk THEN r ELSE open_block(r, "bt_condition")
  ELSE IF Block(r).block_type = "bt_condition" THEN r ELSE open_block(r, "bt_condition")

IF_rest(r, e) ==
  IF ~Ok(r) THEN r
  ELSE IF e = "number" THEN Error(r, "syntax_invalid")
  ELSE Conditioned(Evaluate(r, e), "IF", FALSE, e)

(* The closing brace of a branch: with something behind it, a jump over the  *)
(* branches that follow; with nothing, the end of the condition.             *)
CloseBranch(r, behind) ==
  LET c     == Len(r.block_vect) - 1
      cond  == r.block_vect[c]
      ended == IF cond.label_end # NoLabel THEN r ELSE LabelBlock(r, c, FALSE)
  IN  IF c = 0 THEN Error(r, "SIGSEGV")
      ELSE IF behind THEN JmpTo(ended, ended.block_vect[c].label_end, FALSE)
      ELSE IF cond.block_type # "bt_condition" THEN Error(r, "syntax_invalid")
      ELSE IF cond.label_end # NoLabel THEN PlaceEnd(r, cond.label_end)
      ELSE r

(* Mutant: the routine's maximum is left to the main part.                   *)
EndSubContextKeepsMax(r) ==
  [r EXCEPT !.heap_memory_max_funcs = @ + r.heap_memory_max,
            !.heap_pnt = r.heap_pnt_back,
            !.subs_body = FALSE,
            !.func_info = NULL]

EndSubContext(r) ==
  [r EXCEPT !.heap_memory_max_funcs = @ + r.heap_memory_max,
            !.heap_memory_max = r.heap_memory_max_back,
            !.heap_pnt = r.heap_pnt_back,
            !.subs_body = FALSE,
            !.func_info = NULL]

Pop(r) == [r EXCEPT !.block_vect = Front(@)]

(* What follows the end labels: the block goes, its condition with it; at    *)
(* the top level a routine ends.                                             *)
DropBlock(r, double_pop) ==
  LET popped == Pop(r)
  IN  IF popped.block_vect # <<>> THEN IF double_pop THEN Pop(popped) ELSE popped
      ELSE IF double_pop THEN Error(popped, "syntax_invalid")
      ELSE IF r.func_info # NULL
           THEN EndSubContext(Error(code_op(popped, "RET", FALSE, 0, 0), "no_error"))
      ELSE popped

IsBranch(b) == b.block_type \in {"bt_if", "bt_else"}

(* The jump at the end of block b.                                           *)
LeaveBlock(r, b, behind) ==
  CASE b.block_type = "bt_loop" -> JmpTo(r, b.label_begin, FALSE)
    [] IsBranch(b)              -> CloseBranch(r, behind)
    [] OTHER                    -> r

LabelEnd(r, b) == IF b.label_end # NoLabel THEN PlaceEnd(r, b.label_end) ELSE r

(* Mutant: an ELSE ends the condition it belongs to.                         *)
EndBlockPopsCondition(r, b, behind) ==
  IF IsBranch(b) /\ r.pe \in {"SIGSEGV", "syntax_invalid"} THEN r
  ELSE DropBlock(LabelEnd(r, b), IsBranch(b))

EndBlock(r, b, behind) ==
  IF IsBranch(b) /\ r.pe \in {"SIGSEGV", "syntax_invalid"} THEN r
  ELSE DropBlock(LabelEnd(r, b), IsBranch(b) /\ ~behind)

(* Mutant: the loop ends before the jump back to its condition.              *)
BLOCK_ENDLabelFirst(r, behind) ==
  LET b == Block(r)
      unlabelled == IF IsBranch(b) THEN b ELSE [b EXCEPT !.label_end = NoLabel]
      freed == UnregisterLastBlockVars(r)
  IN  IF r.block_vect = <<>> THEN Error(r, "syntax_invalid")
      ELSE EndBlock(LeaveBlock(IF IsBranch(b) THEN freed ELSE LabelEnd(freed, b), b, behind),
                    unlabelled, behind)

BLOCK_END(r, behind) ==
  IF r.block_vect = <<>> THEN Error(r, "syntax_invalid")
  ELSE EndBlock(LeaveBlock(UnregisterLastBlockVars(r), Block(r), behind), Block(r), behind)

-----------------------------------------------------------------------------
(* Lines.  ParseLine stops at the first error.                               *)

Init ==
  /\ source = <<>>
  /\ result = [line_num |-> 0, pe |-> "no_error", lost |-> FALSE, block_id |-> 0,
               block_vect |-> <<>>, labels_vect |-> <<>>, vars_vect |-> <<>>,
               funcs_vect |-> <<>>, func_info |-> NULL, subs_body |-> FALSE,
               const_memory |-> 0, heap_pnt |-> 0, heap_pnt_back |-> 0,
               heap_memory_max |-> 0, heap_memory_max_back |-> 0, heap_memory_max_funcs |-> 0,
               obj |-> [area \in BOOLEAN |-> [size |-> 0, code |-> <<>>]]]

Counted == [result EXCEPT !.line_num = @ + 1, !.pe = "no_error"]
Line    == VmOp_DebugNewLine(Counted)

Plain == [kind |-> "", name |-> "", value |-> "none", behind |-> "nothing",
          params |-> <<>>, sizes |-> <<>>, auto_size |-> FALSE]

(* The line may follow those read, in a source of one family.                *)
Fits(l, f) ==
  /\ l.kind \in f.kinds
  /\ l.name \in f.names \cup {""}
  /\ {l.value} \cup Range(l.params) \subseteq f.values \cup f.names \cup {"none"}
OneFamily(line) ==
  \E f \in Families :
    Len(source) < f.lines /\ Fits(line, f) /\ \A k \in DOMAIN source : Fits(source[k], f)

(* The next line is this one, and it leaves r.                               *)
Reads(line, r) ==
  /\ Ok(result)
  /\ OneFamily(line)
  /\ source' = Append(source, line)
  /\ result' = r

(* A label alone on its line: what RegisterLabel answers is dropped.         *)
Label(name) == Reads([Plain EXCEPT !.kind = "Label", !.name = name],
                     Error(RegisterLabel(Counted, name, TRUE), "no_error"))

(* The bytes a declaration speaks of; without a size, those of the array on  *)
(* the right side.                                                           *)
Bytes(d) == MemSize(d.type, IF d.array_size = 0 THEN ArrayLen ELSE d.array_size)

WithValue(r, e, auto_size, is_object, expr_flags) ==
  IF ~Ok(r) \/ e = "none" THEN r
  ELSE Assigned(r, Len(r.vars_vect), e, auto_size, is_object, expr_flags)

Declare(name, d, e) ==
  LET auto     == d.array_size = 0
      flags    == {"inline_array"} \cup (IF d.type = "vt_array_of_byte" THEN {} ELSE any_expr)
      object   == auto \/ (d.array_size < 0 /\ d.type = "vt_array_of_byte")
  IN  Reads([Plain EXCEPT !.kind = "Declare", !.name = name, !.value = e,
                          !.sizes = <<Bytes(d)>>, !.auto_size = auto],
        IF auto /\ e = "none" THEN Error(Line, "array_index_invalid")
        ELSE WithValue(DeclareVar(Line, name, d.type, d.array_size), e, auto, object, flags))

Assign(name, e) ==
  LET i      == Named(result.vars_vect, name)
      object == IsArray(result.vars_vect[i])
  IN  Reads([Plain EXCEPT !.kind = "Assign", !.name = name, !.value = e],
        IF i = NULL THEN Error(Line, "object_unknown")
        ELSE Assigned(Line, i, e, FALSE, object, IF object THEN any_array ELSE any_expr))

If(e, junk) == Reads([Plain EXCEPT !.kind = "If", !.value = e], IF_rest(IF_command(Line, junk), e))

(* The loop begins after the line's DBG.  A loop on a number has no test.    *)
While(e) ==
  LET opened == open_block(Line, "bt_loop")
      begun  == LabelBlock(opened, Len(opened.block_vect), TRUE)
  IN  Reads([Plain EXCEPT !.kind = "While", !.value = e],
            Conditioned(Evaluate(begun, e), "WHILE", TRUE, e))

Open == Reads([Plain EXCEPT !.kind = "Open"], begin_block(Line, "NOP", FALSE, "number"))

(* A closing brace, with what follows on its line: an ELSE with its brace,   *)
(* an ELSE IF, or something else (a comment, or an ELSE whose brace is on    *)
(* the next line), which is read and dropped.                                *)
BehindBrace(r, behind, e, junk) ==
  CASE Ok(r) /\ behind = "else"    -> begin_block(r, "ELSE", FALSE, "number")
    [] Ok(r) /\ behind = "else_if" -> IF_rest(IF_command(r, junk), e)
    [] OTHER                       -> r

Close(behind, e, junk) ==
  Reads([Plain EXCEPT !.kind = "Close", !.behind = behind, !.value = e],
        BehindBrace(BLOCK_END(Line, behind # "nothing"), behind, e, junk))

Break ==
  LET loops == {i \in DOMAIN result.block_vect : result.block_vect[i].block_type = "bt_loop"}
  IN  Reads([Plain EXCEPT !.kind = "Break"],
            IF loops = {} THEN Line
            ELSE JmpTo(Line, Line.block_vect[Max(loops)].label_end, FALSE))

Goto(name) ==
  LET known == RegisterLabel(Line, name, FALSE)
  IN  Reads([Plain EXCEPT !.kind = "Goto", !.name = name],
            VmOp_Jmp(known, Named(known.labels_vect, name), FALSE))

(* Mutant: the routine's address is taken while the main part is written.    *)
BeginSubEarly(r, name) ==
  IF Named(r.funcs_vect, name) # NULL THEN Error(r, "object_exist")
  ELSE [r EXCEPT !.pe = "no_error",
                 !.funcs_vect = Append(@, [name |-> name, params |-> <<>>,
                                           vm_code_offset |-> GetCodeOffset(r)]),
                 !.func_info = Len(r.funcs_vect) + 1,
                 !.heap_memory_max_back = r.heap_memory_max, !.heap_memory_max = 0,
                 !.heap_pnt_back = r.heap_pnt, !.heap_pnt = 0,
                 !.subs_body = TRUE]

(* RegisterSub, creating: what the main part has on the heap is set aside.   *)
BeginSub(r, name) ==
  IF Named(r.funcs_vect, name) # NULL THEN Error(r, "object_exist")
  ELSE [r EXCEPT !.pe = "no_error",
                 !.funcs_vect = Append(@, [name |-> name, params |-> <<>>,
                                           vm_code_offset |-> r.obj[TRUE].size]),
                 !.func_info = Len(r.funcs_vect) + 1,
                 !.heap_memory_max_back = r.heap_memory_max, !.heap_memory_max = 0,
                 !.heap_pnt_back = r.heap_pnt, !.heap_pnt = 0,
                 !.subs_body = TRUE]

ParamsOf(r) == r.funcs_vect[r.func_info].params

(* The variable registered last is a parameter.                              *)
AsParam(r) ==
  LET added == [r EXCEPT !.funcs_vect[r.func_info].params = Append(@, Len(r.vars_vect))]
  IN  IF ~Ok(r) THEN r
      ELSE IF Len(ParamsOf(r)) + 1 >= FUNC_MAX_PARAMS THEN Error(added, "object_max_number_exceeded")
      ELSE added
Param(r, name) == IF Ok(r) THEN AsParam(DeclareVar(r, name, "vt_generic", -1)) ELSE r

Params(r, names) ==
  LET after[n \in 0..Len(names)] == IF n = 0 THEN r ELSE Param(after[n - 1], names[n])
  IN  after[Len(names)]

(* The values of the parameters are taken off the stack, the last one first. *)
Taken(r, params) ==
  LET after[n \in 0..Len(params)] ==
        IF n = 0 THEN r ELSE VmOp_PopVar(after[n - 1], params[Len(params) + 1 - n], FALSE)
  IN  after[Len(params)]

BeginBody(r, outside) ==
  LET taken == Taken(r, ParamsOf(r))
  IN  IF Ok(r) THEN begin_block(taken, "PROC", outside, "number") ELSE r

(* FUNC: inside a routine, the name is read as one more parameter of that    *)
(* routine.  Left out: a second FUNC of a routine when the block of one of   *)
(* its parameters is closed, whose variable is then a stale one.             *)
Func(name, params) ==
  LET outside  == result.func_info = NULL
      named    == IF outside THEN BeginSub(open_block(Line, "bt_proc"), name) ELSE Param(Line, name)
      declared == Params(named, params)
  IN  /\ Ok(declared) => Range(ParamsOf(declared)) \subseteq DOMAIN declared.vars_vect
      /\ Reads([Plain EXCEPT !.kind = "Func", !.name = name, !.params = params,
                            !.sizes = [i \in DOMAIN params |-> FptBytes]],
               BeginBody(declared, outside))

(* The value is pushed before the statement is found to be in no routine.    *)
Returned(r) ==
  IF ~Ok(r) THEN r
  ELSE IF r.func_info = NULL THEN Error(r, "syntax_invalid")
  ELSE code_op(r, "RETVAL", FALSE, 0, 0)
Return(e) ==
  Reads([Plain EXCEPT !.kind = "Return", !.value = e],
        Returned(IF result.func_info = NULL THEN Evaluate(Line, e) ELSE Evaluated(Line, e)))

(* A call as a statement; its result is dropped.                             *)
DropResult(r) == IF Ok(r) THEN code_op(r, "POP_TO_NOWHERE", FALSE, 0, 0) ELSE r
Call(name, args) ==
  Reads([Plain EXCEPT !.kind = "Call", !.name = name, !.params = args],
        DropResult(CallSub(Line, name, args)))

PRINT(parts) ==
  Reads([Plain EXCEPT !.kind = "Print", !.params = parts],
        VmOp_Spc_Cmds(Parts([r |-> Line, params_cnt |-> 0, value |-> 0], parts)))

Brkpnt == Reads([Plain EXCEPT !.kind = "Brkpnt"], VmOp_BreakPoint(Line))

Stop == Reads([Plain EXCEPT !.kind = "Stop"], Error(Line, "stop"))

-----------------------------------------------------------------------------
Behinds    == {"nothing", "else", "else_if", "other"}
ParamLists == {<<>>} \cup {<<x>> : x \in VarNames}
ArgLists   == {<<>>, <<"number">>} \cup {<<x>> : x \in VarNames \cap Expressions}
PrintLists == UNION {[1..n -> Expressions] : n \in PrintCounts}
Conditions == Expressions \ Arrays

Statement ==
  \/ \E name \in LabelNames : Label(name) \/ Goto(name)
  \/ \E name \in VarNames, d \in Declarations, e \in Expressions \cup {"none"} : Declare(name, d, e)
  \/ \E name \in VarNames, e \in Expressions : Assign(name, e)
  \/ \E e \in Conditions, junk \in BOOLEAN : If(e, junk) \/ Close("else_if", e, junk)
  \/ \E e \in Conditions : While(e) \/ Return(e)
  \/ \E behind \in Behinds \ {"else_if"} : Close(behind, "none", FALSE)
  \/ \E name \in FuncNames, params \in ParamLists : Func(name, params)
  \/ \E name \in FuncNames, args \in ArgLists : Call(name, args)
  \/ \E parts \in PrintLists : PRINT(parts)
  \/ Open \/ Break \/ Brkpnt \/ Stop
=============================================================================
