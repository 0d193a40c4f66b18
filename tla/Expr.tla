-------------------------------- MODULE Expr --------------------------------
(***************************************************************************)
(* The expression compiler: compiler/parse_exp.c, with what it calls to    *)
(* read a variable (ParseVar), a call (vm_funcs.c) and to write the code.  *)
(*                                                                         *)
(* A line is a sequence of tokens [t, v]: a number (or a character, or a   *)
(* declared constant), a variable with what is registered of it, a         *)
(* function with the bracket that follows it, or a symbol; binary          *)
(* operators bear the names of their instructions.  A parser state p is    *)
(* the line that is left, the code written so far, parse_result_t's switch *)
(* enable_code_gen, the error, and the expr_info_t of the moment.          *)
(***************************************************************************)
EXTENDS VmCmd, SequencesExt

CONSTANT
  UnsetTypes   (* What the type of a fresh expr_info_t may read as: the     *)
               (* local variable is not initialised.                        *)

ASSUME ExprAssumption == UnsetTypes \subseteq {"none", "number"}

Num(value) == [t |-> "num", v |-> value]
Var(var)   == [t |-> "var", v |-> var]
Fun(fun)   == [t |-> "fun", v |-> fun]
Sym(sym)   == [t |-> "sym", v |-> sym]

Binary == {"MUL", "DIV", "PLUS", "MINUS", "LE", "GE", "LT", "GT", "EQ", "NE", "AND", "OR"}

-----------------------------------------------------------------------------
(* Reading the line, writing code.                                          *)

Ok(p)        == p.pe = "no_error"
Error(p, pe) == [p EXCEPT !.pe = pe]

EndOfLine == Sym("end of line")
CurSym(p) == IF p.line = <<>> THEN EndOfLine ELSE Head(p.line)
At(p, sym) == CurSym(p) = Sym(sym)
SkipSym(p) == [p EXCEPT !.line = Tail(@)]

code_op(p, op, mod, arg, byte) ==
  IF ~p.enable_code_gen THEN p
  ELSE [p EXCEPT !.code = Append(@, [op |-> op, mod |-> mod, arg |-> arg, byte |-> byte])]

VmOp_ArgNum(p, value) == code_op(p, "PUSH_NUM", FALSE, value, 0)

Is(p, type, value) == [p EXCEPT !.expr = [type |-> type, value |-> value]]

(* A number: its instruction is written unless the value is asked for.      *)
Number(p, value) ==
  LET read == Is(SkipSym(p), "number", value)
  IN  IF p.calc_comptime THEN read ELSE VmOp_ArgNum(read, value)

-----------------------------------------------------------------------------
(* Variables and elements of arrays.                                        *)

IsArray(var)   == var.type \in {"vt_array_of_char", "vt_array_of_byte", "vt_array_of_generic"}
IsPointer(var) == var.type \in {"vt_generic_obj_pointer", "vt_byte_obj_pointer"}
PntTag(var)    == CASE var.type = "vt_array_of_char"    -> vvt_var_char_array_pnt
                    [] var.type = "vt_array_of_byte"    -> vvt_var_byte_array_pnt
                    [] var.type = "vt_array_of_generic" -> vvt_var_generic_array_pnt

(* VmOp_ArgVar.  idx is array_compile_time_idx: -1 when there is no index,  *)
(* or none that is known.  An index that is known is compared with the size *)
(* of an array; a variable that is no array ignores it, and a pointer is     *)
(* pushed wherever a number would be.                                        *)
VmOp_ArgVar(p, var, idx, is_object) ==
  LET cell == IF var.type = "vt_array_of_generic" THEN FptBytes ELSE 1
      Push(op, offs, byte) == code_op(p, op, var.subs_body, offs, byte)
  IN  CASE IsPointer(var)           -> Push("PUSH_PNT", var.mem_offs, 0)
        [] var.type = "vt_generic"  -> Push("PUSH_VAR", var.mem_offs, 0)
        [] IsArray(var) /\ is_object -> Push("PUSH_OBJ_PNT", var.mem_offs, PntTag(var))
        [] IsArray(var) /\ ~is_object /\ idx < 0 ->
             Push(IF cell = 1 THEN "PUSH_bARRAY_BY_IDX" ELSE "PUSH_gARRAY_BY_IDX", var.mem_offs, 0)
        [] IsArray(var) /\ ~is_object /\ idx >= 0 ->
             IF idx >= var.elm_count THEN Error(p, "array_index_overrange")
             ELSE Push(IF cell = 1 THEN "PUSH_BYTE" ELSE "PUSH_VAR",
                       var.mem_offs + idx * cell + 1, 0)

-----------------------------------------------------------------------------
(* Constant folding.                                                        *)

Truth(b) == IF b THEN 1 ELSE 0
fpt_mul(a, b) == (a * b) \div FptOne
AbsVal(n) == IF n < 0 THEN -n ELSE n
(* C divides towards zero.                                                  *)
fpt_div(a, b) ==
  LET quotient == (AbsVal(a) * FptOne) \div AbsVal(b)
  IN  IF (a < 0) = (b < 0) THEN quotient ELSE -quotient

Fold(op, l, r) ==
  CASE op = "MUL"   -> fpt_mul(l, r)
    [] op = "DIV"   -> fpt_div(l, r)
    [] op = "PLUS"  -> l + r
    [] op = "MINUS" -> l - r
    [] op = "LE"    -> Truth(l <= r)
    [] op = "GE"    -> Truth(l >= r)
    [] op = "LT"    -> Truth(l < r)
    [] op = "GT"    -> Truth(l > r)
    [] op = "EQ"    -> Truth(l = r)
    [] op = "NE"    -> Truth(l # r)
    [] op = "AND"   -> Truth(l # 0 /\ r # 0)
    [] op = "OR"    -> Truth(l # 0 \/ r # 0)
    [] op = "NOT"   -> Truth(r = 0)
    [] op = "INV"   -> fpt_mul(r, -FptOne)

(* VmOp_Math: the right part must have been something.                      *)
VmOp_Math(p, op) ==
  IF p.expr.type = "none" THEN Error(p, "expression_invalid")
  ELSE code_op(p, op, FALSE, 0, 0)

(* Mutant: what an instruction computes still counts as the number that the   *)
(* left part was.                                                            *)
CombineKeepsType(p, op, l, r) ==
  IF l.type = "number" /\ r.type = "number" /\ ~(op = "DIV" /\ r.value = 0)
  THEN Is(p, "number", Fold(op, l.value, r.value))
  ELSE IF p.calc_comptime THEN Error(p, "error_eval_exp")
  ELSE [VmOp_Math(p, op) EXCEPT !.expr = l]

(* What follows the right part r of an operator with the left part l: the    *)
(* value, when both are numbers, and otherwise the instruction.  Dividing by *)
(* a constant zero ends the compiler itself.                                 *)
Combine(p, op, l, r) ==
  CASE op = "DIV" /\ l.type = "number" /\ r.type = "number" /\ r.value = 0 -> Error(p, "SIGFPE")
    [] l.type = "number" /\ r.type = "number" /\ ~(op = "DIV" /\ r.value = 0) ->
         Is(p, "number", Fold(op, l.value, r.value))
    [] ~(l.type = "number" /\ r.type = "number") /\ p.calc_comptime -> Error(p, "error_eval_exp")
    [] OTHER -> [VmOp_Math(p, op) EXCEPT !.expr = [l EXCEPT !.type = "var_last"]]

-----------------------------------------------------------------------------
(* The parser.  register_expr reads the right part of the operator op (or,   *)
(* with none, a whole expression), combines it with the left part p.expr and *)
(* goes on with the next operator: operators apply strictly from left to     *)
(* right, and a sign to the next part.  But the part a sign begins goes on   *)
(* too: as a right part, or behind another sign, it takes all that its       *)
(* bracket still has.                                                        *)

RECURSIVE register_expr(_, _), expPartParse(_), ParseFunc(_, _), parse_func_params(_, _)

NoOp == "none"

expLevel_last(p) ==
  IF CurSym(p).t = "sym" /\ CurSym(p).v \in Binary THEN register_expr(SkipSym(p), CurSym(p).v)
  ELSE p

GoOn(p) == IF Ok(p) THEN expLevel_last(p) ELSE p

(* The right part has been read.                                             *)
AfterPart(l, op, part) ==
  CASE ~Ok(part)              -> part
    [] Ok(part) /\ op = NoOp  -> GoOn(part)
    [] Ok(part) /\ op # NoOp  -> GoOn(Combine(part, op, l, part.expr))

register_expr(p, op) ==
  IF p.calc_comptime /\ op # NoOp /\ p.expr.type # "number" THEN Error(p, "error_eval_exp")
  ELSE AfterPart(p.expr, op, expPartParse(Is(p, p.unset, 0)))

(* ExpParse, ExpParseCompileTime: an expression of its own, inside the state *)
(* of the one around it.                                                     *)
Within(p, q) == [q EXCEPT !.calc_comptime = p.calc_comptime, !.expr = p.expr,
                          !.enable_code_gen = p.enable_code_gen]

ExpParse(p) ==
  register_expr([Is(p, "none", 0) EXCEPT !.calc_comptime = FALSE], NoOp)

(* Only a number is known.                                                   *)
AsKnown(p, enable_code_gen) ==
  IF Ok(p) /\ p.expr.type # "number"
  THEN [Error(p, "error_eval_exp") EXCEPT !.enable_code_gen = enable_code_gen]
  ELSE [p EXCEPT !.enable_code_gen = enable_code_gen]

ExpParseCompileTime(p) ==
  AsKnown(register_expr([Is(p, "none", 0) EXCEPT !.calc_comptime = TRUE,
                                                 !.enable_code_gen = FALSE], NoOp),
          p.enable_code_gen)

(* An element of an array, behind its index.                                 *)
Element(p, var, index, idx) ==
  CASE ~Ok(index)                      -> index
    [] Ok(index) /\ ~At(index, "]")    -> Error(index, "syntax_invalid")
    [] Ok(index) /\ At(index, "]")     -> VmOp_ArgVar(Within(p, SkipSym(index)), var, idx, FALSE)

(* An index that is not known yet is compiled.                               *)
ElementAt(p, var, line, known) ==
  IF known.pe = "error_eval_exp" THEN Element(p, var, ExpParse(line), -1)
  ELSE Element(p, var, known, known.expr.value \div FptOne)

(* ParseVar and VmOp_ArgVar.                                                 *)
ParseVar(p, as_pointer) ==
  LET var   == CurSym(p).v
      named == SkipSym(p)
      line  == SkipSym(named)
  IN  CASE At(named, "[") -> ElementAt(p, var, line, ExpParseCompileTime(line))
        [] ~At(named, "[") /\ IsArray(var) /\ ~as_pointer -> Error(named, "expression_invalid")
        [] OTHER -> VmOp_ArgVar(named, var, -1, IsArray(var))

(* A pointer parameter takes any variable.                                   *)
Param(p, type) ==
  CASE type = "ft_generic" -> Within(p, ExpParse(p))
    [] type = "ft_pointer" -> IF CurSym(p).t = "var" THEN ParseVar(p, TRUE)
                              ELSE Error(p, "object_unknown")

NextParam(p, params) == IF Ok(p) THEN parse_func_params(p, params) ELSE p

parse_func_params(p, params) ==
  CASE CurSym(p) = EndOfLine -> Error(p, "syntax_invalid")
    [] At(p, ",") -> parse_func_params(SkipSym(p), params)
    [] At(p, ")") -> IF params # <<>> THEN Error(p, "parameters_mismatch") ELSE SkipSym(p)
    [] OTHER -> IF params = <<>> THEN Error(p, "parameters_mismatch")
                ELSE NextParam(Param(p, Head(params)), Tail(params))

(* The arguments are pushed: the call, whose result a statement drops.       *)
Called(args, fun, need_return) ==
  LET call == code_op(args, fun.op, FALSE, fun.arg, 0)
  IN  CASE ~Ok(args) -> args
        [] Ok(args) /\ ~need_return /\ fun.with_return -> code_op(call, "POP_TO_NOWHERE", FALSE, 0, 0)
        [] OTHER -> call

ParseFunc(p, need_return) ==
  LET fun == CurSym(p).v
  IN  IF need_return /\ ~fun.with_return THEN Error(p, "parameters_mismatch")
      ELSE Called(parse_func_params(SkipSym(p), fun.params), fun, need_return)

(* A bracket that is not closed is taken as if it were.                      *)
Closed(p)  == IF At(p, ")") THEN SkipSym(p) ELSE p
Bracket(p) == Closed(register_expr(SkipSym(p), NoOp))

(* One part: a number, a variable, a call, a bracket, or one of those with a *)
(* sign.  Where a closing bracket stands there is no part, and that is no    *)
(* error.                                                                    *)
expPartParse(p) ==
  LET sym == CurSym(p)
  IN  CASE At(p, ")")     -> p
        [] At(p, "MINUS") -> register_expr(SkipSym(p), "INV")
        [] At(p, "NOT")   -> register_expr(SkipSym(p), "NOT")
        [] At(p, "(")     -> Bracket(Is(p, "expression", 0))
        [] sym.t = "num"  -> Number(p, sym.v)
        [] sym.t = "var"  -> IF p.calc_comptime THEN Error(p, "error_eval_exp")
                             ELSE ParseVar(Is(p, "variable", 0), FALSE)
        [] sym.t = "fun"  -> ParseFunc(Is(p, "function", 0), TRUE)
        [] OTHER          -> Error(p, "expression_invalid")

-----------------------------------------------------------------------------
(* The expression of a statement (VAR, an assignment, RETURN, PRINT): its    *)
(* value, if it can be known, and its code otherwise.                        *)

Parse0(line, unset) == [line |-> line, code |-> <<>>, enable_code_gen |-> TRUE, unset |-> unset,
                        calc_comptime |-> FALSE, pe |-> "no_error", expr |-> [type |-> "none", value |-> 0]]

(* Mutant: the value is written after the code instead of in its place.       *)
ValueAndCode(known, coded) ==
  IF Ok(known) THEN VmOp_ArgNum(coded, known.expr.value) ELSE coded

ValueOrCode(known, coded) ==
  IF Ok(known) THEN VmOp_ArgNum(known, known.expr.value) ELSE coded

Statement_expr(p) == ValueOrCode(ExpParseCompileTime(p), ExpParse(p))
=============================================================================
