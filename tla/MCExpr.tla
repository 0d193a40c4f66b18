------------------------------- MODULE MCExpr -------------------------------
(***************************************************************************)
(* Expressions through the expression compiler and then on the machine.    *)
(* Each program sets the variables, evaluates one expression as a          *)
(* statement or as an argument, and shows it with PUTN.                    *)
(***************************************************************************)
EXTENDS VmExe, VmPrograms, Expr

VarAt(type, offs, elements) ==
  Var([type |-> type, mem_offs |-> offs, elm_count |-> elements, subs_body |-> FALSE])
VarA == VarAt("vt_generic", 0, 1)
VarB == VarAt("vt_generic", 4, 1)
ArrQ == VarAt("vt_array_of_byte", 8, 3)
FunF == Fun([params |-> <<"ft_generic", "ft_generic">>, op |-> "CALL_PRG_FUNC", arg |-> 0,
          with_return |-> TRUE])
Builtin(id) == Fun([params |-> BuiltinParams(id), op |-> "CALL_INT_FUNC", arg |-> id,
                    with_return |-> WithReturn(id)])

-----------------------------------------------------------------------------
(* Expressions.  Most are built so that reading from left to right is the   *)
(* only way to read them: a right part, or what a sign applies to, is in    *)
(* brackets when it is not one token.  A right part that begins with a sign *)
(* may go without (Bare).  Of each is kept its line, its value on the       *)
(* machine, whether the compiler knows the value, and whether the compiler  *)
(* computes part of it, which in running code it does too late.             *)

Leaf(line, value, const) ==
  [line |-> line, value |-> value, const |-> const, folds |-> FALSE, atom |-> TRUE]
InBrackets(line) == <<Sym("(")>> \o line \o <<Sym(")")>>
Inside(x) == IF x.atom THEN x.line ELSE InBrackets(x.line)

BinaryOf(op, x, y) ==
  [line  |-> x.line \o <<Sym(op)>> \o Inside(y), value |-> MathValue(op, x.value, y.value),
   const |-> x.const /\ y.const, folds |-> x.folds \/ y.folds \/ (x.const /\ y.const),
   atom  |-> FALSE]
Defined(op, x, y) == op = "DIV" => y.value # 0

(* A sign is not folded, unless the unset type happens to be a number's.    *)
UnaryOf(op, x, unset) ==
  LET folded == x.const /\ unset = "number"
  IN  [line  |-> <<Sym(IF op = "INV" THEN "MINUS" ELSE "NOT")>> \o Inside(x),
       value |-> IF op = "INV" THEN -x.value ELSE Truth(x.value = 0),
       const |-> folded, folds |-> x.folds \/ folded, atom |-> FALSE]

(* The same without the brackets around the last part s, which begins with a *)
(* sign: the sign applies to the next token only, but behind an operator, or *)
(* another sign, the part it begins takes all that its bracket still has.    *)
BareBinary(op, x, s) == [BinaryOf(op, x, s) EXCEPT !.line = x.line \o <<Sym(op)>> \o s.line]
BareUnary(op, s, unset) ==
  LET bracketed == UnaryOf(op, s, unset)
  IN  [bracketed EXCEPT !.line = <<Head(bracketed.line)>> \o s.line]

(* x in brackets, which may go on behind them.                               *)
Bracketed(x) == [x EXCEPT !.line = InBrackets(x.line), !.atom = TRUE]

CallOf(x, y) ==
  [line |-> <<FunF>> \o x.line \o <<Sym(",")>> \o y.line \o <<Sym(")")>>,
   value |-> x.value - y.value, const |-> FALSE, folds |-> x.folds \/ y.folds, atom |-> TRUE]

(* q = {7, 8, 9}, with an index the compiler knows or does not.              *)
ElementOf(x) ==
  [line |-> <<ArrQ, Sym("[")>> \o x.line \o <<Sym("]")>>, value |-> FptOne * (7 + fpt2i(x.value)),
   const |-> FALSE, folds |-> ~x.const /\ x.folds, atom |-> TRUE]
IsIndex(x) == fpt2i(x.value) \in 0..2

-----------------------------------------------------------------------------
AValue == 2 * FptOne
BValue == -5 * FptOne

A2 == Leaf(<<VarA>>, AValue, FALSE)
B5 == Leaf(<<VarB>>, BValue, FALSE)
Half == Leaf(<<Num(FptOne \div 2)>>, FptOne \div 2, TRUE)
Two  == Leaf(<<Num(2 * FptOne)>>, 2 * FptOne, TRUE)
Screen == Leaf(<<Builtin(func_SCR_W), Sym(")")>>, 24 * FptOne, FALSE)

Leaves == {A2, B5, Half, Two, Screen, ElementOf(A2), ElementOf(Two)}
Few    == {A2, Two}

Binaries(ops, X, Y) == {BinaryOf(o[1], o[2], o[3]) : o \in {t \in ops \X X \X Y : Defined(t[1], t[2], t[3])}}
Unaries(X, unset)   == {UnaryOf(op, x, unset) : op \in {"NOT", "INV"}, x \in X}

Depth1(unset) == Binaries(Binary, Leaves, Leaves) \cup Unaries(Leaves, unset)
SomeOps == {"MINUS", "DIV", "LE"}
Level1(unset) == Binaries(SomeOps, Few, Few) \cup Unaries(Few, unset)
Depth2(unset) ==
  LET X == Level1(unset)
  IN  Binaries({"MINUS"}, X, X) \cup Binaries(SomeOps, X, Few) \cup Binaries(SomeOps, Few, X)
      \cup Unaries(X, unset) \cup {CallOf(x, y) : x \in X, y \in Few} \cup {CallOf(A2, y) : y \in X}
      \cup {ElementOf(x) : x \in {y \in X : IsIndex(y)}}

(* Brackets on either side of an operator that goes on behind them, and      *)
(* signs in the middle of an expression.                                     *)
GoesOn(unset) ==
  LET X == Level1(unset)
  IN  Binaries(SomeOps, {Bracketed(x) : x \in X}, Few)
      \cup Binaries(SomeOps, Binaries({"MINUS"}, Few, X), Few)
Bare(unset) ==
  LET signed == Unaries(Few, unset)
      goesOn == signed \cup Binaries(SomeOps, signed, Few)
  IN  {BareBinary(o[1], o[2], o[3]) :
         o \in {t \in SomeOps \X Few \X goesOn : Defined(t[1], t[2], t[3])}}
      \cup {BareUnary(op, s, unset) : op \in {"NOT", "INV"}, s \in goesOn}
WellFormed(unset) ==
  Leaves \cup Depth1(unset) \cup Depth2(unset) \cup GoesOn(unset) \cup Bare(unset)

-----------------------------------------------------------------------------
(* Any short line, and what is known to go wrong with some: an empty         *)
(* bracket is no error, nor is an index behind what is no array; two         *)
(* constants may be folded too late, and a signed one may be taken for an    *)
(* index below zero.                                                         *)

Tokens   == {VarA, ArrQ, FunF, Num(FptOne), Sym("MINUS"), Sym("("), Sym(")"), Sym("["), Sym("]")}
LineLen  == 4
AnyLines == UNION {[1..n -> Tokens] : n \in 1..LineLen}

Behind(line, i) == IF i = 1 THEN EndOfLine ELSE line[i - 1]
Careful(line) ==
  /\ \A i \in DOMAIN line :
       /\ line[i] = Sym(")") => Behind(line, i) \in {VarA, Num(FptOne), Sym(")"), Sym("]")}
       /\ line[i] = Sym("[") => Behind(line, i) = ArrQ
       /\ line[i] = Sym("MINUS") => Behind(line, i) # Sym("[")
  /\ Cardinality({i \in DOMAIN line : line[i].t = "num"}) <= 1

-----------------------------------------------------------------------------
(* Every built-in function, called with what it is documented to take; but   *)
(* CURS, whose second parameter the compiler refuses.                        *)

Builtins == (func_PUTC..func_CURS) \cup (func_IN..func_SCR_SYM)
Argument(type) == IF type = "ft_pointer" THEN <<ArrQ>> ELSE <<VarA>>
CallOfBuiltin(id) ==
  LET params == BuiltinParams(id)
  IN  <<Builtin(id)>> \o FlattenSeq([i \in DOMAIN params |->
                            IF i = 1 THEN Argument(params[i]) ELSE <<Sym(",")>> \o Argument(params[i])])
      \o <<Sym(")")>>

-----------------------------------------------------------------------------
(* var a=2   var b=0-5   byte q[]={7,8,9}   var c                            *)
(* func f(var x,var y){ return(x-y) }                                        *)
Sub == <<RB("INIT_gVAR", 0, 0), RB("INIT_gVAR", 4, 0), R("POP_VAR", 4), R("POP_VAR", 0),
         D(6), R("PUSH_VAR", 0), R("PUSH_VAR", 4), O("MINUS"), O("RETVAL"), O("RET")>>
Setup == <<D(1), AB("INIT_gVAR", 0, 0), A("PUSH_NUM", AValue), A("POP_VAR", 0),
           AB("INIT_gVAR", 4, 0), A("PUSH_NUM", BValue), A("POP_VAR", 4),
           AB("PUSH_OBJ_PNT", 0, vvt_const_byte_array_pnt), AB("INIT_bVAR", 8, 3),
           A("COPY_TO_bARRAY", 8), AB("INIT_gVAR", 12, 0), D(7)>>

(* c=<expression>  putn(c), or putn(<expression>), or a call.                *)
Parsed(ctx, line, unset) ==
  CASE ctx = "statement" -> Statement_expr(Parse0(line, unset))
    [] ctx = "argument"  -> ParseFunc(Parse0(<<Builtin(func_PUTN)>> \o line \o <<Sym(")")>>, unset), FALSE)
    [] ctx = "call"      -> ParseFunc(Parse0(line, unset), FALSE)
Rest(ctx) ==
  IF ctx = "statement"
  THEN <<A("POP_VAR", 12), D(8), A("PUSH_VAR", 12), A("CALL_INT_FUNC", func_PUTN), O("END")>>
  ELSE <<O("END")>>

Program(ctx, parsed, shows, folds) ==
  [pe |-> parsed.pe, shows |-> shows, folds |-> folds] @@
  Image(Sub, Setup \o (IF Ok(parsed) THEN parsed.code ELSE <<>>) \o Rest(ctx), 50, <<3, 7, 8, 9>>)

(* A statement's expression is computed when compiling, if it can be: then   *)
(* folding is in time.                                                       *)
Unknown == <<>>
ProgramsOf(unset) ==
  {Program(ctx, Parsed(ctx, x.line, unset), <<x.value>>,
           x.folds /\ ~(ctx = "statement" /\ x.const)) :
     ctx \in {"statement", "argument"}, x \in WellFormed(unset)}
ProgramsOfAny(unset) ==
  {p \in {Program("statement", Parsed("statement", l, unset), Unknown, FALSE) :
            l \in {any \in AnyLines : Careful(any)}} : p.pe = "no_error"}

ProgramsOfBuiltins(unset) ==
  {Program("call", Parsed("call", CallOfBuiltin(id), unset), Unknown, FALSE) :
     id \in Builtins \ {func_CURS}}
  \cup {Program("statement",
                Parsed("statement", <<VarA, Sym("MINUS")>> \o CallOfBuiltin(id), unset),
                Unknown, FALSE) : id \in {f \in Builtins : WithReturn(f)}}

MCUnset    == {"none", "number"}
MCPrograms == UNION {ProgramsOf(u) \cup ProgramsOfBuiltins(u) \cup ProgramsOfAny(u) : u \in MCUnset}
MCJunk     == {255}
MCKeys     == {65}
MCScreen   == {24}

(* Nobody watches and nobody steps.                                          *)
Quiet == ~print_stat /\ (by_step => ip = prog.entry)

-----------------------------------------------------------------------------
ShowsValue == prog.pe = "no_error" /\ (ret = "ec_end" => out = <<Show("PUTN", <<prog.shows>>)>>)

(* Whatever is folded, known or left to the machine, a well-formed           *)
(* expression is accepted and shows its value, unless a part of it is folded *)
(* after the code of that part is out (parse_exp.c:36-101).                  *)
ExpressionsRight == prog.shows # Unknown /\ ~prog.folds => ShowsValue

(* The code of an accepted line leaves one number on the stack for its       *)
(* statement, whether the line is an expression or merely begins with one,   *)
(* and a function takes off the stack what the compiler had pushed for it:   *)
(* the program gets to its end, and the stack is empty there.                *)
AcceptedBalances ==
  ~running /\ ~prog.folds => prog.pe = "no_error" /\ ret = "ec_end" /\ sp = StackSize - 1

(* The numbers and the operators README.md lists: PUTN prints the number     *)
(* that is its parameter.                                                    *)
PutnPrintsParameter == prog.shows # Unknown => ShowsValue
=============================================================================
