----------------------------- MODULE VmPrograms -----------------------------
(***************************************************************************)
(* Programs for the machine, as the compiler writes them: each is the      *)
(* listing of the .sb file it made of the source in the comment, with what *)
(* the program should show.  The routines come first, the main part after  *)
(* them; the operand of a jump counts from the next instruction.           *)
(***************************************************************************)
EXTENDS VmCmd, SequencesExt

(* Instructions without operands, with one, with one relative to vars_base, *)
(* and the last two with the byte that follows.                             *)
O(op)        == [op |-> op, mod |-> FALSE, arg |-> 0, byte |-> 0]
A(op, a)     == [op |-> op, mod |-> FALSE, arg |-> a, byte |-> 0]
R(op, a)     == [op |-> op, mod |-> TRUE, arg |-> a, byte |-> 0]
AB(op, a, b) == [op |-> op, mod |-> FALSE, arg |-> a, byte |-> b]
RB(op, a, b) == [op |-> op, mod |-> TRUE, arg |-> a, byte |-> b]
N(n)         == A("PUSH_NUM", n * FptOne)
D(line)      == A("DBG", line)

(* The image of a program: where each instruction lies, and the header.     *)
Placed(img, instr) == [code |-> (img.size :> instr) @@ img.code,
                       size |-> img.size + CmdSize(instr.op)]
Placed0   == [code |-> <<>>, size |-> 0]
Image(subs, main, heap, const) ==
  LET routines == FoldLeft(Placed, Placed0, subs)
      all      == FoldLeft(Placed, routines, main)
  IN  [code  |-> all.code,
       entry |-> routines.size,
       size  |-> all.size,
       heap_min_size |-> heap,
       const |-> [a \in 0..(Len(const) - 1) |-> const[a + 1]]]

Show(fn, args) == [fn |-> fn, args |-> args]

-----------------------------------------------------------------------------
(* func pow(var base, var deg){                                            *)
(*   if deg > 0 { return(base * pow(base,deg-1)) } else { return(1) }      *)
(* }                                                                       *)
PowSub ==
  <<RB("INIT_gVAR", 0, 0), RB("INIT_gVAR", 4, 0), R("POP_VAR", 4), R("POP_VAR", 0),
    D(2), R("PUSH_VAR", 4), N(0), O("GT"), A("JMP_POP_CMPZ", 29),
    D(3), R("PUSH_VAR", 0), R("PUSH_VAR", 0), R("PUSH_VAR", 4), N(1), O("MINUS"),
    A("CALL_PRG_FUNC", 0), O("MUL"), O("RETVAL"), D(4), A("JMP", 12),
    D(5), N(1), O("RETVAL"), D(6), D(7), O("RET")>>

(* print(pow(-2,2))                                                        *)
Pow == Image(PowSub,
  <<D(1), D(8), N(2), O("INV"), N(2), A("CALL_PRG_FUNC", 0), AB("PUSH_OBJ_PNT", 2, 0),
    A("CALL_INT_PROC", cmd_id_PRINT), O("END")>>, 8, <<>>)
PowShows == <<Show("PRINT", <<<<4 * FptOne>>>>)>>

(* func pow0(var base, var deg){                                           *)
(*   var ret=1                                                             *)
(*   while deg > 0 { ret= ret *base  deg=deg-1 }                           *)
(*   return(ret)                                                           *)
(* }                                                                       *)
(* print_ln(pow0(2,2))                                                     *)
Loop == Image(
  <<RB("INIT_gVAR", 0, 0), RB("INIT_gVAR", 4, 0), R("POP_VAR", 4), R("POP_VAR", 0),
    D(2), RB("INIT_gVAR", 8, 0), N(1), R("POP_VAR", 8),
    D(3), R("PUSH_VAR", 4), N(0), O("GT"), A("JMP_POP_CMPZ", 34),
    D(4), R("PUSH_VAR", 8), R("PUSH_VAR", 0), O("MUL"), R("POP_VAR", 8),
    D(5), R("PUSH_VAR", 4), N(1), O("MINUS"), R("POP_VAR", 4), D(6), A("JMP", -46),
    D(7), R("PUSH_VAR", 8), O("RETVAL"), D(8), O("RET")>>,
  <<D(1), D(9), N(2), N(2), A("CALL_PRG_FUNC", 0), AB("PUSH_OBJ_PNT", 2, 0),
    A("CALL_INT_PROC", cmd_id_PRINT_LN), O("END")>>, 12, <<>>)
LoopShows == <<Show("PRINT_LN", <<<<4 * FptOne>>>>)>>

(* const cnt_text "Hi"                                                     *)
(* func size0(var pnt[]){ brkpnt  return(size(pnt)) }                      *)
(* char text0[]="abc"                                                      *)
(* print(cnt_text,size0(text0),text0)                                      *)
Text == Image(
  <<RB("INIT_bVAR", 0, 2), R("POP_PNT", 0), D(3), A("BREAK", 3), D(4), R("PUSH_PNT", 0),
    A("CALL_INT_FUNC", func_SIZE), O("RETVAL"), D(5), O("RET")>>,
  <<D(1), D(2), D(6), AB("PUSH_OBJ_PNT", 3, vvt_const_string_pnt), AB("INIT_bVAR", 0, 3),
    A("COPY_TO_bARRAY", 0), D(7), AB("PUSH_OBJ_PNT", 0, vvt_const_string_pnt),
    AB("PUSH_OBJ_PNT", 0, vvt_var_char_array_pnt), A("CALL_PRG_FUNC", 0),
    AB("PUSH_OBJ_PNT", 0, vvt_var_char_array_pnt), AB("PUSH_OBJ_PNT", 2088, vvt_inline),
    A("CALL_INT_PROC", cmd_id_PRINT), O("END")>>,
  7, <<2, 72, 105, 3, 97, 98, 99>>)
TextShows == <<Show("PRINT", <<<<72, 105>>, <<3 * FptOne>>, <<97, 98, 99>>>>)>>

(* func func1(var tnum) { print(tnum) }                                    *)
(* func func2(var tnum,var val1) { func1(tnum) print(val1) }               *)
(* var x=3                                                                 *)
(* func2(x,x+1)                                                            *)
(* print(x)                                                                *)
Nest == Image(
  <<RB("INIT_gVAR", 0, 0), R("POP_VAR", 0), D(2), R("PUSH_VAR", 0),
    AB("PUSH_OBJ_PNT", 2, 0), A("CALL_INT_PROC", cmd_id_PRINT), D(3), O("RET"),
    RB("INIT_gVAR", 0, 0), RB("INIT_gVAR", 4, 0), R("POP_VAR", 4), R("POP_VAR", 0),
    D(5), R("PUSH_VAR", 0), A("CALL_PRG_FUNC", 0), O("POP_TO_NOWHERE"),
    D(6), R("PUSH_VAR", 4), AB("PUSH_OBJ_PNT", 2, 0), A("CALL_INT_PROC", cmd_id_PRINT),
    D(7), O("RET")>>,
  <<D(1), D(4), D(8), AB("INIT_gVAR", 0, 0), N(3), A("POP_VAR", 0),
    D(9), A("PUSH_VAR", 0), A("PUSH_VAR", 0), N(1), O("PLUS"), A("CALL_PRG_FUNC", 23),
    O("POP_TO_NOWHERE"), D(10), A("PUSH_VAR", 0), AB("PUSH_OBJ_PNT", 2, 0),
    A("CALL_INT_PROC", cmd_id_PRINT), O("END")>>, 16, <<>>)
NestShows == <<Show("PRINT", <<<<3 * FptOne>>>>), Show("PRINT", <<<<4 * FptOne>>>>),
               Show("PRINT", <<<<3 * FptOne>>>>)>>

-----------------------------------------------------------------------------
(* var a[2]                                                                *)
(* var b[]={1.5,-2}                                                        *)
(* byte c[2]                                                               *)
(* a=b   c=b   c[0]=100                                                    *)
(* print(a,c)   puts(c)                                                    *)
(* var x=c[1]   putn(x)                                                    *)
Arrays == Image(<<>>,
  <<D(1), AB("INIT_gVAR", 0, 2), D(2), AB("PUSH_OBJ_PNT", 0, vvt_const_generic_array_pnt),
    AB("INIT_gVAR", 9, 2), A("COPY_TO_gARRAY", 9), D(3), AB("INIT_bVAR", 18, 2),
    D(4), AB("PUSH_OBJ_PNT", 9, vvt_var_generic_array_pnt), A("COPY_TO_gARRAY", 0),
    D(5), AB("PUSH_OBJ_PNT", 9, vvt_var_generic_array_pnt), A("COPY_TO_bARRAY", 18),
    D(6), N(100), A("POP_BYTE", 19),
    D(7), AB("PUSH_OBJ_PNT", 0, vvt_var_generic_array_pnt),
    AB("PUSH_OBJ_PNT", 18, vvt_var_byte_array_pnt), AB("PUSH_OBJ_PNT", 136, vvt_inline),
    A("CALL_INT_PROC", cmd_id_PRINT),
    D(8), AB("PUSH_OBJ_PNT", 18, vvt_var_byte_array_pnt), A("CALL_INT_FUNC", func_PUTS),
    D(9), AB("INIT_gVAR", 21, 0), A("PUSH_BYTE", 20), A("POP_VAR", 21),
    D(10), A("PUSH_VAR", 21), A("CALL_INT_FUNC", func_PUTN), O("END")>>,
  25, <<2, 128, 1, 0, 0, 0, 254, 255, 255>>)
ArraysShows == <<Show("PRINT", <<<<384, -512>>, <<100, 254>>>>), Show("PUTS", <<<<100, 254>>>>),
                 Show("PUTN", <<<<254 * FptOne>>>>)>>

(* var i=0                                                                 *)
(* while i < 9 { if i == 2 { break } else { i=i+1 } }                      *)
(* if !(i >= 2) && i != 1 || i <= 0 { putc(1) }                            *)
(* goto done                                                               *)
(* putc(2)                                                                 *)
(* done:                                                                   *)
(* putc(i)                                                                 *)
Control == Image(<<>>,
  <<D(1), AB("INIT_gVAR", 0, 0), N(0), A("POP_VAR", 0),
    D(2), A("PUSH_VAR", 0), N(9), O("LT"), A("JMP_POP_CMPZ", 51),
    D(3), A("PUSH_VAR", 0), N(2), O("EQ"), A("JMP_POP_CMPZ", 12), D(4), A("JMP", 30),
    D(5), A("JMP", 18), D(6), A("PUSH_VAR", 0), N(1), O("PLUS"), A("POP_VAR", 0),
    D(7), D(8), A("JMP", -63),
    D(9), A("PUSH_VAR", 0), N(2), O("GE"), O("NOT"), A("PUSH_VAR", 0), O("AND"),
    N(1), O("NE"), A("PUSH_VAR", 0), O("OR"), N(0), O("LE"), A("JMP_POP_CMPZ", 13),
    D(10), N(1), A("CALL_INT_FUNC", func_PUTC),
    D(11), D(12), A("JMP", 10), D(13), N(2), A("CALL_INT_FUNC", func_PUTC),
    D(15), A("PUSH_VAR", 0), A("CALL_INT_FUNC", func_PUTC), O("END")>>, 4, <<>>)
ControlShows == <<Show("PUTC", <<<<2>>>>)>>

(* func f(var n){                                                          *)
(*   if n > 0 { var t=n  putn(t)  putn(f(n-1)) }                           *)
(*   return(n)                                                             *)
(* }                                                                       *)
(* var y=f(2)                                                              *)
(* while y > 0 { var z[3]  y=y-1 }                                         *)
(* var q=9                                                                 *)
(* putn(q)                                                                 *)
Blocks == Image(
  <<RB("INIT_gVAR", 0, 0), R("POP_VAR", 0), D(2), R("PUSH_VAR", 0), N(0), O("GT"),
    A("JMP_POP_CMPZ", 41), D(3), RB("INIT_gVAR", 4, 0), R("PUSH_VAR", 0), R("POP_VAR", 4),
    D(4), R("PUSH_VAR", 4), A("CALL_INT_FUNC", func_PUTN),
    D(5), R("PUSH_VAR", 0), N(1), O("MINUS"), A("CALL_PRG_FUNC", 0),
    A("CALL_INT_FUNC", func_PUTN), D(6), D(7), R("PUSH_VAR", 0), O("RETVAL"), D(8), O("RET")>>,
  <<D(1), D(9), AB("INIT_gVAR", 0, 0), N(2), A("CALL_PRG_FUNC", 0), A("POP_VAR", 0),
    D(10), A("PUSH_VAR", 0), N(0), O("GT"), A("JMP_POP_CMPZ", 28),
    D(11), AB("INIT_gVAR", 4, 3), D(12), A("PUSH_VAR", 0), N(1), O("MINUS"), A("POP_VAR", 0),
    D(13), A("JMP", -40), D(14), AB("INIT_gVAR", 4, 0), N(9), A("POP_VAR", 4),
    D(15), A("PUSH_VAR", 4), A("CALL_INT_FUNC", func_PUTN), O("END")>>, 25, <<>>)
BlocksShows == <<Show("PUTN", <<<<2 * FptOne>>>>), Show("PUTN", <<<<FptOne>>>>),
                 Show("PUTN", <<<<0>>>>), Show("PUTN", <<<<FptOne>>>>),
                 Show("PUTN", <<<<9 * FptOne>>>>)>>

-----------------------------------------------------------------------------
(* func f(var n){ return(f(n+1)) }                                         *)
(* print(f(0))                                                             *)
Runaway == Image(
  <<RB("INIT_gVAR", 0, 0), R("POP_VAR", 0), D(2), R("PUSH_VAR", 0), N(1), O("PLUS"),
    A("CALL_PRG_FUNC", 0), O("RETVAL"), D(3), O("RET")>>,
  <<D(1), D(4), N(0), A("CALL_PRG_FUNC", 0), AB("PUSH_OBJ_PNT", 2, 0),
    A("CALL_INT_PROC", cmd_id_PRINT), O("END")>>, 4, <<>>)

(* var h=scr_h()   cls()   out(3,4)   beep(1,2)   putc(in(7))             *)
(* putn(rand(2))   putc(inkey(0))   sleep_ms(1)   putc(scr_sym(1,2))       *)
Devices == Image(<<>>,
  <<D(1), AB("INIT_gVAR", 0, 0), A("CALL_INT_FUNC", func_SCR_H), A("POP_VAR", 0),
    D(2), A("CALL_INT_FUNC", func_CLS),
    D(3), N(3), N(4), A("CALL_INT_FUNC", func_OUT),
    D(4), N(1), N(2), A("CALL_INT_FUNC", func_BEEP),
    D(5), N(7), A("CALL_INT_FUNC", func_IN), A("CALL_INT_FUNC", func_PUTC),
    D(6), N(2), A("CALL_INT_FUNC", func_RAND), A("CALL_INT_FUNC", func_PUTN),
    D(7), N(0), A("CALL_INT_FUNC", func_INKEY), A("CALL_INT_FUNC", func_PUTC),
    D(8), N(1), A("CALL_INT_FUNC", func_SLEEP_MS),
    D(9), N(1), N(2), A("CALL_INT_FUNC", func_SCR_SYM), A("CALL_INT_FUNC", func_PUTC),
    O("END")>>, 4, <<>>)

(* var x=0   putn(1)   putn(1/x)                                           *)
Divides == Image(<<>>,
  <<D(1), AB("INIT_gVAR", 0, 0), N(0), A("POP_VAR", 0), D(2), N(1), A("CALL_INT_FUNC", func_PUTN),
    D(3), N(1), A("PUSH_VAR", 0), O("DIV"), A("CALL_INT_FUNC", func_PUTN), O("END")>>, 4, <<>>)

(* byte b[2]   var i=1   b[i]=7   putn(b[i])                               *)
Indexed == Image(<<>>,
  <<D(1), AB("INIT_bVAR", 0, 2), D(2), AB("INIT_gVAR", 3, 0), N(1), A("POP_VAR", 3),
    D(3), A("PUSH_VAR", 3), N(7), A("POP_bARRAY_BY_IDX", 0),
    D(4), A("PUSH_VAR", 3), A("PUSH_bARRAY_BY_IDX", 0), A("CALL_INT_FUNC", func_PUTN),
    O("END")>>, 7, <<>>)
IndexedShows == <<Show("PUTN", <<<<7 * FptOne>>>>)>>

(* func f(var p[]){ puts(p) }                                              *)
(* char c[]="a"   var x=c[0]   c[0]=x   var a[1]   a=c   f(c)              *)
Moves == Image(
  <<RB("INIT_bVAR", 0, 2), R("POP_PNT", 0), D(2), R("PUSH_PNT", 0),
    A("CALL_INT_FUNC", func_PUTS), D(3), O("RET")>>,
  <<D(1), D(4), AB("PUSH_OBJ_PNT", 0, vvt_const_string_pnt), AB("INIT_bVAR", 0, 1),
    A("COPY_TO_bARRAY", 0), D(5), AB("INIT_gVAR", 2, 0), A("PUSH_BYTE", 1), A("POP_VAR", 2),
    D(6), A("PUSH_VAR", 2), A("POP_BYTE", 1), D(7), AB("INIT_gVAR", 6, 1),
    D(8), AB("PUSH_OBJ_PNT", 0, vvt_var_char_array_pnt), A("COPY_TO_gARRAY", 6),
    D(9), AB("PUSH_OBJ_PNT", 0, vvt_var_char_array_pnt), A("CALL_PRG_FUNC", 0),
    O("POP_TO_NOWHERE"), O("END")>>, 14, <<1, 97>>)
MovesShows == <<Show("PUTS", <<<<97>>>>)>>

(* var a[2]   var i=1   putn(a[i]): the compiler takes it.                 *)
GenIndexed == Image(<<>>,
  <<D(1), AB("INIT_gVAR", 0, 2), D(2), AB("INIT_gVAR", 9, 0), N(1), A("POP_VAR", 9),
    D(3), A("PUSH_VAR", 9), A("PUSH_gARRAY_BY_IDX", 0), A("CALL_INT_FUNC", func_PUTN),
    O("END")>>, 13, <<>>)

-----------------------------------------------------------------------------
(* curs(1): the one parameter the compiler takes.                          *)
Cursor == Image(<<>>, <<D(1), N(1), A("CALL_INT_FUNC", func_CURS), O("END")>>, 0, <<>>)

(* byte c[]={1,2}   var a[]={-1,-1}   a=c   print(a)                       *)
Assign == Image(<<>>,
  <<D(1), AB("PUSH_OBJ_PNT", 0, vvt_const_byte_array_pnt), AB("INIT_bVAR", 0, 2),
    A("COPY_TO_bARRAY", 0), D(2), AB("PUSH_OBJ_PNT", 3, vvt_const_generic_array_pnt),
    AB("INIT_gVAR", 3, 2), A("COPY_TO_gARRAY", 3),
    D(3), AB("PUSH_OBJ_PNT", 0, vvt_var_byte_array_pnt), A("COPY_TO_gARRAY", 3),
    D(4), AB("PUSH_OBJ_PNT", 3, vvt_var_generic_array_pnt), AB("PUSH_OBJ_PNT", 8, vvt_inline),
    A("CALL_INT_PROC", cmd_id_PRINT), O("END")>>,
  12, <<2, 1, 2, 2, 0, 255, 255, 255, 0, 255, 255, 255>>)
=============================================================================
