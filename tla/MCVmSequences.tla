--------------------------- MODULE MCVmSequences ---------------------------
(***************************************************************************)
(* Every program of a small shape on a stack of a few numbers: the main    *)
(* part pushes a number and calls a routine of three instructions, any two *)
(* and a return.  Most are programs the compiler would not write: this is  *)
(* what the machine does when a program is wrong.                          *)
(***************************************************************************)
EXTENDS VmCalls, VmPrograms

Alphabet ==
  {RB("INIT_gVAR", 0, 0), RB("INIT_bVAR", 0, 2), AB("INIT_gVAR", 0, 1), RB("LOAD_BYTE", 0, 2),
   R("POP_VAR", 0), A("POP_VAR", 0), A("POP_BYTE", 2), R("POP_PNT", 0),
   R("POP_bARRAY_BY_IDX", 0), O("POP_TO_NOWHERE"),
   N(1), R("PUSH_VAR", 0), R("PUSH_BYTE", 0), R("PUSH_PNT", 0), AB("PUSH_OBJ_PNT", 2, vvt_inline),
   R("PUSH_bARRAY_BY_IDX", 0), R("COPY_TO_bARRAY", 0), R("COPY_TO_gARRAY", 0),
   O("PLUS"), O("DIV"), O("NOT"),
   A("JMP", -3), A("JMP", 1), A("JMP_POP_CMPZ", -4), A("CALL_PRG_FUNC", 0), O("RET"), O("RETVAL"),
   A("CALL_INT_FUNC", func_SCR_SYM), A("CALL_INT_FUNC", 10), A("CALL_LIB_FUNC", 200),
   A("CALL_INT_PROC", cmd_id_PRINT), A("PUSH_gARRAY_BY_IDX", 0),
   D(1), A("BREAK", 2), O("none"), O("END")}

MCPrograms ==
  {Image(<<a, b, c>>, <<N(1), A("CALL_PRG_FUNC", 0), O("POP_TO_NOWHERE")>>, 1, <<>>) :
     a \in Alphabet, b \in Alphabet, c \in {O("RET"), O("RETVAL")}}
MCJunk   == {0, 255}
MCKeys   == {65}
MCScreen == {24}

(* A wrong program may print for ever, or drop its variables at every call   *)
(* and so recurse for ever.                                                  *)
MaxOut   == 2
MaxCalls == 4
Bounded  == Len(out) <= MaxOut /\ recurs_cnt <= MaxCalls
=============================================================================
