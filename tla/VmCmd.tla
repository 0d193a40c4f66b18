-------------------------------- MODULE VmCmd --------------------------------
(***************************************************************************)
(* What the compiler and the machine share: the instruction set            *)
(* (shared/vm_cmd_list.h), the widths of numbers and addresses             *)
(* (shared/vm_config.h), the pointer type tags and the table of built-in   *)
(* functions (shared/parser_func_tokens.h).                                *)
(***************************************************************************)
EXTENDS Integers, Sequences

FptBytes  == 4      \* BITS_TO_BYTES(FPT_BITS): a number
FptWBytes == 3      \* BITS_TO_BYTES(FPT_WBITS): its integer part
FptOne    == 256    \* i2fpt(1): numbers are 24.8 fixed point
Byte      == 0..255
Word      == 0..65535

-----------------------------------------------------------------------------
(* The instructions, by the operands that follow the opcode byte.          *)

PlainOps == {"none", "END", "MUL", "DIV", "PLUS", "MINUS", "LE", "GE", "LT", "GT",
             "AND", "OR", "NOT", "INV", "EQ", "NE", "POP_TO_NOWHERE", "RETVAL", "RET"}
IdOps    == {"CALL_INT_PROC", "CALL_INT_FUNC", "CALL_LIB_FUNC"}
WordOps  == {"DBG", "BREAK", "JMP", "JMP_POP_CMPZ", "CALL_PRG_FUNC",
             "PUSH_BYTE", "PUSH_VAR", "PUSH_PNT", "PUSH_bARRAY_BY_IDX",
             "PUSH_gARRAY_BY_IDX", "POP_BYTE", "POP_VAR", "POP_PNT",
             "POP_bARRAY_BY_IDX", "POP_gARRAY_BY_IDX", "COPY_TO_bARRAY", "COPY_TO_gARRAY"}
WordByteOps == {"INIT_bVAR", "INIT_gVAR", "PUSH_OBJ_PNT", "LOAD_BYTE"}
Op == PlainOps \cup IdOps \cup WordOps \cup WordByteOps \cup {"PUSH_NUM"}

CmdSize(op) == CASE op \in PlainOps    -> 1
                 [] op \in IdOps       -> 2
                 [] op \in WordOps     -> 3
                 [] op \in WordByteOps -> 4
                 [] OTHER              -> 5

(* An instruction in memory: its operation, whether VM_CMD_MOD is set (the  *)
(* operand address is relative to vars_base), its address, id or number,    *)
(* and the byte some operations carry after it.                             *)
Instr == [op: Op, mod: BOOLEAN, arg: Int, byte: Byte]

-----------------------------------------------------------------------------
(* vm_var_type_t: the tag in the high nibble of a pointer's first byte.     *)

vvt_inline                  == 0
vvt_var_generic_array_pnt   == 16
vvt_var_byte_array_pnt      == 32
vvt_var_char_array_pnt      == 48
vvt_const_generic_array_pnt == 64
vvt_const_byte_array_pnt    == 80
vvt_const_string_pnt        == 96

ConstPntTypes   == {vvt_const_generic_array_pnt, vvt_const_byte_array_pnt, vvt_const_string_pnt}
VarPntTypes     == {vvt_var_generic_array_pnt, vvt_var_byte_array_pnt, vvt_var_char_array_pnt}
GenericPntTypes == {vvt_var_generic_array_pnt, vvt_const_generic_array_pnt}

-----------------------------------------------------------------------------
(* The built-in functions: their ids, and table_fun's parameter lists.      *)

cmd_id_PRINT    == 1
cmd_id_PRINT_LN == 2

func_PUTC     == 1
func_PUTS     == 2
func_PUTN     == 3
func_PUTI     == 4
func_SLEEP_MS == 5
func_BEEP     == 6
func_OUT      == 7
func_CLS      == 8
func_CURS     == 9
func_IN       == 128
func_RAND     == 129
func_INKEY    == 130
func_SIZE     == 131
func_SCR_W    == 132
func_SCR_H    == 133
func_SCR_SYM  == 134

(* FUNC_WITH_RETURN_FL: the functions whose result goes on the stack.       *)
WithReturn(id) == id \div 128 = 1

(* The parameters the compiler pushes before a call, first to last.         *)
BuiltinParams(id) ==
  CASE id \in {func_PUTC, func_PUTN, func_PUTI, func_SLEEP_MS, func_CURS,
               func_IN, func_RAND, func_INKEY}    -> <<"ft_generic">>
    [] id \in {func_BEEP, func_OUT, func_SCR_SYM} -> <<"ft_generic", "ft_generic">>
    [] id \in {func_PUTS, func_SIZE}              -> <<"ft_pointer">>
    [] OTHER                                      -> <<>>
==============================================================================
