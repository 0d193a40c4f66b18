-------------------------------- MODULE VmExe --------------------------------
(***************************************************************************)
(* The virtual machine of vm/vm_exe.c: Run and the handlers of its         *)
(* instructions.  One array of bytes, mem_heap, holds the variables, which *)
(* grow up from 0 to hp, and the operand stack, which grows down from its  *)
(* top to sp; a call keeps the caller's return address and variable base   *)
(* among the variables.  Each instruction is one action: decode, handler,  *)
(* and the checks at the end of the cycle.                                 *)
(*                                                                         *)
(* A program is a record: code maps the offset of each instruction to it,  *)
(* the other fields are the header and the constant block of the .sb file. *)
(*                                                                         *)
(* Where C leaves the outcome open: bytes never written, and bytes read    *)
(* outside the array, hold junk; an execution that fetches an instruction  *)
(* from the middle of another or that writes outside the array stops here  *)
(* with a "wild" result, since nothing is known of what the process does   *)
(* next.                                                                   *)
(***************************************************************************)
EXTENDS VmCmd, FiniteSets

CONSTANTS
  Programs,      (* The programs to run.                                    *)
  StackSizeMin,  (* STACK_SIZE_MIN: 200 in the source.                      *)
  Junk,          (* The bytes uninitialised memory may hold.                *)
  KeyCodes,      (* What getch() may return to INKEY.                       *)
  ScreenValues   (* What the size and the contents of the screen may be.    *)

(* An operand is an address, a number or the id of a function.              *)
IsProgram(p) ==
  /\ DOMAIN p.code \subseteq Word /\ p.code \in [DOMAIN p.code -> Instr]
  /\ p.size \in Word /\ p.entry \in Word /\ p.heap_min_size \in Word
  /\ p.const \in [DOMAIN p.const -> Byte]

ASSUME VmAssumption ==
  /\ \A p \in Programs : IsProgram(p)
  /\ StackSizeMin \in Nat \ {0, 1}
  /\ Junk \subseteq Byte
  /\ KeyCodes \subseteq Int
  /\ ScreenValues \subseteq Int

VARIABLES
  prog,        \* the program that runs
  print_stat,  \* the -s switch of the command line
  junk,        \* the byte that uninitialised memory holds
  mem,         \* mem_heap
  sp, hp, ip, vars_base, recurs_cnt,
  by_step,     \* before the next instruction the machine waits for a key
  line_num,    \* the source line of the last DBG or BREAK
  out,         \* what the program did to the screen and the ports, in order
  running,     \* Run's loop goes on
  ret          \* the result of Run

vars == <<prog, print_stat, junk, mem, sp, hp, ip, vars_base, recurs_cnt,
          by_step, line_num, out, running, ret>>

ErrCodes == {"ec_ok", "ec_end", "ec_exit", "ec_inval_code", "ec_call_unknown_func",
             "ec_stack_corrupted", "ec_div_except"}
Wild     == {"wild_fetch", "wild_write"}

Code      == prog.code
StackSize == IF 2 * prog.heap_min_size < StackSizeMin
             THEN StackSizeMin ELSE 2 * prog.heap_min_size

(* Mutant: mem_heap without its pads.                                       *)
MemAddrUnpadded == 0 .. (StackSize - 1)

(* heap has a pad of two numbers before mem_heap and one past stack_size.   *)
MemAddr == (-2 * FptBytes) .. (StackSize + FptBytes - 1)

-----------------------------------------------------------------------------
(* Bytes, addresses and numbers in memory.                                 *)

Get(m, a)     == IF a \in DOMAIN m THEN m[a] ELSE junk
Read(m, a, n) == [i \in 1..n |-> Get(m, a + i - 1)]

(* A write may reach outside the array: then the domain shows it.           *)
Write(m, a, bs) ==
  LET cells == a .. (a + Len(bs) - 1)
  IN  [x \in DOMAIN m \cup cells |-> IF x \in cells THEN bs[x - a + 1] ELSE m[x]]

Weight      == <<1, 256, 65536, 16777216>>
(* Mutant: the bytes of a number are not masked.                            *)
NumBytesUnmasked(v) == [i \in 1..FptBytes |-> v \div Weight[i]]
NumBytes(v) == [i \in 1..FptBytes |-> (v \div Weight[i]) % 256]
BytesNum(b) == b[1] + 256 * b[2] + 65536 * b[3]
                    + 16777216 * (IF b[4] < 128 THEN b[4] ELSE b[4] - 256)
AddrBytes(a) == <<a % 256, (a \div 256) % 256>>
BytesAddr(b) == b[1] + 256 * b[2]

(* Numbers lie low byte first in a variable and high byte first, from sp+1  *)
(* up, on the stack; so do addresses, which the stack keeps low byte first. *)
Flip(b) == [i \in 1..FptBytes |-> b[FptBytes + 1 - i]]

PushNum(m, s, v) == Write(m, s - FptBytes + 1, Flip(NumBytes(v)))
PushVar(m, s, a) == Write(m, s - FptBytes + 1, Flip(Read(m, a, FptBytes)))
StackTop(m, s)   == BytesNum(Flip(Read(m, s + 1, FptBytes)))
PopVarTo(m, s, a) == Write(m, a, Flip(Read(m, s + 1, FptBytes)))

(* The byte of a number on the stack that holds an array index or a byte.   *)
StackByte(m, s)  == Get(m, s + FptWBytes)
i2fpt(n) == n * FptOne
fpt2i(v) == v \div FptOne

-----------------------------------------------------------------------------
(* The cycle around every instruction.                                     *)

I       == Code[ip]
(* Mutant: VM_CMD_MOD is ignored.                                           *)
VarOffsAbsolute == I.arg
VarOffs == IF I.mod THEN I.arg + vars_base ELSE I.arg    \* read_var_offset

(* The program counter is inside the program, at an instruction.  While     *)
(* by_step is set the machine first asks for a key: 's' keeps it set.       *)
Decode(ops) ==
  /\ running
  /\ ip < prog.size
  /\ ip \in DOMAIN Code
  /\ I.op \in ops
  /\ by_step' \in IF I.op = "BREAK" THEN {TRUE} ELSE IF by_step THEN BOOLEAN ELSE {FALSE}
  /\ UNCHANGED <<prog, print_stat, junk>>

(* Mutant: the check of the stack forgets the heap.                         *)
EndOfCycleNoHeap(m, s, h, i, len, r) ==
  LET result == IF s >= StackSize THEN "ec_stack_corrupted" ELSE r
      inside == DOMAIN m = MemAddr
  IN  /\ mem' = IF inside THEN m ELSE mem
      /\ ret' = IF inside THEN result ELSE "wild_write"
      /\ running' = (inside /\ result = "ec_ok")
      /\ sp' = IF result # "ec_ok" /\ s < 0 THEN 0 ELSE s
      /\ hp' = IF result # "ec_ok" /\ h >= StackSize THEN StackSize - 1 ELSE h
      /\ ip' = IF result = "ec_ok" THEN i + len ELSE i

(* The end of the cycle: m, s, h and i are what the handler left in memory, *)
(* sp, hp and ip, r is its result and len what is left to add to ip.  The   *)
(* stack check has the last word on the result; dump_stack and dump_vars    *)
(* clamp sp and hp.                                                         *)
EndOfCycle(m, s, h, i, len, r) ==
  LET result == IF h >= s \/ s >= StackSize THEN "ec_stack_corrupted" ELSE r
      dumps  == print_stat \/ result # "ec_ok"
      inside == DOMAIN m = MemAddr
  IN  /\ mem' = IF inside THEN m ELSE mem
      /\ ret' = IF inside THEN result ELSE "wild_write"
      /\ running' = (inside /\ result = "ec_ok")
      /\ sp' = IF dumps /\ s < 0 THEN 0 ELSE s
      /\ hp' = IF dumps /\ h >= StackSize THEN StackSize - 1 ELSE h
      /\ ip' = IF result = "ec_ok" THEN i + len ELSE i

(* A handler that only works on memory and the stack.                       *)
Handled(m, s, r) ==
  /\ EndOfCycle(m, s, hp, ip, CmdSize(I.op), r)
  /\ UNCHANGED <<vars_base, recurs_cnt, line_num, out>>

-----------------------------------------------------------------------------
(* Variables.                                                              *)

(* INIT_gVAR, INIT_bVAR: the variable becomes the last one of the heap; an  *)
(* array stores its number of elements in its first byte.  Nothing is       *)
(* cleared.                                                                 *)
InitVar ==
  /\ Decode({"INIT_gVAR", "INIT_bVAR"})
  /\ LET cell  == IF I.op = "INIT_gVAR" THEN FptBytes ELSE 1
         bytes == IF I.byte > 0 THEN 1 + I.byte * cell ELSE cell
         m     == IF I.byte > 0 THEN Write(mem, VarOffs, <<I.byte>>) ELSE mem
     IN  EndOfCycle(m, sp, VarOffs + bytes, ip, CmdSize(I.op), "ec_ok")
  /\ UNCHANGED <<vars_base, recurs_cnt, line_num, out>>

LoadByte ==
  /\ Decode({"LOAD_BYTE"})
  /\ Handled(Write(mem, VarOffs, <<I.byte>>), sp, "ec_ok")

PopToNowhere ==
  /\ Decode({"POP_TO_NOWHERE"})
  /\ Handled(mem, sp + FptBytes, "ec_ok")

PopByte ==
  /\ Decode({"POP_BYTE"})
  /\ Handled(Write(mem, VarOffs, <<StackByte(mem, sp)>>), sp + FptBytes, "ec_ok")

PopVar ==
  /\ Decode({"POP_VAR"})
  /\ Handled(PopVarTo(mem, sp, VarOffs), sp + FptBytes, "ec_ok")

(* A pointer is its type byte and a two byte address, low byte first, both  *)
(* on the stack and in a variable.                                          *)
PopPnt ==
  /\ Decode({"POP_PNT"})
  /\ Handled(Write(mem, VarOffs, Read(mem, sp + 1, 3)), sp + 3, "ec_ok")

(* The index is one byte and is not compared with the size of the array.    *)
PopByteArrayByIdx ==
  /\ Decode({"POP_bARRAY_BY_IDX"})
  /\ LET arr_idx == StackByte(mem, sp + FptBytes)
     IN  Handled(Write(mem, VarOffs + arr_idx + 1, <<StackByte(mem, sp)>>),
                 sp + 2 * FptBytes, "ec_ok")

-----------------------------------------------------------------------------
(* Pushing operands.                                                       *)

PushNumber ==
  /\ Decode({"PUSH_NUM"})
  /\ Handled(PushNum(mem, sp, I.arg), sp - FptBytes, "ec_ok")

PushPnt ==
  /\ Decode({"PUSH_PNT"})
  /\ Handled(Write(mem, sp - 2, Read(mem, VarOffs, 3)), sp - 3, "ec_ok")

PushObjPnt ==
  /\ Decode({"PUSH_OBJ_PNT"})
  /\ Handled(Write(mem, sp - 2, <<I.byte>> \o AddrBytes(VarOffs)), sp - 3, "ec_ok")

PushVariable ==
  /\ Decode({"PUSH_VAR"})
  /\ Handled(PushVar(mem, sp, VarOffs), sp - FptBytes, "ec_ok")

PushByte ==
  /\ Decode({"PUSH_BYTE"})
  /\ Handled(PushNum(mem, sp, i2fpt(Get(mem, VarOffs))), sp - FptBytes, "ec_ok")

PushByteArrayByIdx ==
  /\ Decode({"PUSH_bARRAY_BY_IDX"})
  /\ LET val == Get(mem, VarOffs + StackByte(mem, sp) + 1)
     IN  Handled(PushNum(mem, sp + FptBytes, i2fpt(val)), sp, "ec_ok")

-----------------------------------------------------------------------------
(* Pointers.                                                               *)

Min2(a, b) == IF a < b THEN a ELSE b

(* pop_var_pnt, for the pointer above s: its tag, the address in it, what    *)
(* popping it leaves in memory (the type byte loses its tag, the last two    *)
(* bytes of an inline pointer are swapped) and the width of what it pops.    *)
PntType(m, s) == Get(m, s + 1) - (Get(m, s + 1) % 16)
PntAddr(m, s) == (Get(m, s + 1) % 16) * 65536 + BytesAddr(Read(m, s + 2, 2))
PntMem(m, s)  ==
  IF PntType(m, s) = vvt_inline
  THEN Write(m, s + 1, <<Get(m, s + 1) % 16, Get(m, s + 3), Get(m, s + 2)>>)
  ELSE Write(m, s + 1, <<Get(m, s + 1) % 16>>)
PntWidth(m, s) ==
  IF PntType(m, s) \in ConstPntTypes \cup VarPntTypes \cup {vvt_inline} THEN 3 ELSE 1

ConstByte(a) == IF a \in DOMAIN prog.const THEN prog.const[a] ELSE junk

(* The number of elements of the object, and its bytes, counted from 0; an   *)
(* inline pointer is itself the object.                                      *)
PntSize(m, s) ==
  CASE PntType(m, s) \in ConstPntTypes -> ConstByte(PntAddr(m, s))
    [] PntType(m, s) \in VarPntTypes   -> Get(PntMem(m, s), PntAddr(m, s))
    [] PntType(m, s) = vvt_inline      -> 3
    [] OTHER                           -> 0
PntByte(m, s, i) ==
  CASE PntType(m, s) \in ConstPntTypes -> ConstByte(PntAddr(m, s) + 1 + i)
    [] PntType(m, s) \in VarPntTypes   -> Get(PntMem(m, s), PntAddr(m, s) + 1 + i)
    [] OTHER                           -> Get(PntMem(m, s), s + 1 + i)

(* Copies stop at the shorter array.  From numbers to bytes the low byte of  *)
(* the integer part is taken.                                                *)
CopyToByteArray ==
  /\ Decode({"COPY_TO_bARRAY"})
  /\ LET m     == PntMem(mem, sp)
         n     == Min2(Get(m, VarOffs), PntSize(mem, sp))
         Src(i) == IF PntType(mem, sp) \in GenericPntTypes
                   THEN PntByte(mem, sp, FptWBytes - 2 + FptBytes * i)
                   ELSE PntByte(mem, sp, i)
     IN  Handled(Write(m, VarOffs + 1, [k \in 1..n |-> Src(k - 1)]),
                 sp + PntWidth(mem, sp), "ec_ok")

(* From bytes to numbers the byte goes into the low byte of the integer part *)
(* and zeros around it; the copy ends with the last byte of the source, so   *)
(* when the source is not the longer array the two bytes above the last one  *)
(* keep what they held.                                                      *)
GenBytesOfBytes(dest, size) == IF size = 0 THEN 0 ELSE Min2(dest, FptBytes * (size - 1) + 2)
CopyToGenArray ==
  /\ Decode({"COPY_TO_gARRAY"})
  /\ LET m      == PntMem(mem, sp)
         dest   == FptBytes * Get(m, VarOffs)
         generic == PntType(mem, sp) \in GenericPntTypes
         n      == IF generic THEN Min2(dest, FptBytes * PntSize(mem, sp))
                   ELSE GenBytesOfBytes(dest, PntSize(mem, sp))
         Src(i) == IF generic THEN PntByte(mem, sp, i)
                   ELSE IF i % FptBytes = FptWBytes - 2 THEN PntByte(mem, sp, i \div FptBytes)
                   ELSE 0
     IN  Handled(Write(m, VarOffs + 1, [k \in 1..n |-> Src(k - 1)]),
                 sp + PntWidth(mem, sp), "ec_ok")

-----------------------------------------------------------------------------
(* Jumps, calls and returns.                                               *)

(* A jump's operand is a 16 bit signed offset from the next instruction, a   *)
(* call's a 16 bit signed address.                                           *)
Signed16(a) == IF a % 65536 < 32768 THEN a % 65536 ELSE (a % 65536) - 65536

(* Mutant: the jump counts from its own start.                              *)
JmpFromItself ==
  /\ Decode({"JMP"})
  /\ EndOfCycle(mem, sp, hp, ip + Signed16(I.arg), 0, "ec_ok")
  /\ UNCHANGED <<vars_base, recurs_cnt, line_num, out>>

Jmp ==
  /\ Decode({"JMP"})
  /\ EndOfCycle(mem, sp, hp, ip + Signed16(I.arg), CmdSize(I.op), "ec_ok")
  /\ UNCHANGED <<vars_base, recurs_cnt, line_num, out>>

(* Mutant: a jump that is taken leaves its condition on the stack.          *)
JmpPopCmpzKeeps ==
  /\ Decode({"JMP_POP_CMPZ"})
  /\ LET taken == StackTop(mem, sp) = 0
     IN  EndOfCycle(mem, IF taken THEN sp ELSE sp + FptBytes, hp,
                    IF taken THEN ip + Signed16(I.arg) ELSE ip, CmdSize(I.op), "ec_ok")
  /\ UNCHANGED <<vars_base, recurs_cnt, line_num, out>>

JmpPopCmpz ==
  /\ Decode({"JMP_POP_CMPZ"})
  /\ LET taken == StackTop(mem, sp) = 0
     IN  EndOfCycle(mem, sp + FptBytes, hp, IF taken THEN ip + Signed16(I.arg) ELSE ip,
                    CmdSize(I.op), "ec_ok")
  /\ UNCHANGED <<vars_base, recurs_cnt, line_num, out>>

(* The caller's variable base, the return address and a slot for the result  *)
(* go on the heap; the callee's variables start after them.                  *)
Linkage   == 2 * 2
FrameHead == Linkage + FptBytes
(* Mutant: the callee's base is taken before the slot is reserved.          *)
CallPrgFuncBaseFirst ==
  /\ Decode({"CALL_PRG_FUNC"})
  /\ LET link == AddrBytes(vars_base) \o AddrBytes(ip + CmdSize(I.op))
     IN  EndOfCycle(Write(mem, hp, link), sp, hp + FrameHead, Signed16(I.arg), 0, "ec_ok")
  /\ vars_base' = hp + Linkage
  /\ recurs_cnt' = recurs_cnt + 1
  /\ UNCHANGED <<line_num, out>>

(* Mutant: the two saves are swapped.                                       *)
CallPrgFuncSwapped ==
  /\ Decode({"CALL_PRG_FUNC"})
  /\ LET link == AddrBytes(ip + CmdSize(I.op)) \o AddrBytes(vars_base)
     IN  EndOfCycle(Write(mem, hp, link), sp, hp + FrameHead, Signed16(I.arg), 0, "ec_ok")
  /\ vars_base' = hp + FrameHead
  /\ recurs_cnt' = recurs_cnt + 1
  /\ UNCHANGED <<line_num, out>>

CallPrgFunc ==
  /\ Decode({"CALL_PRG_FUNC"})
  /\ LET link == AddrBytes(vars_base) \o AddrBytes(ip + CmdSize(I.op))
     IN  EndOfCycle(Write(mem, hp, link), sp, hp + FrameHead, Signed16(I.arg), 0, "ec_ok")
  /\ vars_base' = hp + FrameHead
  /\ recurs_cnt' = recurs_cnt + 1
  /\ UNCHANGED <<line_num, out>>

(* Mutant: the caller's heap top keeps the linkage of the call.             *)
ReturnKeepsLinkage ==
  /\ Decode({"RET", "RETVAL"})
  /\ LET slot == vars_base - FptBytes
         m    == IF I.op = "RETVAL" THEN PopVarTo(mem, sp, slot) ELSE mem
         s    == IF I.op = "RETVAL" THEN sp + FptBytes ELSE sp
         m2   == PushVar(m, s, slot)
     IN  IF recurs_cnt > 0
         THEN /\ EndOfCycle(m2, s - FptBytes, slot, BytesAddr(Read(m2, slot - 2, 2)), 0, "ec_ok")
              /\ vars_base' = BytesAddr(Read(m2, slot - Linkage, 2))
              /\ recurs_cnt' = recurs_cnt - 1
         ELSE /\ EndOfCycle(m, s, hp, ip, CmdSize(I.op), "ec_exit")
              /\ UNCHANGED <<vars_base, recurs_cnt>>
  /\ UNCHANGED <<line_num, out>>

(* RETVAL first moves the number on top of the stack to the result's slot.   *)
(* Then the result, or what the slot held, is pushed, and the caller's       *)
(* registers come back from below the slot.  Without a caller the program    *)
(* exits.                                                                    *)
Return ==
  /\ Decode({"RET", "RETVAL"})
  /\ LET slot == vars_base - FptBytes
         m    == IF I.op = "RETVAL" THEN PopVarTo(mem, sp, slot) ELSE mem
         s    == IF I.op = "RETVAL" THEN sp + FptBytes ELSE sp
         m2   == PushVar(m, s, slot)
     IN  IF recurs_cnt > 0
         THEN /\ EndOfCycle(m2, s - FptBytes, slot - Linkage,
                            BytesAddr(Read(m2, slot - 2, 2)), 0, "ec_ok")
              /\ vars_base' = BytesAddr(Read(m2, slot - Linkage, 2))
              /\ recurs_cnt' = recurs_cnt - 1
         ELSE /\ EndOfCycle(m, s, hp, ip, CmdSize(I.op), "ec_exit")
              /\ UNCHANGED <<vars_base, recurs_cnt>>
  /\ UNCHANGED <<line_num, out>>

-----------------------------------------------------------------------------
(* Built-in functions and PRINT.                                           *)

Event(name, args) == [fn |-> name, args |-> args]

(* What print_str shows of an object: the numbers of an array of numbers,    *)
(* the bytes of the others.                                                  *)
Shown(m, s) ==
  [i \in 1..PntSize(m, s) |->
     IF PntType(m, s) \in GenericPntTypes
     THEN BytesNum([k \in 1..FptBytes |-> PntByte(m, s, FptBytes * (i - 1) + k - 1)])
     ELSE PntByte(m, s, i - 1)]

(* call_funcs: how many numbers a function pops; func_SIZE and func_PUTS pop *)
(* a pointer.                                                                *)
NumbersPopped(id) ==
  CASE id \in {func_IN, func_RAND, func_INKEY, func_PUTC, func_PUTN, func_PUTI,
               func_SLEEP_MS}                                 -> 1
    [] id \in {func_SCR_SYM, func_BEEP, func_OUT, func_CURS}   -> 2
    [] OTHER                                                  -> 0
PopsPointer(id) == id \in {func_SIZE, func_PUTS}
KnownFuncs == (func_PUTC..func_CURS) \cup (func_IN..func_SCR_SYM)

(* The results a function may give, before i2fpt; top is the integer part of *)
(* the first number popped.                                                  *)
FuncResults(id, top) ==
  CASE id = func_IN    -> {-1}
    [] id = func_RAND  -> 0..(IF top < 0 THEN 0 ELSE top)
    [] id = func_INKEY -> KeyCodes
    [] id = func_SIZE  -> {PntSize(mem, sp)}
    [] OTHER           -> ScreenValues

(* What a function shows or sends: first the number popped last, as its      *)
(* caller pushed them.                                                       *)
FuncEvents(id) ==
  LET v1 == StackTop(mem, sp)
      v2 == StackTop(mem, sp + FptBytes)
  IN  CASE id = func_PUTC -> <<Event("PUTC", <<<<fpt2i(v1)>>>>)>>
        [] id = func_PUTS -> <<Event("PUTS", <<Shown(mem, sp)>>)>>
        [] id = func_PUTN -> <<Event("PUTN", <<<<v1>>>>)>>
        [] id = func_PUTI -> <<Event("PUTI", <<<<fpt2i(v1)>>>>)>>
        [] id = func_OUT  -> <<Event("OUT", <<<<fpt2i(v2)>>, <<fpt2i(v1)>>>>)>>
        [] id = func_CLS  -> <<Event("CLS", <<>>)>>
        [] id = func_BEEP -> <<Event("BEEP", <<>>)>>
        [] id \in {func_CURS, func_SCR_SYM} ->
             <<Event("CURS", <<<<fpt2i(v2)>>, <<fpt2i(v1)>>>>)>>
        [] OTHER          -> <<>>

CallIntFunc ==
  /\ Decode({"CALL_INT_FUNC"})
  /\ I.arg \in KnownFuncs
  /\ LET m == IF PopsPointer(I.arg) THEN PntMem(mem, sp) ELSE mem
         s == IF PopsPointer(I.arg) THEN sp + PntWidth(mem, sp)
              ELSE sp + FptBytes * NumbersPopped(I.arg)
     IN  IF WithReturn(I.arg)
         THEN \E v \in FuncResults(I.arg, fpt2i(StackTop(mem, sp))) :
                EndOfCycle(PushNum(m, s, i2fpt(v)), s - FptBytes, hp, ip, CmdSize(I.op), "ec_ok")
         ELSE EndOfCycle(m, s, hp, ip, CmdSize(I.op), "ec_ok")
  /\ out' = out \o FuncEvents(I.arg)
  /\ UNCHANGED <<vars_base, recurs_cnt, line_num>>

(* No library function exists.  An unknown function with a result pushes the *)
(* ret_value nobody set.                                                     *)
CallUnknown ==
  /\ Decode({"CALL_INT_FUNC", "CALL_LIB_FUNC", "CALL_INT_PROC"})
  /\ CASE I.op = "CALL_INT_FUNC" -> I.arg \notin KnownFuncs
       [] I.op = "CALL_INT_PROC" -> I.arg \notin {cmd_id_PRINT, cmd_id_PRINT_LN}
       [] OTHER                  -> TRUE
  /\ LET unset == <<junk, junk, junk, junk>>
     IN  IF I.op # "CALL_INT_PROC" /\ WithReturn(I.arg)
         THEN Handled(Write(mem, sp - FptBytes + 1, unset), sp - FptBytes, "ec_call_unknown_func")
         ELSE Handled(mem, sp, "ec_call_unknown_func")

(* PRINT's list of arguments is itself a pointer, inline in what the compiler *)
(* emits: one nibble for each argument, the last one on top of the stack.     *)
(* Every pointer among them is popped as pop_var_pnt does.                    *)
print_ss_none    == 0
print_ss_number  == 2
print_ss_pointer == 8
(* Mutant: a pointer is taken to be an address without its type byte.       *)
PartWidthUntyped(part) == CASE part = print_ss_none     -> 0
                            [] part >= print_ss_pointer -> 2
                            [] OTHER                    -> FptBytes
PartWidth(part) == CASE part = print_ss_none    -> 0
                     [] part >= print_ss_pointer -> 3
                     [] OTHER                   -> FptBytes

CallIntProc ==
  /\ Decode({"CALL_INT_PROC"})
  /\ I.arg \in {cmd_id_PRINT, cmd_id_PRINT_LN}
  /\ LET parts   == 0 .. (2 * PntSize(mem, sp) - 1)
         Part(i) == IF i % 2 = 1 THEN PntByte(mem, sp, i \div 2) % 16
                    ELSE PntByte(mem, sp, i \div 2) \div 16
         base    == sp + PntWidth(mem, sp)
         Wide(w, i) == Cardinality({j \in parts : j > i /\ PartWidth(Part(j)) = w})
         At(i)   == base + FptBytes * Wide(FptBytes, i) + 3 * Wide(3, i)
         m       == PntMem(mem, sp)
         tags    == {At(i) + 1 : i \in {j \in parts : Part(j) = print_ss_pointer}}
         swaps   == {x \in tags : Get(m, x) < 16}
         cells   == tags \cup {x + 1 : x \in swaps} \cup {x + 2 : x \in swaps}
         m2      == [x \in DOMAIN m \cup cells |->
                       IF x \in tags THEN Get(m, x) % 16
                       ELSE IF x - 1 \in swaps THEN Get(m, x + 1)
                       ELSE IF x - 2 \in swaps THEN Get(m, x - 1)
                       ELSE m[x]]
         Text(i) == CASE Part(i) = print_ss_pointer -> Shown(m, At(i))
                      [] Part(i) = print_ss_number  -> <<StackTop(m, At(i))>>
                      [] OTHER                      -> <<>>
         args    == [k \in 1..(2 * PntSize(mem, sp)) |-> Text(k - 1)]
     IN  /\ EndOfCycle(m2, At(-1), hp, ip, CmdSize(I.op), "ec_ok")
         /\ out' = Append(out, Event(IF I.arg = cmd_id_PRINT THEN "PRINT" ELSE "PRINT_LN",
                                     SelectSeq(args, LAMBDA t : t # <<>>)))
  /\ UNCHANGED <<vars_base, recurs_cnt, line_num>>

-----------------------------------------------------------------------------
(* Arithmetic and logic.  Comparisons and logic push the integer 0 or 1, not *)
(* the fixed-point one.                                                      *)

Flag(b) == IF b THEN 1 ELSE 0
TruncDiv(a, b) == LET Abs(x) == IF x < 0 THEN -x ELSE x
                      q == Abs(a) \div Abs(b)
                  IN  IF (a < 0) = (b < 0) THEN q ELSE -q

MathOps == {"MINUS", "PLUS", "MUL", "DIV", "LE", "GE", "LT", "GT", "AND", "OR", "EQ", "NE"}
MathValue(op, a, b) ==
  CASE op = "MINUS" -> a - b
    [] op = "PLUS"  -> a + b
    [] op = "MUL"   -> (a * b) \div FptOne
    [] op = "DIV"   -> TruncDiv(a * FptOne, b)
    [] op = "LE"    -> Flag(a <= b)
    [] op = "GE"    -> Flag(a >= b)
    [] op = "LT"    -> Flag(a < b)
    [] op = "GT"    -> Flag(a > b)
    [] op = "AND"   -> Flag(a # 0 /\ b # 0)
    [] op = "OR"    -> Flag(a # 0 \/ b # 0)
    [] op = "EQ"    -> Flag(a = b)
    [] OTHER        -> Flag(a # b)

MathOp ==
  /\ Decode(MathOps)
  /\ LET value2 == StackTop(mem, sp)
         value1 == StackTop(mem, sp + FptBytes)
     IN  IF I.op = "DIV" /\ value2 = 0
         THEN Handled(mem, sp + 2 * FptBytes, "ec_div_except")
         ELSE Handled(PushNum(mem, sp + 2 * FptBytes, MathValue(I.op, value1, value2)),
                      sp + FptBytes, "ec_ok")

UnaryOp ==
  /\ Decode({"NOT", "INV"})
  /\ LET value == StackTop(mem, sp)
     IN  Handled(PushNum(mem, sp + FptBytes, IF I.op = "NOT" THEN Flag(value = 0) ELSE -value),
                 sp, "ec_ok")

-----------------------------------------------------------------------------
(* Ends, markers, and what is not an instruction.                          *)

End ==
  /\ Decode({"END"})
  /\ Handled(mem, sp, "ec_end")

(* DBG and BREAK note the source line; BREAK also sets by_step.              *)
Marker ==
  /\ Decode({"DBG", "BREAK"})
  /\ EndOfCycle(mem, sp, hp, ip, CmdSize(I.op), "ec_ok")
  /\ line_num' = I.arg % 65536
  /\ UNCHANGED <<vars_base, recurs_cnt, out>>

(* vmo_none leaves Run at once.                                              *)
NoneInstr ==
  /\ Decode({"none"})
  /\ ret' = "ec_inval_code"
  /\ running' = FALSE
  /\ UNCHANGED <<mem, sp, hp, ip, vars_base, recurs_cnt, line_num, out>>

(* The default case of the switch: two listed instructions have no handler.  *)
UnknownInstr ==
  /\ Decode({"PUSH_gARRAY_BY_IDX", "POP_gARRAY_BY_IDX"})
  /\ Handled(mem, sp, "ec_inval_code")

WildFetch ==
  /\ running
  /\ ip < prog.size
  /\ ip \notin DOMAIN Code
  /\ ret' = "wild_fetch"
  /\ running' = FALSE
  /\ UNCHANGED <<prog, print_stat, junk, mem, sp, hp, ip, vars_base, recurs_cnt,
                 by_step, line_num, out>>

(* Past the last instruction the loop ends, and Run returns ec_ok.           *)
LeaveLoop ==
  /\ running
  /\ ip >= prog.size
  /\ running' = FALSE
  /\ UNCHANGED <<prog, print_stat, junk, mem, sp, hp, ip, vars_base, recurs_cnt,
                 by_step, line_num, out, ret>>

(* Run has returned.                                                         *)
Stopped == ~running /\ UNCHANGED vars

-----------------------------------------------------------------------------
Init ==
  /\ prog \in Programs
  /\ print_stat \in BOOLEAN
  /\ junk \in Junk
  /\ mem = [a \in MemAddr |-> IF a < 0 THEN 0 ELSE junk]
  /\ sp = StackSize - 1
  /\ hp = 0
  /\ ip = prog.entry
  /\ vars_base = 0
  /\ recurs_cnt = 0
  /\ by_step = TRUE
  /\ line_num = -1
  /\ out = <<>>
  /\ running = TRUE
  /\ ret = "ec_ok"

Step ==
  \/ InitVar \/ LoadByte \/ PopToNowhere \/ PopByte \/ PopVar \/ PopPnt \/ PopByteArrayByIdx
  \/ PushNumber \/ PushPnt \/ PushObjPnt \/ PushVariable \/ PushByte \/ PushByteArrayByIdx
  \/ CopyToByteArray \/ CopyToGenArray
  \/ Jmp \/ JmpPopCmpz \/ CallPrgFunc \/ Return
  \/ CallIntFunc \/ CallUnknown \/ CallIntProc
  \/ MathOp \/ UnaryOp
  \/ End \/ Marker \/ NoneInstr \/ UnknownInstr \/ WildFetch \/ LeaveLoop

Next == Step \/ Stopped

Spec == Init /\ [][Next]_vars

(* The loop never waits but for a key, and the user presses one.             *)
FairSpec == Spec /\ WF_vars(Step)

-----------------------------------------------------------------------------
(* Types: every cell of the array holds a byte, the array keeps its extent,  *)
(* and only a machine whose loop goes on has no verdict yet but ec_ok.       *)
TypeOK ==
  /\ IsProgram(prog)
  /\ print_stat \in BOOLEAN
  /\ junk \in Byte
  /\ mem \in [MemAddr -> Byte]
  /\ sp \in Int /\ hp \in Int /\ ip \in Int
  /\ vars_base \in Int /\ recurs_cnt \in Nat
  /\ by_step \in BOOLEAN
  /\ line_num \in Int
  /\ running \in BOOLEAN
  /\ ret \in ErrCodes \cup Wild
  /\ running => ret = "ec_ok"
==============================================================================
