------------------------------- MODULE VmCalls -------------------------------
(***************************************************************************)
(* The machine with the history of its calls: what CALL_PRG_FUNC saved,    *)
(* whether the program has kept the rules the linkage bytes on the heap    *)
(* depend on, and where the stack stood when each activation began a       *)
(* statement.  With that history the machine implements CallStack.         *)
(***************************************************************************)
EXTENDS VmExe

VARIABLES
  frames,   \* the callers: return address, variable base, heap top
  sound,    \* no rule has been broken so far
  levels    \* for each activation, sp at its first DBG: <<>> before it

hist  == <<frames, sound, levels>>
cvars == <<vars, hist>>

(* The innermost activation's entry, and the entries of those around it.     *)
Inner(s) == s[Len(s)]
Outer(s) == SubSeq(s, 1, Len(s) - 1)

Fetches  == running /\ ip < prog.size /\ ip \in DOMAIN Code
Calls    == Fetches /\ I.op = "CALL_PRG_FUNC"
Returns  == Fetches /\ I.op \in {"RET", "RETVAL"} /\ recurs_cnt > 0
Declares == Fetches /\ I.op \in {"INIT_gVAR", "INIT_bVAR"}

(* The instructions that store where their operand says.                     *)
StoreOps == {"INIT_gVAR", "INIT_bVAR", "LOAD_BYTE", "POP_BYTE", "POP_VAR", "POP_PNT",
             "POP_bARRAY_BY_IDX", "COPY_TO_bARRAY", "COPY_TO_gARRAY"}
Stores == Fetches /\ I.op \in StoreOps

LinkCells(f) == f.top .. (f.top + Linkage - 1)

(* The rules: a store leaves the linkage of the callers alone, an activation *)
(* declares its variables above its base, and what a call saves fits in the  *)
(* 16 bits it is saved in.                                                   *)
KeepsRules ==
  /\ Stores => \A k \in DOMAIN frames : \A a \in LinkCells(frames[k]) : mem'[a] = mem[a]
  /\ Declares => vars_base <= hp'
  /\ Calls => vars_base \in Word /\ ip + CmdSize("CALL_PRG_FUNC") \in Word

CInit == Init /\ frames = <<>> /\ sound = TRUE /\ levels = <<<<>>>>

CNext ==
  /\ Next
  /\ sound' = (sound /\ KeepsRules)
  /\ frames' = IF Calls
               THEN Append(frames, [pc |-> ip + CmdSize("CALL_PRG_FUNC"),
                                    base |-> vars_base, top |-> hp])
               ELSE IF Returns /\ frames # <<>> THEN Outer(frames) ELSE frames
  /\ levels' = IF Calls THEN Append(levels, <<>>)
               ELSE IF Returns /\ Len(levels) > 1 THEN Outer(levels)
               ELSE IF Fetches /\ I.op = "DBG" /\ Inner(levels) = <<>>
                    THEN Append(Outer(levels), <<sp>>)
               ELSE levels

CSpec == CInit /\ [][CNext]_cvars
CFairSpec == CSpec /\ WF_vars(Step)

-----------------------------------------------------------------------------
(* The machine keeps CallStack's promise: whatever a sound program computes, *)
(* every return restores the caller's ip, vars_base and hp out of the bytes  *)
(* the call left on the heap (vm_exe.c:873-903).                             *)
CallsAndReturns ==
  INSTANCE CallStack WITH
    pc <- ip, base <- vars_base, top <- hp, active <- running,
    CallSize <- CmdSize("CALL_PRG_FUNC")
ImplementsCallStack == CallsAndReturns!Spec

(* While a sound program runs, hp lies between the running activation's base *)
(* and the operand stack, the activations lie one above the other, and the   *)
(* linkage bytes of each spell its caller's registers.  This is the          *)
(* inductive invariant behind ImplementsCallStack.                           *)
BaseOver(k) == IF k = 0 THEN 0 ELSE frames[k].top + FrameHead
LinkOf(f)   == AddrBytes(f.base) \o AddrBytes(f.pc)

Registers ==
  /\ Len(frames) = recurs_cnt
  /\ vars_base = BaseOver(Len(frames))
  /\ 0 <= vars_base /\ vars_base <= hp /\ hp < sp /\ sp < StackSize
Nesting ==
  /\ \A k \in DOMAIN frames :
       /\ frames[k].base = BaseOver(k - 1)
       /\ 0 <= frames[k].base /\ frames[k].base <= frames[k].top
       /\ frames[k].top + FrameHead <= vars_base
  /\ \A j, k \in DOMAIN frames : j < k => frames[j].top + FrameHead <= frames[k].base
LinkBytes ==
  \A k \in DOMAIN frames :
    /\ frames[k].pc \in Word /\ frames[k].base \in Word
    /\ Read(mem, frames[k].top, Linkage) = LinkOf(frames[k])
LinkInv == running /\ sound => Registers /\ Nesting /\ LinkBytes

(* The pads around the array absorb every push and pop of the operand stack, *)
(* although the stack is checked only after the instruction: outside the     *)
(* array write only stores through an operand, PRINT's list, and a function  *)
(* of two numbers when the stack holds none (vm_exe.c:508, 1007).            *)
PadsSuffice ==
  [][ running /\ sound /\ ret' = "wild_write" =>
        \/ I.op \in StoreOps \cup {"CALL_INT_PROC"}
        \/ /\ I.op \in MathOps \cup {"CALL_INT_FUNC"}
           /\ sp + FptBytes >= StackSize ]_vars
==============================================================================
